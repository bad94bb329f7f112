--------------------------- MODULE ModuleMapProofs --------------------------
(***************************************************************************)
(* Theorems about ModuleMap: for every command line, every stream of facts *)
(* and every size of its tables, what audit-modules says of itself is      *)
(* true, and an earlier report survives a run that cannot replace it; and  *)
(* a report that is not trouble says what the facts say, whichever way     *)
(* they came into the tables.                                              *)
(***************************************************************************)
EXTENDS ModuleMap, FiniteSetTheorems, TLAPS

(* An error leads to the end at once, except while the report is written.  *)
TroubleInv ==
  /\ stage \in {"arguments", "load", "open", "report", "end", "ended"}
  /\ err \in BOOLEAN /\ wrote \in BOOLEAN
  /\ status \in {Success, ExitFindings, ExitTrouble}
  /\ section \in 0 .. Len(Sections)
  /\ stage \in {"arguments", "load", "open"} => ~err
  /\ stage \in {"arguments", "load", "open", "report"} => status = ExitTrouble
  /\ stage \notin {"arguments", "end", "ended"} => ~args.help /\ Acceptable(args)

(* The file is opened once all facts are in, and whole at the end only.    *)
FileInv ==
  /\ stage \in {"arguments", "load", "open"} => output = "old"
  /\ stage = "open" => \A r \in DOMAIN pending : pending[r] = 0
  /\ stage = "report" => output = "partial"

(* As long as nothing failed, the flag for broken rules is that of the     *)
(* findings emitted.                                                       *)
WroteInv ==
  /\ stage \in {"arguments", "load", "open"} => ~wrote /\ report = {}
  /\ stage = "report" /\ ~err => (wrote <=> report # {})

(* A run that ends without an error has a verdict, and its reasons.        *)
EndInv ==
  stage = "end" /\ ~err =>
    \/ args.help /\ status = Success
    \/ /\ ~args.help /\ Acceptable(args) /\ output = "whole"
       /\ \/ status = Success /\ outcome = "clean" /\ report = {}
          \/ status = ExitFindings /\ outcome = "findings" /\ report # {}

(* An ended run keeps the verdict, or says that there was trouble.         *)
EndedInv ==
  stage = "ended" => VerdictIsOfTheReport

RunInv == TroubleInv /\ FileInv /\ WroteInv /\ EndInv /\ EndedInv

LEMMA SectionCount == Len(Sections) = 11
BY DEF Sections

LEMMA RunStart == Init => RunInv
<1> SUFFICES ASSUME Init PROVE RunInv
  OBVIOUS
<1>1. TroubleInv
  <2>1. section \in 0 .. Len(Sections)
    BY SectionCount DEF Init
  <2>2. QED
    BY <2>1 DEF Init, TroubleInv
<1>2. FileInv /\ WroteInv /\ EndInv /\ EndedInv
  BY DEF Init, FileInv, WroteInv, EndInv, EndedInv
<1>3. QED
  BY <1>1, <1>2 DEF RunInv

(* A section adds its findings, or an error comes in between.              *)
LEMMA SectionWritten ==
  ASSUME RunInv, WriteSection
  PROVE  RunInv'
<1> DEFINE broken == SectionOf(tables, section + 1)
<1>1. /\ stage = "report" /\ section' = section + 1
      /\ section + 1 <= Len(Sections)
      /\ wrote' = (wrote \/ broken # {})
      /\ \/ ~err /\ report' = report \cup broken /\ err' = err
         \/ err' = TRUE
      /\ UNCHANGED <<stage, args, pending, outcome, output, status>>
  <2>1. err \in BOOLEAN
    BY DEF RunInv, TroubleInv
  <2>2. QED
    BY <2>1 DEF WriteSection, loadVars
<1> HIDE DEF broken
<1>2. wrote' \in BOOLEAN /\ (wrote' <=> wrote \/ broken # {})
  BY <1>1, Zenon
<1>3. TroubleInv' /\ FileInv'
  <2>1. section' \in 0 .. Len(Sections)
    BY <1>1, SectionCount DEF RunInv, TroubleInv
  <2>2. QED
    BY <1>1, <1>2, <2>1 DEF RunInv, TroubleInv, FileInv
<1>4. WroteInv'
  BY <1>1, <1>2 DEF RunInv, WroteInv
<1>5. EndInv' /\ EndedInv'
  BY <1>1 DEF EndInv, EndedInv
<1>6. QED
  BY <1>3, <1>4, <1>5 DEF RunInv

LEMMA RunStep ==
  ASSUME RunInv, [Next]_vars
  PROVE  RunInv'
<1> USE DEF RunInv
<1>1. CASE Arguments
  <2>1. CASE args.help /\ ~args.malformed /\ stage' = "end"
             /\ status' = Success /\ err' \in BOOLEAN
    BY <1>1, <2>1
    DEF Arguments, TroubleInv, FileInv, WroteInv, EndInv, EndedInv, loadVars,
        reportVars
  <2>2. CASE ~args.help /\ Acceptable(args) /\ stage' = "load"
             /\ UNCHANGED <<err, status>>
    BY <1>1, <2>2
    DEF Arguments, TroubleInv, FileInv, WroteInv, EndInv, EndedInv, loadVars,
        reportVars
  <2>3. CASE Fails /\ UNCHANGED status
    BY <1>1, <2>3
    DEF Arguments, Fails, TroubleInv, FileInv, WroteInv, EndInv, EndedInv,
        loadVars, reportVars
  <2>4. QED
    BY <1>1, <2>1, <2>2, <2>3 DEF Arguments
<1>2. CASE Read \/ ReadFails \/ EndLoad
  <2>1. /\ stage = "load"
        /\ UNCHANGED <<args, section, report, wrote, outcome, output, status>>
        /\ \/ stage' = "load" /\ err' = err
           \/ /\ stage' = "open" /\ err' = err /\ pending' = pending
              /\ \A r \in DOMAIN pending : pending[r] = 0
           \/ stage' = "end" /\ err' = TRUE
    <3>1. CASE Read
      <4>1. PICK r \in DOMAIN pending : Apply(r)
        BY <3>1 DEF Read
      <4>2. UNCHANGED <<stage, err>> \/ Fails
        BY <4>1 DEF Apply
      <4>3. QED
        BY <3>1, <4>2 DEF Read, Fails, reportVars
    <3>2. CASE ReadFails
      BY <3>2 DEF ReadFails, Fails, reportVars
    <3>3. CASE EndLoad
      BY <3>3 DEF EndLoad, Fails, loadVars, reportVars
    <3>4. QED
      BY <1>2, <3>1, <3>2, <3>3
  <2>2. TroubleInv'
    <3>1. /\ stage = "load" /\ err = FALSE
          /\ UNCHANGED <<args, section, wrote, status>>
          /\ \/ stage' \in {"load", "open"} /\ err' = FALSE
             \/ stage' = "end"
          /\ err' \in BOOLEAN
      BY <2>1 DEF TroubleInv
    <3>2. QED
      BY <3>1 DEF TroubleInv
  <2>3. FileInv'
    BY <2>1 DEF FileInv
  <2>4. WroteInv' /\ EndInv' /\ EndedInv'
    BY <2>1 DEF TroubleInv, WroteInv, EndInv, EndedInv
  <2>5. QED
    BY <2>2, <2>3, <2>4
<1>3. CASE Open
  <2>1. /\ stage = "open"
        /\ UNCHANGED <<args, pending, section, report, wrote, outcome, status>>
        /\ \/ stage' = "report" /\ err' = err /\ output' = "partial"
           \/ stage' = "end" /\ err' = TRUE
    BY <1>3 DEF Open, Fails, loadVars, reportVars
  <2>2. TroubleInv'
    BY <2>1 DEF TroubleInv
  <2>3. FileInv'
    BY <2>1 DEF FileInv
  <2>4. WroteInv' /\ EndInv' /\ EndedInv'
    BY <2>1 DEF TroubleInv, WroteInv, EndInv, EndedInv
  <2>5. QED
    BY <2>2, <2>3, <2>4
<1>4. CASE BeginFails
  BY <1>4 DEF BeginFails, Fails, reportVars, loadVars, TroubleInv, FileInv,
              WroteInv, EndInv, EndedInv
<1>5. CASE WriteSection
  BY <1>5, SectionWritten
<1>6. CASE EndReport
  <2>1. /\ stage = "report" /\ stage' = "end"
        /\ outcome' = IF wrote THEN "findings" ELSE "clean"
        /\ UNCHANGED <<args, pending, section, report, wrote>>
        /\ \/ err' = TRUE /\ status' \in {ExitTrouble, ExitFindings, Success}
           \/ /\ ~err /\ err' = err /\ output' = "whole"
              /\ status' = IF wrote THEN ExitFindings ELSE Success
    BY <1>6 DEF EndReport, loadVars
  <2>2. TroubleInv' /\ FileInv' /\ WroteInv' /\ EndedInv'
    BY <2>1 DEF TroubleInv, FileInv, WroteInv, EndedInv
  <2>3. EndInv'
    BY <2>1 DEF EndInv, TroubleInv, WroteInv, Success, ExitFindings
  <2>4. QED
    BY <2>2, <2>3
<1>7. CASE Exit
  <2>1. /\ stage = "end" /\ stage' = "ended"
        /\ status' = IF err THEN ExitTrouble ELSE status
        /\ UNCHANGED <<args, pending, err, section, report, wrote, outcome,
                       output>>
    BY <1>7 DEF Exit, loadVars, reportVars
  <2>2. TroubleInv' /\ FileInv' /\ WroteInv' /\ EndInv'
    BY <2>1 DEF TroubleInv, FileInv, WroteInv, EndInv
  <2>3. EndedInv'
    BY <2>1
    DEF EndedInv, VerdictIsOfTheReport, Reported, EndInv, Success,
        ExitFindings, ExitTrouble
  <2>4. QED
    BY <2>2, <2>3
<1>8. CASE UNCHANGED vars
  BY <1>8 DEF vars, loadVars, reportVars, TroubleInv, FileInv, WroteInv,
              EndInv, EndedInv, VerdictIsOfTheReport, Reported
<1>9. QED
  BY <1>1, <1>2, <1>3, <1>4, <1>5, <1>6, <1>7, <1>8 DEF Next, Run, Ended


(* Every state of every run satisfies RunInv: an error met before the      *)
(* report leaves the file alone, and a run that ends without one has       *)
(* written the report its status stands for.                               *)
THEOREM RunInvariant == Spec => []RunInv
BY RunStart, RunStep, PTL DEF Spec

(* The exit status, the outcome the report ends with and the findings in   *)
(* it agree, whatever the facts are (report.c and main.c work them out     *)
(* separately).                                                            *)
THEOREM VerdictAgrees == Spec => []VerdictIsOfTheReport
<1>1. RunInv => VerdictIsOfTheReport
  BY DEF RunInv, EndedInv, VerdictIsOfTheReport, Reported
<1>2. QED
  BY <1>1, RunInvariant, PTL

(* An earlier report is overwritten only once every record has been read   *)
(* without an error (Open, after EndLoad).                                 *)
THEOREM OldReportSurvives == Spec => OldReportKept
<1>1. RunInv /\ [Next]_vars =>
        [output = "old" /\ output' # "old" =>
           ~err /\ \A r \in DOMAIN pending : pending[r] = 0]_vars
  <2> SUFFICES ASSUME RunInv, Next, output = "old", output' # "old"
               PROVE  ~err /\ \A r \in DOMAIN pending : pending[r] = 0
    OBVIOUS
  <2>1. stage # "report"
    BY DEF RunInv, FileInv
  <2>2. Open
    BY <2>1
    DEF Next, Run, Arguments, Read, ReadFails, EndLoad, BeginFails,
        WriteSection, EndReport, Exit, Ended, vars
  <2>3. QED
    BY <2>2 DEF Open, RunInv, TroubleInv, FileInv
<1>2. QED
  BY <1>1, RunInvariant, PTL DEF Spec, OldReportKept

-----------------------------------------------------------------------------
(* What the command shows of itself to AuditTool.                          *)

Wanted ==
  IF stage = "arguments" \/ args.help \/ ~Acceptable(args) THEN {}
  ELSE {"report"}
Written == IF output = "whole" THEN {"report"} ELSE {}
StatusSoFar ==
  IF stage # "ended" THEN "none"
  ELSE CASE status = Success      -> "clean"
         [] status = ExitFindings -> "findings"
         [] status = ExitTrouble  -> "trouble"

ShownStep == [Promise!ToolNext]_(Promise!toolVars)

LEMMA ShownQuiet ==
  ASSUME UNCHANGED <<Wanted, Written, StatusSoFar>>, StatusSoFar = "none",
         err' = err \/ err' = TRUE
  PROVE  ShownStep
BY DEF ShownStep, Promise!ToolNext, Promise!MeetTrouble, Promise!Running,
       Promise!toolVars, Wanted, Written, StatusSoFar

(* audit-modules implements AuditTool: it says 0 or 1 only when it met no  *)
(* trouble and its report stands there as a whole.                         *)
THEOREM Refinement == Spec => KeepsPromise
<1>1. Init => Promise!ToolInit
  BY DEF Init, Promise!ToolInit
<1>2. RunInv /\ [Next]_vars => ShownStep
  <2> SUFFICES ASSUME RunInv, [Next]_vars PROVE ShownStep
    OBVIOUS
  <2> USE DEF RunInv
  <2>1. CASE Arguments
    <3>1. /\ stage = "arguments" /\ stage' \in {"load", "end"}
          /\ err = FALSE /\ output = "old"
          /\ UNCHANGED <<args, output>>
      BY <2>1
      DEF Arguments, Fails, TroubleInv, FileInv
    <3>2. Wanted = {} /\ Written = {} /\ Written' = {}
      BY <3>1 DEF Wanted, Written
    <3>3. StatusSoFar = "none" /\ StatusSoFar' = "none"
      BY <3>1 DEF StatusSoFar
    <3>4. CASE ~args.help /\ Acceptable(args)
      <4>1. err' = err
        BY <2>1, <3>1, <3>4 DEF Arguments
      <4>2. Wanted' \in SUBSET {"report"}
        BY DEF Wanted
      <4>3. Promise!Ask
        BY <3>2, <3>3, <4>1, <4>2
        DEF Promise!Ask, Promise!Running, Wanted, Written, StatusSoFar
      <4>4. QED
        BY <4>3 DEF ShownStep, Promise!ToolNext
    <3>5. CASE args.help \/ ~Acceptable(args)
      <4>1. Wanted' = {}
        BY <3>1, <3>5 DEF Wanted
      <4>2. err' = err \/ err' = TRUE
        BY <2>1, <3>1 DEF Arguments, Fails
      <4>3. QED
        BY <3>2, <3>3, <4>1, <4>2, ShownQuiet
    <3>6. QED
      BY <3>4, <3>5
  <2>2. CASE /\ UNCHANGED <<args, output>>
             /\ stage \notin {"arguments", "ended"}
             /\ stage' \notin {"arguments", "ended"}
             /\ err' = err \/ err' = TRUE
    <3>1. UNCHANGED <<Wanted, Written, StatusSoFar>> /\ StatusSoFar = "none"
      BY <2>2 DEF Wanted, Written, StatusSoFar
    <3>2. QED
      BY <2>2, <3>1, ShownQuiet
  <2>3. CASE Read
    <3>1. PICK r \in DOMAIN pending : Apply(r)
      BY <2>3 DEF Read
    <3>2. UNCHANGED <<stage, err>> \/ Fails
      BY <3>1 DEF Apply
    <3>3. QED
      BY <2>2, <2>3, <3>2 DEF Read, Fails
  <2>4. CASE ReadFails \/ EndLoad \/ BeginFails
    BY <2>2, <2>4 DEF ReadFails, EndLoad, BeginFails, Fails
  <2>5. CASE WriteSection
    BY <2>2, <2>5 DEF WriteSection, TroubleInv
  <2>6. CASE Open
    <3>1. /\ stage = "open" /\ stage' \in {"report", "end"}
          /\ output = "old" /\ output' # "whole"
          /\ args' = args /\ (err' = err \/ err' = TRUE)
      BY <2>6 DEF Open, Fails, FileInv
    <3>2. UNCHANGED <<Wanted, Written, StatusSoFar>> /\ StatusSoFar = "none"
      BY <3>1 DEF Wanted, Written, StatusSoFar
    <3>3. QED
      BY <3>1, <3>2, ShownQuiet
  <2>7. CASE EndReport
    <3>1. /\ stage = "report" /\ stage' = "end" /\ args' = args
          /\ output = "partial"
          /\ \/ err' = TRUE /\ output' = output
             \/ err' = err /\ output' = "whole"
      BY <2>7 DEF EndReport, FileInv
    <3>2. Wanted' = Wanted /\ StatusSoFar = "none" /\ StatusSoFar' = "none"
      BY <3>1 DEF Wanted, StatusSoFar
    <3>3. CASE err' = TRUE /\ output' = output
      BY <3>2, <3>3, ShownQuiet DEF Written
    <3>4. CASE err' = err /\ output' = "whole"
      <4>1. Written' = Written \cup {"report"}
        BY <3>1, <3>4 DEF Written
      <4>2. Promise!Write("report")
        BY <3>2, <3>4, <4>1
        DEF Promise!Write, Promise!Running, Wanted, Written, StatusSoFar
      <4>3. QED
        BY <4>2 DEF ShownStep, Promise!ToolNext
    <3>5. QED
      BY <3>1, <3>3, <3>4
  <2>8. CASE Exit
    <3>1. /\ stage = "end" /\ stage' = "ended"
          /\ status' = IF err THEN ExitTrouble ELSE status
          /\ UNCHANGED <<args, err, output>>
      BY <2>8 DEF Exit
    <3>2. UNCHANGED <<Wanted, Written>> /\ StatusSoFar = "none"
      BY <3>1 DEF Wanted, Written, StatusSoFar
    <3>3. CASE err
      <4>1. StatusSoFar' = "trouble"
        BY <3>1, <3>3 DEF StatusSoFar, Success, ExitFindings, ExitTrouble
      <4>2. Promise!Conclude
        BY <3>1, <3>2, <3>3, <4>1
        DEF Promise!Conclude, Promise!Running, Wanted, Written, StatusSoFar
      <4>3. QED
        BY <4>2 DEF ShownStep, Promise!ToolNext
    <3>4. CASE ~err
      <4>1. StatusSoFar' \in {"clean", "findings"}
        <5>1. status' \in {Success, ExitFindings} /\ stage' = "ended"
          BY <3>1, <3>4 DEF EndInv
        <5>2. QED
          BY <5>1 DEF StatusSoFar, Success, ExitFindings, ExitTrouble
      <4>2. Wanted \subseteq Written
        BY <3>1, <3>4 DEF Wanted, Written, EndInv
      <4>3. Promise!Conclude
        BY <3>1, <3>2, <3>4, <4>1, <4>2
        DEF Promise!Conclude, Promise!Running, Wanted, Written, StatusSoFar
      <4>4. QED
        BY <4>3 DEF ShownStep, Promise!ToolNext
    <3>5. QED
      BY <3>3, <3>4
  <2>9. CASE UNCHANGED vars
    <3>1. UNCHANGED <<Wanted, Written, StatusSoFar, err>>
      BY <2>9 DEF vars, Wanted, Written, StatusSoFar
    <3>2. QED
      BY <3>1 DEF ShownStep, Promise!toolVars, Wanted, Written, StatusSoFar
  <2>10. QED
    BY <2>1, <2>3, <2>4, <2>5, <2>6, <2>7, <2>8, <2>9 DEF Next, Run, Ended
<1>3. QED
  BY <1>1, <1>2, RunInvariant, PTL
  DEF Spec, KeepsPromise, Promise!ToolSpec, ShownStep

-----------------------------------------------------------------------------
(* Lists.                                                                  *)

IsList(s) == s \in Seq(ToSet(s))

LEMMA ListOf ==
  ASSUME NEW S, NEW s \in Seq(S)
  PROVE  IsList(s) /\ ToSet(s) \subseteq S
BY DEF ToSet, IsList

LEMMA ListLength ==
  ASSUME NEW s, IsList(s)
  PROVE  /\ Len(s) \in Nat /\ DOMAIN s = 1 .. Len(s)
         /\ \A i \in DOMAIN s : s[i] \in ToSet(s)
         /\ \A e \in ToSet(s) : \E i \in DOMAIN s : s[i] = e
BY DEF IsList, ToSet

LEMMA ListGrown ==
  ASSUME NEW s, NEW e, NEW longer, IsList(s), longer = Append(s, e)
  PROVE  /\ IsList(longer) /\ DOMAIN longer = DOMAIN s \cup {Len(s) + 1}
         /\ Len(s) + 1 \notin DOMAIN s
         /\ longer[Len(s) + 1] = e
         /\ \A i \in DOMAIN s : longer[i] = s[i]
         /\ ToSet(longer) = ToSet(s) \cup {e}
<1>1. PICK S : S = ToSet(s) \cup {e}
  OBVIOUS
<1>2. s \in Seq(S) /\ e \in S
  BY <1>1 DEF IsList
<1>3. Len(s) \in Nat /\ DOMAIN s = 1 .. Len(s)
  BY <1>2
<1>4. longer \in Seq(S) /\ Len(longer) = Len(s) + 1
  BY <1>2
<1>5. IsList(longer)
  BY <1>4, ListOf
<1>6. /\ DOMAIN longer = DOMAIN s \cup {Len(s) + 1}
      /\ Len(s) + 1 \notin DOMAIN s
  <2>1. DOMAIN longer = 1 .. Len(longer)
    BY <1>5, ListLength
  <2>2. QED
    BY <1>3, <1>4, <2>1
<1>7. longer[Len(s) + 1] = e
  BY <1>2, <1>3
<1>8. \A i \in DOMAIN s : longer[i] = s[i]
  BY <1>2, <1>3
<1>9. ToSet(longer) = ToSet(s) \cup {e}
  BY <1>6, <1>7, <1>8 DEF ToSet
<1>10. QED
  BY <1>5, <1>6, <1>7, <1>8, <1>9

LEMMA ListExtended ==
  ASSUME NEW s, NEW e, IsList(s)
  PROVE  /\ IsList(Append(s, e)) /\ DOMAIN Append(s, e) = DOMAIN s \cup {Len(s) + 1}
         /\ Len(s) + 1 \notin DOMAIN s
         /\ Append(s, e)[Len(s) + 1] = e
         /\ \A i \in DOMAIN s : Append(s, e)[i] = s[i]
         /\ ToSet(Append(s, e)) = ToSet(s) \cup {e}
<1>1. PICK longer : longer = Append(s, e)
  OBVIOUS
<1>2. QED
  BY <1>1, ListGrown

LEMMA ListChanged ==
  ASSUME NEW s, NEW k \in DOMAIN s, NEW e, IsList(s)
  PROVE  IsList([s EXCEPT ![k] = e])
<1>1. PICK S : S = ToSet(s) \cup {e}
  OBVIOUS
<1>2. s \in Seq(S) /\ e \in S
  BY <1>1 DEF IsList
<1>3. [s EXCEPT ![k] = e] \in Seq(S)
  BY <1>2
<1>4. QED
  BY <1>3, ListOf

(* A list without repetition of the members of a finite set.               *)
LEMMA Listed ==
  ASSUME NEW S, IsFiniteSet(S)
  PROVE  /\ IsList(SetToSeq(S)) /\ ToSet(SetToSeq(S)) = S
         /\ \A i, j \in DOMAIN SetToSeq(S) :
              SetToSeq(S)[i] = SetToSeq(S)[j] => i = j
<1>1. PICK n \in Nat : ExistsBijection(1 .. n, S)
  BY FS_NatBijection
<1>2. Cardinality(S) = n
  BY <1>1, FS_CountingElements
<1>3. PICK f \in Bijection(1 .. n, S) : TRUE
  BY <1>1 DEF ExistsBijection
<1>4. f \in [1 .. Cardinality(S) -> S] /\ IsInjective(f)
  BY <1>2, <1>3 DEF Bijection, Injection, IsInjective
<1>5. /\ SetToSeq(S) \in [1 .. Cardinality(S) -> S]
      /\ IsInjective(SetToSeq(S))
  BY <1>4 DEF SetToSeq
<1> DEFINE s == SetToSeq(S)
<1> HIDE DEF s
<1>6. /\ s \in [1 .. n -> S] /\ DOMAIN s = 1 .. n
      /\ \A i, j \in DOMAIN s : s[i] = s[j] => i = j
  BY <1>2, <1>5 DEF s, IsInjective
<1>7. IsList(s)
  <2>1. s \in Seq(S)
    BY <1>6
  <2>2. QED
    BY <2>1, ListOf
<1>8. s \in Bijection(1 .. n, S)
  <2>1. s \in Injection(1 .. n, S)
    BY <1>6 DEF Injection, IsInjective
  <2>2. Cardinality(1 .. n) = n
    BY FS_Interval
  <2>3. s \in Surjection(1 .. n, S)
    BY <1>2, <2>1, <2>2, FS_Injection
  <2>4. QED
    BY <2>1, <2>3 DEF Bijection
<1>9. ToSet(s) = S
  BY <1>6, <1>8 DEF ToSet, Bijection, Surjection
<1>10. QED
  BY <1>6, <1>7, <1>9 DEF s

(* How often the members of a set occur in a list that has each once.      *)
LEMMA Occurrences ==
  ASSUME NEW s, IsList(s), \A i, j \in DOMAIN s : s[i] = s[j] => i = j,
         NEW T, T \subseteq ToSet(s)
  PROVE  /\ IsFiniteSet(T)
         /\ Cardinality({i \in DOMAIN s : s[i] \in T}) = Cardinality(T)
<1> DEFINE places == {i \in DOMAIN s : s[i] \in T}
<1>1. PICK f : f = [i \in places |-> s[i]]
  OBVIOUS
<1>2. f \in Injection(places, T) /\ f \in Surjection(places, T)
  <2>1. f \in [places -> T] /\ \A i \in places : f[i] = s[i]
    BY <1>1
  <2>2. \A i, j \in places : f[i] = f[j] => i = j
    BY <2>1
  <2>3. \A e \in T : \E i \in places : f[i] = e
    BY <2>1 DEF ToSet
  <2>4. QED
    BY <2>1, <2>2, <2>3 DEF Injection, IsInjective, Surjection
<1>3. IsFiniteSet(places)
  <2>1. IsFiniteSet(DOMAIN s)
    BY ListLength, FS_Interval
  <2>2. QED
    BY <2>1, FS_Subset
<1>4. QED
  BY <1>2, <1>3, FS_Surjection

-----------------------------------------------------------------------------
(* What the tables hold.                                                   *)

FactTables == {"includes", "functions", "macros", "types", "calls", "notes"}
Kept(F, n) == {f \in F : Recorded(f) /\ TableOf(f) = n}

CounterNames == {"sources", "headers", "functions", "public", "static",
               "declarations", "macros", "types", "local", "external"}
IsModule(m) ==
  /\ m = [c \in {"name"} \cup CounterNames |-> m[c]]
  /\ \A c \in CounterNames : m[c] \in Nat
IsTables(t) == t = [n \in TableNames |-> t[n]]
Shaped(t) ==
  /\ IsTables(t)
  /\ \A n \in TableNames : IsList(t[n])
  /\ \A i \in DOMAIN t.modules : IsModule(t.modules[i])

(* The modules, each once, and what is counted of them.                    *)
ModulesNamed(ms, M) ==
  /\ \A i \in DOMAIN ms : ms[i].name \in M
  /\ \A m \in M : \E i \in DOMAIN ms : ms[i].name = m
  /\ \A i, j \in DOMAIN ms :
       ms[i].name = ms[j].name => i = j

DefinitionsIn(t, m) ==
  {k \in DOMAIN t.functions :
     t.functions[k].definition /\ ModuleOf(t.functions[k].path) = m}
PublicsIn(t, m) == {k \in DefinitionsIn(t, m) : ~t.functions[k].static}
Counted(t, x) ==
  /\ x.functions = Cardinality(DefinitionsIn(t, x.name))
  /\ x.public = Cardinality(PublicsIn(t, x.name))
  /\ x.sources > 0 <=> \E p \in ToSet(t.files) : ModuleOf(p) = x.name /\ ~p.header
  /\ x.headers > 0 <=> \E p \in ToSet(t.files) : ModuleOf(p) = x.name /\ p.header

(* The facts: of each site one, and each include and each call.            *)
NoneInvented(t, F) == \A n \in FactTables : ToSet(t[n]) \subseteq Kept(F, n)
KeptWhole(t, F, n) == \A f \in Kept(F, n) : f \in ToSet(t[n])
SitesKept(t, F, n) == \A f \in Kept(F, n) : \E g \in ToSet(t[n]) : Site(g) = Site(f)
NoneLost(t, F) ==
  /\ \A n \in {"includes", "calls"} : KeptWhole(t, F, n)
  /\ \A n \in {"functions", "macros", "types"} : SitesKept(t, F, n)
  /\ ~Full(t, "notes") => SitesKept(t, F, "notes")
SitesOnce(t) ==
  \A i, j \in DOMAIN t.functions :
    Site(t.functions[i]) = Site(t.functions[j]) => i = j

Placed(M, P, F) == (\A p \in P : ModuleOf(p) \in M) /\ (\A f \in F : f.path \in P)

Holds(t, M, P, F) ==
  /\ Shaped(t) /\ Placed(M, P, F)
  /\ ToSet(t.files) = P /\ ModulesNamed(t.modules, M)
  /\ \A i \in DOMAIN t.modules : Counted(t, t.modules[i])
  /\ NoneInvented(t, F) /\ NoneLost(t, F) /\ SitesOnce(t)

LEMMA SameSiteMeans ==
  ASSUME NEW f, NEW g
  PROVE  SameSite(f, g) <=> Site(f) = Site(g)
BY DEF SameSite, Site

(* Each kind of fact has its table.                                        *)
LEMMA TableIs ==
  ASSUME NEW f, Recorded(f)
  PROVE  /\ TableOf(f) \in FactTables
         /\ TableOf(f) = "functions" <=> f.kind = "FUNCTION"
         /\ TableOf(f) = "includes" <=> f.kind = "INCLUDE"
         /\ TableOf(f) = "calls" <=> f.kind = "CALL"
         /\ TableOf(f) = "notes" <=> f.kind = "NOTE"
BY DEF Recorded, TableOf, FactTables

LEMMA TableFields ==
  ASSUME NEW t, Shaped(t)
  PROVE  /\ IsList(t.files) /\ IsList(t.modules) /\ IsList(t.functions)
         /\ \A n \in FactTables : IsList(t[n])
         /\ t.files = t["files"] /\ t.modules = t["modules"]
         /\ t.functions = t["functions"] /\ t.notes = t["notes"]
BY DEF Shaped, TableNames, FactTables

(* get_module finds the module it is asked for.                            *)
LEMMA ModuleFound ==
  ASSUME NEW t, NEW M, ModulesNamed(t.modules, M), NEW m
  PROVE  /\ HasModule(t, m) <=> m \in M
         /\ m \in M => /\ ModuleAt(t, m) \in DOMAIN t.modules
                       /\ t.modules[ModuleAt(t, m)].name = m
         /\ \A i \in DOMAIN t.modules :
              t.modules[i].name = m => i = ModuleAt(t, m)
<1>1. HasModule(t, m) <=> m \in M
  BY DEF HasModule, ModulesNamed
<1>2. ASSUME m \in M
      PROVE  /\ ModuleAt(t, m) \in DOMAIN t.modules
             /\ t.modules[ModuleAt(t, m)].name = m
  <2>1. \E i \in DOMAIN t.modules : t.modules[i].name = m
    BY <1>2 DEF ModulesNamed
  <2>2. QED
    BY <2>1 DEF ModuleAt
<1>3. ASSUME NEW i \in DOMAIN t.modules, t.modules[i].name = m
      PROVE  i = ModuleAt(t, m)
  BY <1>2, <1>3 DEF ModulesNamed
<1>4. QED
  BY <1>1, <1>2, <1>3

(* Counting looks at the files and the functions only.                     *)
LEMMA CountsStay ==
  ASSUME NEW t, NEW u, NEW x, u.files = t.files, u.functions = t.functions
  PROVE  Counted(u, x) <=> Counted(t, x)
BY DEF Counted, DefinitionsIn, PublicsIn

LEMMA LossesStay ==
  ASSUME NEW t, NEW u, NEW F, NoneLost(t, F), \A n \in FactTables : u[n] = t[n]
  PROVE  NoneLost(u, F)
<1>1. \A n \in FactTables : /\ KeptWhole(t, F, n) => KeptWhole(u, F, n)
                            /\ SitesKept(t, F, n) => SitesKept(u, F, n)
                            /\ Full(t, n) => Full(u, n)
  BY DEF KeptWhole, SitesKept, Full
<1>2. QED
  BY <1>1 DEF NoneLost, FactTables

LEMMA NewModuleIs ==
  ASSUME NEW m
  PROVE  /\ IsModule(NewModule(m)) /\ NewModule(m).name = m
         /\ \A c \in CounterNames : NewModule(m)[c] = 0
BY DEF NewModule, IsModule, CounterNames

(* The counters of a module that go up with a file or a fact.              *)
Up(x, C) == [c \in DOMAIN x |-> IF c \in C THEN x[c] + 1 ELSE x[c]]

LEMMA UpIs ==
  ASSUME NEW x, IsModule(x), NEW C \in SUBSET CounterNames
  PROVE  /\ IsModule(Up(x, C)) /\ Up(x, C).name = x.name
         /\ \A c \in CounterNames :
              x[c] \in Nat /\ Up(x, C)[c] = IF c \in C THEN x[c] + 1 ELSE x[c]
<1>1. /\ DOMAIN x = {"name"} \cup CounterNames
      /\ \A c \in CounterNames : x[c] \in Nat
  BY DEF IsModule
<1>2. /\ Up(x, C) = [c \in {"name"} \cup CounterNames |-> Up(x, C)[c]]
      /\ \A c \in {"name"} \cup CounterNames :
           Up(x, C)[c] = IF c \in C THEN x[c] + 1 ELSE x[c]
  BY <1>1 DEF Up
<1>3. "name" \notin C
  BY DEF CounterNames
<1>4. IsModule(Up(x, C))
  BY <1>1, <1>2 DEF IsModule
<1>5. Up(x, C).name = x.name
  BY <1>2, <1>3
<1>6. QED
  BY <1>1, <1>2, <1>4, <1>5

(* get_module appends a module that no file and no function is in yet.     *)
LEMMA ModuleAdded ==
  ASSUME NEW t, NEW M, NEW P, NEW F, Holds(t, M, P, F), NEW m, m \notin M,
         NEW u, IsTables(u), u.modules = Append(t.modules, NewModule(m)),
         \A n \in TableNames \ {"modules"} : u[n] = t[n]
  PROVE  Holds(u, M \cup {m}, P, F)
<1>1. /\ IsList(t.modules) /\ u.modules = u["modules"]
      /\ u.files = t.files /\ u.functions = t.functions
      /\ \A n \in FactTables : u[n] = t[n]
  BY TableFields DEF Holds, TableNames, FactTables
<1>2. PICK ms, k : ms = u.modules /\ k = Len(t.modules) + 1
  OBVIOUS
<1>3. /\ IsList(ms) /\ DOMAIN ms = DOMAIN t.modules \cup {k}
      /\ k \notin DOMAIN t.modules /\ ms[k] = NewModule(m)
      /\ \A i \in DOMAIN t.modules : ms[i] = t.modules[i]
  <2>1. PICK s, e : s = t.modules /\ e = NewModule(m)
    OBVIOUS
  <2>2. /\ IsList(Append(s, e)) /\ DOMAIN Append(s, e) = DOMAIN s \cup {Len(s) + 1}
        /\ Len(s) + 1 \notin DOMAIN s /\ Append(s, e)[Len(s) + 1] = e
        /\ \A i \in DOMAIN s : Append(s, e)[i] = s[i]
    BY <1>1, <2>1, ListExtended
  <2>3. QED
    BY <1>2, <2>1, <2>2
<1>4. Shaped(u)
  <2>1. \A n \in TableNames : IsList(u[n])
    BY <1>1, <1>2, <1>3 DEF Holds, Shaped
  <2>2. \A i \in DOMAIN u.modules : IsModule(u.modules[i])
    BY <1>2, <1>3, NewModuleIs DEF Holds, Shaped
  <2>3. QED
    BY <2>1, <2>2 DEF Shaped
<1>5. ModulesNamed(u.modules, M \cup {m})
  <2>1. ModulesNamed(t.modules, M)
    BY DEF Holds
  <2>2. ms[k].name = m
    BY <1>3, NewModuleIs
  <2>3. /\ \A i \in DOMAIN ms : ms[i].name \in M \cup {m}
        /\ \A x \in M \cup {m} : \E i \in DOMAIN ms : ms[i].name = x
    BY <1>3, <2>1, <2>2 DEF ModulesNamed
  <2>4. \A i, j \in DOMAIN ms : ms[i].name = ms[j].name => i = j
    BY <1>3, <2>1, <2>2 DEF ModulesNamed
  <2>5. QED
    BY <1>2, <2>3, <2>4 DEF ModulesNamed
<1>6. ASSUME NEW i \in DOMAIN u.modules
      PROVE  Counted(u, u.modules[i])
  <2>1. CASE i \in DOMAIN t.modules
    <3>1. Counted(t, t.modules[i]) /\ u.modules[i] = t.modules[i]
      BY <1>2, <1>3, <2>1 DEF Holds
    <3>2. QED
      BY <1>1, <3>1, CountsStay
  <2>2. CASE i = k
    <3>1. u.modules[i] = NewModule(m)
      BY <1>2, <1>3, <2>2
    <3>2. \A p \in ToSet(t.files) : ModuleOf(p) # m
      BY DEF Holds, Placed
    <3>3. DefinitionsIn(u, m) = {}
      <4>1. ASSUME NEW j \in DOMAIN t.functions
            PROVE  ModuleOf(t.functions[j].path) # m
        <5>1. t.functions[j] \in F
          BY TableFields DEF Holds, NoneInvented, Kept, FactTables, ToSet
        <5>2. QED
          BY <5>1 DEF Holds, Placed
      <4>2. QED
        BY <1>1, <4>1 DEF DefinitionsIn
    <3>4. PublicsIn(u, m) = {}
      BY <3>3 DEF PublicsIn
    <3>5. PICK x : x = NewModule(m)
      OBVIOUS
    <3>6. /\ x.name = m /\ x.functions = 0 /\ x.public = 0
          /\ ~(x.sources > 0) /\ ~(x.headers > 0)
      BY <3>5 DEF NewModule
    <3>7. Counted(u, x)
      BY <1>1, <3>2, <3>3, <3>4, <3>6, FS_EmptySet DEF Counted
    <3>8. QED
      BY <3>1, <3>5, <3>7
  <2>3. QED
    BY <1>2, <1>3, <2>1, <2>2
<1>7. NoneInvented(u, F) /\ NoneLost(u, F) /\ SitesOnce(u)
  <2>1. NoneInvented(t, F) /\ NoneLost(t, F) /\ SitesOnce(t)
    BY DEF Holds
  <2>2. NoneInvented(u, F)
    BY <1>1, <2>1 DEF NoneInvented
  <2>3. NoneLost(u, F)
    BY <1>1, <2>1, LossesStay
  <2>4. SitesOnce(u)
    BY <1>1, <2>1 DEF SitesOnce
  <2>5. QED
    BY <2>2, <2>3, <2>4
<1>8. ToSet(u.files) = P /\ Placed(M \cup {m}, P, F)
  BY <1>1 DEF Holds, Placed
<1>9. QED
  BY <1>4, <1>5, <1>6, <1>7, <1>8 DEF Holds

(* add_named_source_file counts the file with its module.                  *)
FileCounter(path) == IF path.header THEN "headers" ELSE "sources"
FileCounted(u, t, path, k) ==
  /\ k \in DOMAIN t.modules /\ t.modules[k].name = ModuleOf(path)
  /\ IsTables(u) /\ u.files = Append(t.files, path)
  /\ u.modules = [t.modules EXCEPT ![k] = Up(t.modules[k], {FileCounter(path)})]
  /\ \A n \in TableNames \ {"files", "modules"} : u[n] = t[n]

LEMMA FileAppended ==
  ASSUME NEW t, NEW M, NEW P, NEW F, Holds(t, M, P, F),
         NEW path, ModuleOf(path) \in M, NEW k, NEW u, FileCounted(u, t, path, k)
  PROVE  Holds(u, M, P \cup {path}, F)
<1>0. PICK C : C = {FileCounter(path)}
  OBVIOUS
<1>15. /\ k \in DOMAIN t.modules /\ t.modules[k].name = ModuleOf(path)
      /\ IsTables(u) /\ u.files = Append(t.files, path)
      /\ u.modules = [t.modules EXCEPT ![k] = Up(t.modules[k], C)]
      /\ \A n \in TableNames \ {"files", "modules"} : u[n] = t[n]
  BY <1>0 DEF FileCounted
<1>1. /\ u.functions = t.functions
      /\ u.files = u["files"] /\ u.modules = u["modules"]
      /\ \A n \in FactTables : u[n] = t[n]
      /\ IsList(t.files) /\ IsList(t.modules)
  BY <1>15, TableFields DEF Holds, TableNames, FactTables
<1>2. IsList(u.files) /\ ToSet(u.files) = P \cup {path}
  <2>1. PICK s : s = t.files
    OBVIOUS
  <2>2. /\ IsList(Append(s, path)) /\ ToSet(Append(s, path)) = ToSet(s) \cup {path}
    BY <1>1, <2>1, ListExtended, Zenon
  <2>3. QED
    BY <1>15, <2>1, <2>2 DEF Holds
<1>3. PICK m : m = ModuleOf(path)
  OBVIOUS
<1>4. PICK x : x = Up(t.modules[k], C)
  OBVIOUS
<1>5. PICK o : o = t.modules[k]
  OBVIOUS
<1>6. /\ IsModule(x) /\ x.name = m /\ o.name = m
      /\ x.functions = o.functions /\ x.public = o.public
      /\ (x.sources > 0) <=> (o.sources > 0 \/ ~path.header)
      /\ (x.headers > 0) <=> (o.headers > 0 \/ path.header)
  <2>1. IsModule(o) /\ C \in SUBSET CounterNames
    BY <1>0, <1>5, <1>15 DEF Holds, Shaped, FileCounter, CounterNames
  <2>2. /\ IsModule(x) /\ x.name = o.name
        /\ \A c \in CounterNames :
             o[c] \in Nat /\ x[c] = IF c \in C THEN o[c] + 1 ELSE o[c]
    BY <1>4, <1>5, <2>1, UpIs
  <2>3. /\ x.functions = o.functions /\ x.public = o.public
        /\ o.sources \in Nat /\ o.headers \in Nat
    BY <1>0, <2>2 DEF FileCounter, CounterNames
  <2>4. CASE path.header
    <3>1. C = {"headers"}
      BY <1>0, <2>4 DEF FileCounter
    <3>2. x.sources = o.sources /\ x.headers = o.headers + 1
      BY <2>2, <3>1 DEF CounterNames
    <3>3. QED
      BY <1>3, <1>5, <1>15, <2>2, <2>3, <2>4, <3>2
  <2>5. CASE ~path.header
    <3>1. C = {"sources"}
      BY <1>0, <2>5 DEF FileCounter
    <3>2. x.sources = o.sources + 1 /\ x.headers = o.headers
      BY <2>2, <3>1 DEF CounterNames
    <3>3. QED
      BY <1>3, <1>5, <1>15, <2>2, <2>3, <2>5, <3>2
  <2>6. QED
    BY <2>4, <2>5
<1>7. PICK ms : ms = u.modules
  OBVIOUS
<1>8. /\ IsList(ms) /\ DOMAIN ms = DOMAIN t.modules
      /\ ms[k] = x
      /\ \A i \in DOMAIN t.modules \ {k} : ms[i] = t.modules[i]
  <2>1. /\ DOMAIN ms = DOMAIN t.modules /\ ms[k] = x
        /\ \A i \in DOMAIN t.modules \ {k} : ms[i] = t.modules[i]
    BY <1>4, <1>7, <1>15
  <2>2. IsList(ms)
    BY <1>1, <1>7, <1>15, ListChanged
  <2>3. QED
    BY <2>1, <2>2
<1>9. Shaped(u)
  <2>1. \A n \in TableNames : IsList(u[n])
    BY <1>1, <1>2, <1>7, <1>8, <1>15 DEF Holds, Shaped
  <2>2. \A i \in DOMAIN ms : IsModule(ms[i])
    BY <1>6, <1>8 DEF Holds, Shaped
  <2>3. QED
    BY <1>7, <1>15, <2>1, <2>2 DEF Shaped
<1>10. ModulesNamed(u.modules, M)
  <2>1. \A i \in DOMAIN t.modules : ms[i].name = t.modules[i].name
    BY <1>5, <1>6, <1>8
  <2>2. ModulesNamed(t.modules, M)
    BY DEF Holds
  <2>3. /\ \A i \in DOMAIN ms : ms[i].name \in M
        /\ \A y \in M : \E i \in DOMAIN ms : ms[i].name = y
        /\ \A i, j \in DOMAIN ms : ms[i].name = ms[j].name => i = j
    BY <1>8, <2>1, <2>2 DEF ModulesNamed
  <2>4. ModulesNamed(ms, M)
    BY <2>3 DEF ModulesNamed
  <2>5. QED
    BY <1>7, <2>4, Zenon
<1>11. ASSUME NEW i \in DOMAIN ms
       PROVE  Counted(u, ms[i])
  <2>1. Counted(t, t.modules[i])
    BY <1>8 DEF Holds
  <2>2. \A n : DefinitionsIn(u, n) = DefinitionsIn(t, n)
               /\ PublicsIn(u, n) = PublicsIn(t, n)
    BY <1>1 DEF DefinitionsIn, PublicsIn
  <2>3. CASE i = k
    <3>1. Counted(t, o)
      BY <1>5, <2>1, <2>3
    <3>2. ToSet(u.files) = ToSet(t.files) \cup {path}
      BY <1>2 DEF Holds
    <3>3. (x.sources > 0) <=> \E p \in ToSet(u.files) : ModuleOf(p) = m /\ ~p.header
      BY <1>3, <1>6, <3>1, <3>2 DEF Counted
    <3>4. (x.headers > 0) <=> \E p \in ToSet(u.files) : ModuleOf(p) = m /\ p.header
      BY <1>3, <1>6, <3>1, <3>2 DEF Counted
    <3>5. /\ x.functions = Cardinality(DefinitionsIn(u, m))
          /\ x.public = Cardinality(PublicsIn(u, m))
      BY <1>6, <2>2, <3>1 DEF Counted
    <3>6. Counted(u, x)
      BY <1>6, <3>3, <3>4, <3>5 DEF Counted
    <3>7. QED
      BY <1>8, <2>3, <3>6
  <2>4. CASE i # k
    <3>1. ms[i] = t.modules[i] /\ t.modules[i].name # m
      BY <1>3, <1>8, <1>15, <2>4 DEF Holds, ModulesNamed
    <3>2. \A p \in ToSet(u.files) :
            ModuleOf(p) = t.modules[i].name => p \in ToSet(t.files)
      BY <1>2, <1>3, <3>1 DEF Holds
    <3>3. ToSet(t.files) \subseteq ToSet(u.files)
      BY <1>2 DEF Holds
    <3>4. PICK y : y = t.modules[i]
      OBVIOUS
    <3>5. Counted(u, y)
      BY <2>1, <2>2, <3>2, <3>3, <3>4 DEF Counted
    <3>6. QED
      BY <3>1, <3>4, <3>5
  <2>5. QED
    BY <2>3, <2>4
<1>12. NoneInvented(u, F) /\ NoneLost(u, F) /\ SitesOnce(u)
  <2>1. NoneInvented(t, F) /\ NoneLost(t, F) /\ SitesOnce(t)
    BY DEF Holds
  <2>2. NoneInvented(u, F)
    BY <1>1, <2>1 DEF NoneInvented
  <2>3. NoneLost(u, F)
    BY <1>1, <2>1, LossesStay
  <2>4. SitesOnce(u)
    BY <1>1, <2>1 DEF SitesOnce
  <2>5. QED
    BY <2>2, <2>3, <2>4
<1>13. Placed(M, P \cup {path}, F)
  BY DEF Holds, Placed
<1>14. QED
  BY <1>2, <1>7, <1>9, <1>10, <1>11, <1>12, <1>13 DEF Holds

(* add_named_source_file records a path once, and its module before.       *)
LEMMA FileAdded ==
  ASSUME NEW t, NEW M, NEW P, NEW F, Holds(t, M, P, F), NEW path
  PROVE  Holds(WithFile(t, path), M \cup {ModuleOf(path)}, P \cup {path}, F)
<1>1. PICK m : m = ModuleOf(path)
  OBVIOUS
<1>2. CASE HasFile(t, path)
  <2>1. WithFile(t, path) = t
    BY <1>2 DEF WithFile
  <2>2. path \in P
    BY <1>2 DEF HasFile, Holds, ToSet
  <2>3. M \cup {m} = M /\ P \cup {path} = P
    BY <1>1, <2>2 DEF Holds, Placed
  <2>4. QED
    BY <1>1, <2>1, <2>3
<1>3. CASE ~HasFile(t, path)
  <2>1. PICK known : known = IF HasModule(t, m) THEN t
                             ELSE [t EXCEPT !.modules = Append(@, NewModule(m))]
    OBVIOUS
  <2>2. Holds(known, M \cup {m}, P, F)
    <3>1. HasModule(t, m) <=> m \in M
      BY ModuleFound DEF Holds
    <3>2. CASE m \in M
      <4>1. known = t /\ M \cup {m} = M
        BY <2>1, <3>1, <3>2
      <4>2. QED
        BY <4>1
    <3>3. CASE m \notin M
      <4>1. known = [t EXCEPT !.modules = Append(@, NewModule(m))]
        BY <2>1, <3>1, <3>3
      <4>2. IsTables(t)
        BY DEF Holds, Shaped
      <4>3. /\ IsTables(known)
            /\ known.modules = Append(t.modules, NewModule(m))
            /\ \A n \in TableNames \ {"modules"} : known[n] = t[n]
        BY <4>1, <4>2 DEF IsTables, TableNames
      <4>4. QED
        BY <3>3, <4>3, ModuleAdded
    <3>4. QED
      BY <3>2, <3>3
  <2>3. PICK c : c = IF path.header THEN "headers" ELSE "sources"
    OBVIOUS
  <2>4. PICK longer : longer = [known EXCEPT !.files = Append(@, path)]
    OBVIOUS
  <2>5. WithFile(t, path) = Count(longer, m, c)
    BY <1>1, <1>3, <2>1, <2>3, <2>4 DEF WithFile
  <2>6. PICK k : k = ModuleAt(known, m)
    OBVIOUS
  <2>7. k \in DOMAIN known.modules /\ known.modules[k].name = m
    BY <2>2, <2>6, ModuleFound DEF Holds
  <2>8. /\ IsTables(longer) /\ longer.files = Append(known.files, path)
        /\ longer.modules = known.modules
        /\ \A n \in TableNames \ {"files"} : longer[n] = known[n]
    <3>1. IsTables(known)
      BY <2>2 DEF Holds, Shaped
    <3>2. QED
      BY <2>4, <3>1 DEF IsTables, TableNames
  <2>9. ModuleAt(longer, m) = k
    BY <2>6, <2>8 DEF ModuleAt
  <2>10. PICK u : u = WithFile(t, path)
    OBVIOUS
  <2>11. u = [longer EXCEPT !.modules[k][c] = @ + 1]
    BY <2>5, <2>9, <2>10 DEF Count
  <2>12. PICK ms, x : /\ ms = [longer.modules EXCEPT ![k][c] = @ + 1]
                      /\ x = [known.modules[k] EXCEPT ![c] = @ + 1]
    OBVIOUS
  <2>13. x = Up(known.modules[k], {c})
    BY <2>12 DEF Up
  <2>14. /\ IsTables(u)
         /\ u.modules = [known.modules EXCEPT ![k] = x]
         /\ u.files = Append(known.files, path)
         /\ \A n \in TableNames \ {"files", "modules"} : u[n] = known[n]
    <3>1. u = [longer EXCEPT !.modules = ms]
      BY <2>11, <2>12
    <3>2. /\ IsTables(u) /\ u.modules = ms
          /\ \A n \in TableNames \ {"modules"} : u[n] = longer[n]
      BY <2>8, <3>1 DEF IsTables, TableNames
    <3>3. ms = [known.modules EXCEPT ![k] = x]
      BY <2>8, <2>12
    <3>4. u.files = longer.files
      BY <3>2 DEF TableNames
    <3>5. QED
      BY <2>8, <3>2, <3>3, <3>4
  <2>15. Holds(u, M \cup {m}, P \cup {path}, F)
    <3>1. u.modules = [known.modules EXCEPT ![k] =
                         Up(known.modules[k], {FileCounter(path)})]
      BY <2>3, <2>13, <2>14 DEF FileCounter
    <3>2. FileCounted(u, known, path, k)
      BY <1>1, <2>7, <2>14, <3>1 DEF FileCounted
    <3>3. ModuleOf(path) \in M \cup {m}
      BY <1>1
    <3>4. QED
      BY <2>2, <3>2, <3>3, FileAppended
  <2>16. QED
    BY <1>1, <2>10, <2>15
<1>4. QED
  BY <1>2, <1>3

LEMMA KeptGrown ==
  ASSUME NEW F, NEW f, NEW n
  PROVE  /\ Recorded(f) /\ TableOf(f) = n => Kept(F \cup {f}, n) = Kept(F, n) \cup {f}
         /\ ~(Recorded(f) /\ TableOf(f) = n) => Kept(F \cup {f}, n) = Kept(F, n)
BY DEF Kept

LEMMA CountersAre ==
  ASSUME NEW f, Recorded(f)
  PROVE  /\ Counters(f) \in SUBSET CounterNames
         /\ "sources" \notin Counters(f) /\ "headers" \notin Counters(f)
         /\ "functions" \in Counters(f) <=> f.kind = "FUNCTION" /\ f.definition
         /\ "public" \in Counters(f) <=>
              f.kind = "FUNCTION" /\ f.definition /\ ~f.static
<1>1. CASE f.kind = "FUNCTION" /\ f.definition
  <2>1. Counters(f) = {"functions", IF f.static THEN "static" ELSE "public"}
    BY <1>1 DEF Counters
  <2>2. QED
    BY <1>1, <2>1 DEF CounterNames
<1>2. CASE f.kind = "FUNCTION" /\ ~f.definition
  <2>1. Counters(f) = {"declarations"}
    BY <1>2 DEF Counters
  <2>2. QED
    BY <1>2, <2>1 DEF CounterNames
<1>3. CASE f.kind # "FUNCTION"
  <2>1. Counters(f) \subseteq {"local", "external", "macros", "types"}
    BY <1>3 DEF Counters
  <2>2. QED
    BY <1>3, <2>1 DEF CounterNames
<1>4. QED
  BY <1>1, <1>2, <1>3

(* A fact that is new goes to the end of its table, and is counted.        *)
FactStored(u, t, f, i) ==
  /\ i \in DOMAIN t.modules /\ t.modules[i].name = ModuleOf(f.path)
  /\ IsTables(u) /\ u[TableOf(f)] = Append(t[TableOf(f)], f)
  /\ u.modules = [t.modules EXCEPT ![i] = Up(t.modules[i], Counters(f))]
  /\ \A n \in TableNames \ {TableOf(f), "modules"} : u[n] = t[n]

LEMMA FunctionsCounted ==
  ASSUME NEW t, NEW u, NEW f, NEW m, IsList(t.functions),
         u.functions = Append(t.functions, f)
  PROVE  LET k == Len(t.functions) + 1
             more == IF f.definition /\ ModuleOf(f.path) = m THEN {k} ELSE {}
         IN  /\ k \notin DefinitionsIn(t, m) /\ k \notin PublicsIn(t, m)
             /\ DefinitionsIn(u, m) = DefinitionsIn(t, m) \cup more
             /\ PublicsIn(u, m) =
                  PublicsIn(t, m) \cup (IF f.static THEN {} ELSE more)
             /\ IsFiniteSet(DefinitionsIn(t, m)) /\ IsFiniteSet(PublicsIn(t, m))
<1>1. PICK s, r, k : s = t.functions /\ r = u.functions /\ k = Len(t.functions) + 1
  OBVIOUS
<1>2. /\ DOMAIN r = DOMAIN s \cup {k} /\ k \notin DOMAIN s /\ r[k] = f
      /\ \A j \in DOMAIN s : r[j] = s[j]
  <2>1. /\ DOMAIN Append(s, f) = DOMAIN s \cup {k} /\ k \notin DOMAIN s
        /\ Append(s, f)[k] = f /\ \A j \in DOMAIN s : Append(s, f)[j] = s[j]
    BY <1>1, ListExtended
  <2>2. QED
    BY <1>1, <2>1
<1>3. IsFiniteSet(DOMAIN s)
  BY <1>1, ListLength, FS_Interval
<1>4. /\ DefinitionsIn(t, m) = {j \in DOMAIN s : s[j].definition /\ ModuleOf(s[j].path) = m}
      /\ DefinitionsIn(u, m) = {j \in DOMAIN r : r[j].definition /\ ModuleOf(r[j].path) = m}
      /\ PublicsIn(t, m) = {j \in DefinitionsIn(t, m) : ~s[j].static}
      /\ PublicsIn(u, m) = {j \in DefinitionsIn(u, m) : ~r[j].static}
  BY <1>1 DEF DefinitionsIn, PublicsIn
<1>5. PICK more : more = IF f.definition /\ ModuleOf(f.path) = m THEN {k} ELSE {}
  OBVIOUS
<1>6. DefinitionsIn(u, m) = DefinitionsIn(t, m) \cup more
  BY <1>2, <1>4, <1>5
<1>7. PublicsIn(u, m) = PublicsIn(t, m) \cup (IF f.static THEN {} ELSE more)
  BY <1>2, <1>4, <1>5, <1>6
<1>8. IsFiniteSet(DefinitionsIn(t, m)) /\ IsFiniteSet(PublicsIn(t, m))
  BY <1>3, <1>4, FS_Subset
<1>9. k \notin DefinitionsIn(t, m) /\ k \notin PublicsIn(t, m)
  BY <1>2, <1>4
<1>10. QED
  BY <1>1, <1>5, <1>6, <1>7, <1>8, <1>9

LEMMA FactCounted ==
  ASSUME NEW t, NEW M, NEW P, NEW F, Holds(t, M, P, F), NEW f, Recorded(f),
         NEW i, NEW u, FactStored(u, t, f, i), NEW j \in DOMAIN t.modules
  PROVE  j \in DOMAIN u.modules /\ IsModule(u.modules[j])
         /\ u.modules[j].name = t.modules[j].name /\ Counted(u, u.modules[j])
<1>1. PICK o, x : o = t.modules[j] /\ x = u.modules[j]
  OBVIOUS
<1>2. PICK C : C = IF j = i THEN Counters(f) ELSE {}
  OBVIOUS
<1>3. /\ C \in SUBSET CounterNames /\ "sources" \notin C /\ "headers" \notin C
      /\ "functions" \in C <=> j = i /\ f.kind = "FUNCTION" /\ f.definition
      /\ "public" \in C <=>
           j = i /\ f.kind = "FUNCTION" /\ f.definition /\ ~f.static
  BY <1>2, CountersAre
<1>4. IsModule(o) /\ Counted(t, o)
  BY <1>1 DEF Holds, Shaped
<1>5. /\ j \in DOMAIN u.modules
      /\ x = IF j = i THEN Up(o, Counters(f)) ELSE o
  BY <1>1 DEF FactStored
<1>6. /\ IsModule(x) /\ x.name = o.name
      /\ \A c \in CounterNames :
           o[c] \in Nat /\ x[c] = IF c \in C THEN o[c] + 1 ELSE o[c]
  <2>1. CASE j = i
    <3>1. x = Up(o, C)
      BY <1>2, <1>5, <2>1
    <3>2. QED
      BY <1>3, <1>4, <3>1, UpIs
  <2>2. CASE j # i
    <3>1. C = {} /\ x = o
      BY <1>2, <1>5, <2>2
    <3>2. QED
      BY <1>4, <3>1 DEF IsModule
  <2>3. QED
    BY <2>1, <2>2
<1>7. /\ x.sources = o.sources /\ x.headers = o.headers
      /\ o.functions \in Nat /\ o.public \in Nat
      /\ x.functions = IF "functions" \in C THEN o.functions + 1 ELSE o.functions
      /\ x.public = IF "public" \in C THEN o.public + 1 ELSE o.public
  BY <1>3, <1>6 DEF CounterNames
<1>8. u.files = t.files
  <2>1. TableOf(f) # "files"
    BY TableIs DEF FactTables
  <2>2. u["files"] = t["files"]
    BY <2>1 DEF FactStored, TableNames
  <2>3. QED
    BY <2>2
<1>9. (j = i) <=> (o.name = ModuleOf(f.path))
  BY <1>1 DEF FactStored, Holds, ModulesNamed
<1>10. PICK m : m = o.name
  OBVIOUS
<1>11. /\ x.functions = Cardinality(DefinitionsIn(u, m))
       /\ x.public = Cardinality(PublicsIn(u, m))
  <2>1. /\ o.functions = Cardinality(DefinitionsIn(t, m))
        /\ o.public = Cardinality(PublicsIn(t, m))
    BY <1>4, <1>10 DEF Counted
  <2>2. CASE f.kind = "FUNCTION"
    <3>1. TableOf(f) = "functions"
      BY <2>2, TableIs
    <3>2. u.functions = Append(t.functions, f) /\ IsList(t.functions)
      BY <3>1, TableFields DEF FactStored, Holds
    <3>3. PICK k, more :
             /\ k = Len(t.functions) + 1
             /\ more = IF f.definition /\ ModuleOf(f.path) = m THEN {k} ELSE {}
      OBVIOUS
    <3>4. PICK D, E, d, e : /\ D = DefinitionsIn(t, m) /\ E = PublicsIn(t, m)
                            /\ d = DefinitionsIn(u, m) /\ e = PublicsIn(u, m)
      OBVIOUS
    <3>5. /\ k \notin D /\ k \notin E /\ IsFiniteSet(D) /\ IsFiniteSet(E)
          /\ d = D \cup more /\ e = E \cup (IF f.static THEN {} ELSE more)
      BY <3>2, <3>3, <3>4, FunctionsCounted
    <3>6. /\ Cardinality(D \cup {k}) = Cardinality(D) + 1
          /\ Cardinality(E \cup {k}) = Cardinality(E) + 1
      BY <3>5, FS_AddElement
    <3>7. /\ "functions" \in C => d = D \cup {k}
          /\ "functions" \notin C => d = D
          /\ "public" \in C => e = E \cup {k}
          /\ "public" \notin C => e = E
      <4>1. PICK c : c <=> f.definition /\ ModuleOf(f.path) = m
        OBVIOUS
      <4>2. (c => more = {k}) /\ (~c => more = {})
        BY <3>3, <4>1
      <4>3. ("functions" \in C <=> c) /\ ("public" \in C <=> c /\ ~f.static)
        BY <1>3, <1>9, <1>10, <2>2, <4>1
      <4>4. QED
        BY <3>5, <4>2, <4>3
    <3>8. x.functions = Cardinality(d) /\ x.public = Cardinality(e)
      BY <1>7, <2>1, <3>4, <3>6, <3>7
    <3>9. QED
      BY <3>4, <3>8
  <2>3. CASE f.kind # "FUNCTION"
    <3>1. TableOf(f) # "functions"
      BY <2>3, TableIs
    <3>2. u["functions"] = t["functions"]
      BY <3>1 DEF FactStored, TableNames
    <3>3. DefinitionsIn(u, m) = DefinitionsIn(t, m) /\ PublicsIn(u, m) = PublicsIn(t, m)
      BY <3>2 DEF DefinitionsIn, PublicsIn
    <3>4. QED
      BY <1>3, <1>7, <2>1, <2>3, <3>3
  <2>4. QED
    BY <2>2, <2>3
<1>12. Counted(u, x)
  BY <1>4, <1>6, <1>7, <1>8, <1>10, <1>11 DEF Counted
<1>13. QED
  BY <1>1, <1>5, <1>6, <1>12

LEMMA FactAppended ==
  ASSUME NEW t, NEW M, NEW P, NEW F, Holds(t, M, P, F), NEW f, Recorded(f),
         ~Repeated(t, f), f.path \in P, NEW i, NEW u, FactStored(u, t, f, i)
  PROVE  Holds(u, M, P, F \cup {f})
<1>1. PICK n : n = TableOf(f)
  OBVIOUS
<1>2. /\ n \in FactTables /\ IsList(t[n])
      /\ n = "functions" <=> f.kind = "FUNCTION"
      /\ n \in {"includes", "calls"} <=> f.kind \in {"INCLUDE", "CALL"}
  BY <1>1, TableIs, TableFields DEF Holds
<1>3. /\ i \in DOMAIN t.modules /\ IsTables(u)
      /\ DOMAIN u.modules = DOMAIN t.modules
      /\ u[n] = Append(t[n], f)
      /\ \A x \in TableNames \ {n, "modules"} : u[x] = t[x]
  BY <1>1 DEF FactStored
<1>4. IsList(u[n]) /\ ToSet(u[n]) = ToSet(t[n]) \cup {f}
  <2>1. PICK s : s = t[n]
    OBVIOUS
  <2>2. IsList(Append(s, f)) /\ ToSet(Append(s, f)) = ToSet(s) \cup {f}
    BY <1>2, <2>1, ListExtended
  <2>3. QED
    BY <1>3, <2>1, <2>2
<1>5. \A j \in DOMAIN t.modules :
        /\ j \in DOMAIN u.modules /\ IsModule(u.modules[j])
        /\ u.modules[j].name = t.modules[j].name /\ Counted(u, u.modules[j])
  BY FactCounted
<1>6. Shaped(u)
  <2>1. IsList(u["modules"])
    BY TableFields, ListChanged DEF FactStored, Holds
  <2>2. \A x \in TableNames : IsList(u[x])
    BY <1>3, <1>4, <2>1 DEF Holds, Shaped
  <2>3. QED
    BY <1>3, <1>5, <2>2 DEF Shaped
<1>7. ModulesNamed(u.modules, M)
  <2>1. PICK ms, ns : ms = t.modules /\ ns = u.modules
    OBVIOUS
  <2>2. DOMAIN ns = DOMAIN ms /\ \A j \in DOMAIN ms : ns[j].name = ms[j].name
    BY <1>3, <1>5, <2>1
  <2>3. ModulesNamed(ms, M)
    BY <2>1 DEF Holds
  <2>4. ModulesNamed(ns, M)
    BY <2>2, <2>3 DEF ModulesNamed
  <2>5. QED
    BY <2>1, <2>4
<1>8. ToSet(u.files) = P
  <2>1. u["files"] = t["files"]
    BY <1>2, <1>3 DEF TableNames, FactTables
  <2>2. QED
    BY <2>1 DEF Holds
<1>9. \A x \in FactTables : /\ x = n => /\ ToSet(u[x]) = ToSet(t[x]) \cup {f}
                                        /\ Kept(F \cup {f}, x) = Kept(F, x) \cup {f}
                            /\ x # n => /\ u[x] = t[x]
                                        /\ Kept(F \cup {f}, x) = Kept(F, x)
  <2>1. Kept(F \cup {f}, n) = Kept(F, n) \cup {f}
    BY <1>1, KeptGrown
  <2>2. ASSUME NEW x \in FactTables, x # n
        PROVE  u[x] = t[x] /\ Kept(F \cup {f}, x) = Kept(F, x)
    <3>1. x \in TableNames \ {n, "modules"}
      BY <2>2 DEF FactTables, TableNames
    <3>2. Kept(F \cup {f}, x) = Kept(F, x)
      BY <1>1, <2>2, KeptGrown
    <3>3. QED
      BY <1>3, <3>1, <3>2
  <2>3. QED
    BY <1>4, <2>1, <2>2
<1>10. NoneInvented(u, F \cup {f})
  <2>1. NoneInvented(t, F)
    BY DEF Holds
  <2>2. QED
    BY <1>9, <2>1 DEF NoneInvented
<1>11. NoneLost(u, F \cup {f})
  <2>1. NoneLost(t, F)
    BY DEF Holds
  <2>2. \A x \in FactTables :
          /\ KeptWhole(t, F, x) => KeptWhole(u, F \cup {f}, x)
          /\ SitesKept(t, F, x) => SitesKept(u, F \cup {f}, x)
    BY <1>9 DEF KeptWhole, SitesKept
  <2>3. ~Full(u, "notes") => ~Full(t, "notes")
    <3>1. Limit["notes"] \in Nat /\ IsList(t["notes"])
      BY LimitAssumption, TableFields DEF TableNames, FactTables, Holds
    <3>2. CASE n = "notes"
      <4>1. Len(u["notes"]) = Len(t["notes"]) + 1
        BY <1>3, <3>1, <3>2 DEF IsList
      <4>2. QED
        BY <3>1, <4>1, ListLength DEF Full
    <3>3. CASE n # "notes"
      BY <1>9, <3>3 DEF Full, FactTables
    <3>4. QED
      BY <3>2, <3>3
  <2>4. QED
    BY <2>1, <2>2, <2>3 DEF NoneLost, FactTables
<1>12. SitesOnce(u)
  <2>1. SitesOnce(t)
    BY DEF Holds
  <2>2. CASE n = "functions"
    <3>1. PICK s, r, k : s = t.functions /\ r = u.functions /\ k = Len(s) + 1
      OBVIOUS
    <3>2. /\ DOMAIN r = DOMAIN s \cup {k} /\ r[k] = f
          /\ \A j \in DOMAIN s : r[j] = s[j]
      <4>1. /\ DOMAIN Append(s, f) = DOMAIN s \cup {k} /\ Append(s, f)[k] = f
            /\ \A j \in DOMAIN s : Append(s, f)[j] = s[j]
        BY <1>2, <2>2, <3>1, ListExtended
      <4>2. QED
        BY <1>3, <2>2, <3>1, <4>1
    <3>3. \A j \in DOMAIN s : Site(s[j]) # Site(f)
      <4>1. f.kind \notin {"INCLUDE", "CALL"} /\ t[TableOf(f)] = s
        BY <1>1, <1>2, <2>2, <3>1
      <4>2. \A j \in DOMAIN s : ~SameSite(s[j], f)
        BY <4>1 DEF Repeated
      <4>3. QED
        BY <4>2, SameSiteMeans
    <3>4. \A a, b \in DOMAIN s : Site(s[a]) = Site(s[b]) => a = b
      BY <2>1, <3>1 DEF SitesOnce
    <3>5. \A a, b \in DOMAIN r : Site(r[a]) = Site(r[b]) => a = b
      BY <3>2, <3>3, <3>4
    <3>6. QED
      BY <3>1, <3>5 DEF SitesOnce
  <2>3. CASE n # "functions"
    <3>1. u["functions"] = t["functions"]
      BY <1>9, <2>3 DEF FactTables
    <3>2. QED
      BY <2>1, <3>1 DEF SitesOnce
  <2>4. QED
    BY <2>2, <2>3
<1>13. Placed(M, P, F \cup {f})
  BY DEF Holds, Placed
<1>14. \A j \in DOMAIN u.modules : Counted(u, u.modules[j])
  BY <1>3, <1>5
<1>15. QED
  BY <1>6, <1>7, <1>8, <1>10, <1>11, <1>12, <1>13, <1>14 DEF Holds

(* The whole of add_include, add_function and the others.                  *)
LEMMA FactAdded ==
  ASSUME NEW t, NEW M, NEW P, NEW F, Holds(t, M, P, F), NEW f, f.path \in P,
         Recorded(f) /\ f.kind # "NOTE" => ~Full(t, TableOf(f))
  PROVE  Holds(Store(t, f), M, P, F \cup {f})
<1>1. CASE ~Recorded(f)
  <2>1. Store(t, f) = t
    BY <1>1 DEF Store
  <2>2. \A n : Kept(F \cup {f}, n) = Kept(F, n)
    BY <1>1, KeptGrown
  <2>3. NoneInvented(t, F \cup {f})
    BY <2>2 DEF Holds, NoneInvented
  <2>4. NoneLost(t, F \cup {f})
    BY <2>2 DEF Holds, NoneLost, KeptWhole, SitesKept
  <2>5. QED
    BY <2>1, <2>3, <2>4 DEF Holds, Placed
<1>2. CASE Recorded(f) /\ Full(t, TableOf(f))
  <2>1. Store(t, f) = t
    BY <1>2 DEF Store
  <2>2. TableOf(f) = "notes"
    BY <1>2, TableIs
  <2>3. /\ \A n : n # "notes" => Kept(F \cup {f}, n) = Kept(F, n)
        /\ Kept(F \cup {f}, "notes") = Kept(F, "notes") \cup {f}
    BY <1>2, <2>2, KeptGrown
  <2>4. NoneInvented(t, F \cup {f})
    BY <2>3 DEF Holds, NoneInvented
  <2>5. NoneLost(t, F \cup {f})
    BY <1>2, <2>2, <2>3 DEF Holds, NoneLost, KeptWhole, SitesKept
  <2>6. QED
    BY <2>1, <2>4, <2>5 DEF Holds, Placed
<1>3. CASE Recorded(f) /\ Repeated(t, f)
  <2>1. Store(t, f) = t
    BY <1>3 DEF Store
  <2>2. PICK n : n = TableOf(f)
    OBVIOUS
  <2>3. /\ n \in FactTables \ {"includes", "calls"}
        /\ \E g \in ToSet(t[n]) : Site(g) = Site(f)
    BY <1>3, <2>2, TableIs, SameSiteMeans DEF Repeated, ToSet
  <2>4. /\ \A x : x # n => Kept(F \cup {f}, x) = Kept(F, x)
        /\ Kept(F \cup {f}, n) = Kept(F, n) \cup {f}
    BY <1>3, <2>2, KeptGrown
  <2>5. NoneInvented(t, F \cup {f})
    BY <2>4 DEF Holds, NoneInvented
  <2>6. NoneLost(t, F \cup {f})
    <3>1. \A x : /\ SitesKept(t, F, x) => SitesKept(t, F \cup {f}, x)
                 /\ x # n /\ KeptWhole(t, F, x) => KeptWhole(t, F \cup {f}, x)
      BY <2>3, <2>4 DEF SitesKept, KeptWhole
    <3>2. NoneLost(t, F)
      BY DEF Holds
    <3>3. QED
      BY <2>3, <3>1, <3>2 DEF NoneLost
  <2>7. QED
    BY <2>1, <2>5, <2>6 DEF Holds, Placed
<1>4. CASE Recorded(f) /\ ~Repeated(t, f) /\ ~Full(t, TableOf(f))
  <2>1. PICK i : i = ModuleAt(t, ModuleOf(f.path))
    OBVIOUS
  <2>2. i \in DOMAIN t.modules /\ t.modules[i].name = ModuleOf(f.path)
    BY <2>1, ModuleFound DEF Holds, Placed
  <2>3. PICK n, list, ms : /\ n = TableOf(f) /\ list = Append(t[TableOf(f)], f)
                           /\ ms = [t.modules EXCEPT ![i] = Up(@, Counters(f))]
    OBVIOUS
  <2>4. PICK u : u = Store(t, f)
    OBVIOUS
  <2>5. /\ n \in FactTables /\ n # "modules" /\ IsTables(t)
    BY <1>4, <2>3, TableIs DEF FactTables, Holds, Shaped
  <2>6. PICK w : w = [t EXCEPT ![n] = list]
    OBVIOUS
  <2>7. IsTables(w) /\ w[n] = list /\ \A x \in TableNames \ {n} : w[x] = t[x]
    BY <2>5, <2>6 DEF IsTables, TableNames, FactTables
  <2>8. /\ IsTables(u) /\ u[n] = list /\ u.modules = ms
        /\ \A x \in TableNames \ {n, "modules"} : u[x] = t[x]
    <3>1. u = [w EXCEPT !.modules[i] = [c \in DOMAIN @ |->
                          IF c \in Counters(f) THEN @[c] + 1 ELSE @[c]]]
      BY <1>4, <2>1, <2>3, <2>4, <2>6 DEF Store
    <3>2. w["modules"] = t["modules"]
      BY <2>5, <2>7 DEF TableNames
    <3>3. u = [w EXCEPT !.modules = ms]
      BY <2>3, <3>1, <3>2 DEF Up
    <3>4. /\ IsTables(u) /\ u.modules = ms
          /\ \A x \in TableNames \ {"modules"} : u[x] = w[x]
      BY <2>7, <3>3 DEF IsTables, TableNames
    <3>5. QED
      BY <2>5, <2>7, <3>4 DEF TableNames, FactTables
  <2>9. FactStored(u, t, f, i)
    BY <2>2, <2>3, <2>8 DEF FactStored
  <2>10. Holds(u, M, P, F \cup {f})
    BY <1>4, <2>9, FactAppended
  <2>11. QED
    BY <2>4, <2>10
<1>5. QED
  BY <1>1, <1>2, <1>3, <1>4

-----------------------------------------------------------------------------
(* The tables of the property hold the facts of the stream, too.           *)

Modules == {ModuleOf(p) : p \in Paths}

LEMMA KeptIs == \A n : OfTable(n) = Kept(Facts, n)
BY DEF OfTable, Kept

LEMMA ListsFinite ==
  ASSUME IsFiniteSet(Facts)
  PROVE  /\ IsFiniteSet(Paths) /\ \A n : IsFiniteSet(OfTable(n))
         /\ \A m : /\ IsFiniteSet(SourcesAt(m)) /\ IsFiniteSet(HeadersAt(m))
                   /\ IsFiniteSet(DefinedAt(m)) /\ IsFiniteSet(PublicAt(m))
         /\ IsFiniteSet({IdealModule(ModuleOf(p)) : p \in Paths})
<1>1. IsFiniteSet(Paths)
  <2>1. PICK g : g = [f \in Facts |-> f.path]
    OBVIOUS
  <2>2. g \in Surjection(Facts, Paths)
    BY <2>1 DEF Surjection, Paths
  <2>3. QED
    BY <2>2, FS_Surjection
<1>2. \A n : IsFiniteSet(OfTable(n))
  BY FS_Subset DEF OfTable
<1>3. \A m : IsFiniteSet(SourcesAt(m)) /\ IsFiniteSet(HeadersAt(m))
  BY <1>1, FS_Subset DEF SourcesAt, HeadersAt
<1>4. \A m : IsFiniteSet(DefinedAt(m)) /\ IsFiniteSet(PublicAt(m))
  BY <1>2, FS_Subset DEF DefinedAt, PublicAt
<1>5. IsFiniteSet({IdealModule(ModuleOf(p)) : p \in Paths})
  <2>1. PICK g : g = [p \in Paths |-> IdealModule(ModuleOf(p))]
    OBVIOUS
  <2>2. g \in Surjection(Paths, {IdealModule(ModuleOf(p)) : p \in Paths})
    BY <2>1 DEF Surjection
  <2>3. QED
    BY <1>1, <2>2, FS_Surjection
<1>6. QED
  BY <1>1, <1>2, <1>3, <1>4, <1>5

LEMMA IdealModuleIs ==
  ASSUME IsFiniteSet(Facts), NEW m
  PROVE  /\ IsModule(IdealModule(m)) /\ IdealModule(m).name = m
         /\ IdealModule(m).functions = Cardinality(DefinedAt(m))
         /\ IdealModule(m).public = Cardinality(PublicAt(m))
         /\ IdealModule(m).sources = Cardinality(SourcesAt(m))
         /\ IdealModule(m).headers = Cardinality(HeadersAt(m))
<1>1. PICK a, b, c, d : /\ a = Cardinality(SourcesAt(m))
                        /\ b = Cardinality(HeadersAt(m))
                        /\ c = Cardinality(DefinedAt(m))
                        /\ d = Cardinality(PublicAt(m))
  OBVIOUS
<1>2. a \in Nat /\ b \in Nat /\ c \in Nat /\ d \in Nat
  BY <1>1, ListsFinite, FS_CardinalityType
<1>3. IdealModule(m) = [NewModule(m) EXCEPT !.sources = a, !.headers = b,
                                            !.functions = c, !.public = d]
  BY <1>1 DEF IdealModule
<1>4. IdealModule(m) =
        [name |-> m, sources |-> a, headers |-> b, functions |-> c, public |-> d,
         static |-> 0, declarations |-> 0, macros |-> 0, types |-> 0,
         local |-> 0, external |-> 0]
  BY <1>3 DEF NewModule
<1>5. IsModule(IdealModule(m))
  BY <1>2, <1>4 DEF IsModule, CounterNames
<1>6. QED
  BY <1>1, <1>4, <1>5

LEMMA SomeCounted ==
  ASSUME NEW S, IsFiniteSet(S)
  PROVE  Cardinality(S) > 0 <=> S # {}
BY FS_EmptySet, FS_CardinalityType

LEMMA IdealLists ==
  /\ IsTables(IdealTables)
  /\ IdealTables.files = SetToSeq(Paths)
  /\ IdealTables.modules = SetToSeq({IdealModule(ModuleOf(p)) : p \in Paths})
  /\ \A n \in FactTables : IdealTables[n] = SetToSeq(OfTable(n))
<1>1. IsTables(IdealTables)
  BY DEF IdealTables, IsTables
<1>2. IdealTables["files"] = SetToSeq(Paths)
  BY DEF IdealTables, TableNames
<1>3. IdealTables["modules"] = SetToSeq({IdealModule(ModuleOf(p)) : p \in Paths})
  BY DEF IdealTables, TableNames
<1>4. ASSUME NEW n \in FactTables
      PROVE  IdealTables[n] = SetToSeq(OfTable(n))
  BY DEF IdealTables, TableNames, FactTables
<1>5. QED
  BY <1>1, <1>2, <1>3, <1>4

LEMMA IdealHolds ==
  ASSUME IsFiniteSet(Facts), SitesAgree
  PROVE  /\ Holds(IdealTables, Modules, Paths, Facts)
         /\ SitesKept(IdealTables, Facts, "notes")
<1>1. PICK t : t = IdealTables
  OBVIOUS
<1>2. PICK S : S = {IdealModule(ModuleOf(p)) : p \in Paths}
  OBVIOUS
<1>3. /\ IsTables(t) /\ t.files = SetToSeq(Paths) /\ t.modules = SetToSeq(S)
      /\ \A n \in FactTables : t[n] = SetToSeq(OfTable(n))
  BY <1>1, <1>2, IdealLists
<1>4. IsList(t.files) /\ ToSet(t.files) = Paths
  BY <1>3, ListsFinite, Listed
<1>5. /\ IsList(t.modules) /\ ToSet(t.modules) = S
      /\ \A i, j \in DOMAIN t.modules : t.modules[i] = t.modules[j] => i = j
  BY <1>2, <1>3, ListsFinite, Listed
<1>6. ASSUME NEW n \in FactTables
      PROVE  /\ IsList(t[n]) /\ ToSet(t[n]) = Kept(Facts, n)
             /\ \A i, j \in DOMAIN t[n] : t[n][i] = t[n][j] => i = j
  BY <1>3, ListsFinite, Listed, KeptIs
<1>7. ASSUME NEW i \in DOMAIN t.modules
      PROVE  \E p \in Paths : t.modules[i] = IdealModule(ModuleOf(p))
  BY <1>2, <1>5, ListLength
<1>8. Shaped(t)
  <2>1. \A n \in TableNames : IsList(t[n])
    BY <1>4, <1>5, <1>6 DEF TableNames, FactTables
  <2>2. \A i \in DOMAIN t.modules : IsModule(t.modules[i])
    BY <1>7, IdealModuleIs
  <2>3. QED
    BY <1>3, <2>1, <2>2 DEF Shaped
<1>9. ModulesNamed(t.modules, Modules)
  <2>1. ASSUME NEW i \in DOMAIN t.modules
        PROVE  /\ t.modules[i].name \in Modules
               /\ t.modules[i] = IdealModule(t.modules[i].name)
    BY <1>7, IdealModuleIs DEF Modules
  <2>2. ASSUME NEW m \in Modules
        PROVE  \E i \in DOMAIN t.modules : t.modules[i].name = m
    <3>1. IdealModule(m) \in S
      BY <1>2 DEF Modules
    <3>2. PICK i \in DOMAIN t.modules : t.modules[i] = IdealModule(m)
      BY <1>5, <3>1, ListLength
    <3>3. QED
      BY <3>2, IdealModuleIs
  <2>3. QED
    BY <1>5, <2>1, <2>2 DEF ModulesNamed
<1>10. ASSUME NEW i \in DOMAIN t.modules
       PROVE  Counted(t, t.modules[i])
  <2>1. PICK m : t.modules[i] = IdealModule(m)
    BY <1>7
  <2>2. PICK x : x = IdealModule(m)
    OBVIOUS
  <2>3. /\ x.name = m
        /\ x.functions = Cardinality(DefinedAt(m))
        /\ x.public = Cardinality(PublicAt(m))
        /\ x.sources = Cardinality(SourcesAt(m))
        /\ x.headers = Cardinality(HeadersAt(m))
    BY <2>2, IdealModuleIs
  <2>4. PICK s : s = t.functions
    OBVIOUS
  <2>5. /\ IsList(s) /\ ToSet(s) = OfTable("functions")
        /\ \A a, b \in DOMAIN s : s[a] = s[b] => a = b
    BY <1>6, <2>4, KeptIs DEF FactTables
  <2>6. DefinedAt(m) \subseteq ToSet(s) /\ PublicAt(m) \subseteq ToSet(s)
    BY <2>5 DEF DefinedAt, PublicAt
  <2>7. /\ DefinitionsIn(t, m) = {k \in DOMAIN s : s[k] \in DefinedAt(m)}
        /\ PublicsIn(t, m) = {k \in DOMAIN s : s[k] \in PublicAt(m)}
    <3>1. \A k \in DOMAIN s : s[k] \in OfTable("functions")
      BY <2>5, ListLength
    <3>2. QED
      BY <2>4, <3>1 DEF DefinitionsIn, PublicsIn, DefinedAt, PublicAt
  <2>8. /\ Cardinality(DefinitionsIn(t, m)) = Cardinality(DefinedAt(m))
        /\ Cardinality(PublicsIn(t, m)) = Cardinality(PublicAt(m))
    BY <2>5, <2>6, <2>7, Occurrences
  <2>9. /\ x.sources > 0 <=> \E p \in Paths : ModuleOf(p) = m /\ ~p.header
        /\ x.headers > 0 <=> \E p \in Paths : ModuleOf(p) = m /\ p.header
    <3>1. /\ x.sources > 0 <=> SourcesAt(m) # {}
          /\ x.headers > 0 <=> HeadersAt(m) # {}
      BY <2>3, SomeCounted, ListsFinite
    <3>2. QED
      BY <3>1 DEF SourcesAt, HeadersAt
  <2>10. Counted(t, x)
    BY <1>4, <2>3, <2>8, <2>9 DEF Counted
  <2>11. QED
    BY <2>1, <2>2, <2>10
<1>11. /\ NoneInvented(t, Facts) /\ NoneLost(t, Facts)
       /\ SitesKept(t, Facts, "notes")
  BY <1>6 DEF NoneInvented, NoneLost, KeptWhole, SitesKept, FactTables
<1>12. SitesOnce(t)
  <2>1. ASSUME NEW i \in DOMAIN t.functions, NEW j \in DOMAIN t.functions,
               Site(t.functions[i]) = Site(t.functions[j])
        PROVE  i = j
    <3>1. /\ t.functions[i] \in OfTable("functions")
          /\ t.functions[j] \in OfTable("functions")
      BY <1>6, ListLength, KeptIs DEF FactTables
    <3>2. t.functions[i] = t.functions[j]
      BY <2>1, <3>1 DEF SitesAgree
    <3>3. QED
      BY <1>6, <3>2 DEF FactTables
  <2>2. QED
    BY <2>1 DEF SitesOnce
<1>13. Placed(Modules, Paths, Facts)
  BY DEF Placed, Modules, Paths
<1>14. QED
  BY <1>1, <1>4, <1>8, <1>9, <1>10, <1>11, <1>12, <1>13 DEF Holds

-----------------------------------------------------------------------------
(* Tables that hold the same facts give the same report.                   *)

SameModule(x, y) ==
  /\ x.name = y.name /\ x.functions = y.functions /\ x.public = y.public
  /\ x.sources > 0 <=> y.sources > 0
  /\ x.headers > 0 <=> y.headers > 0
ModulesWithin(ms, ns) ==
  \A i \in DOMAIN ms : \E j \in DOMAIN ns : SameModule(ms[i], ns[j])
SitesWithin(s, r) ==
  \A i \in DOMAIN s : \E j \in DOMAIN r : Site(s[i]) = Site(r[j])

Within(t, u) ==
  /\ ModulesWithin(t.modules, u.modules)
  /\ \A n \in {"macros", "types", "notes"} : SitesWithin(t[n], u[n])
Alike(t, u) ==
  /\ Shaped(t) /\ Shaped(u)
  /\ \E M : ModulesNamed(t.modules, M) /\ ModulesNamed(u.modules, M)
  /\ ToSet(t.files) = ToSet(u.files)
  /\ \A n \in {"includes", "functions", "calls"} : ToSet(t[n]) = ToSet(u[n])
  /\ \A m : PublicSites(t, m) = PublicSites(u, m)
  /\ Within(t, u) /\ Within(u, t)

(* Whoever holds all functions has each of them once.                      *)
LEMMA FunctionsAre ==
  ASSUME NEW t, NEW M, NEW P, Holds(t, M, P, Facts), SitesAgree
  PROVE  /\ IsList(t.functions) /\ ToSet(t.functions) = OfTable("functions")
         /\ \A i, j \in DOMAIN t.functions : t.functions[i] = t.functions[j] => i = j
         /\ \A m : Cardinality(DefinitionsIn(t, m)) = Cardinality(DefinedAt(m))
         /\ \A m : Cardinality(PublicsIn(t, m)) = Cardinality(PublicAt(m))
<1>1. PICK s : s = t.functions
  OBVIOUS
<1>2. IsList(s)
  BY <1>1, TableFields DEF Holds
<1>3. ToSet(s) \subseteq OfTable("functions")
  BY <1>1, KeptIs DEF Holds, NoneInvented, FactTables
<1>4. OfTable("functions") \subseteq ToSet(s)
  <2>1. \A f \in OfTable("functions") : \E g \in ToSet(s) : Site(g) = Site(f)
    BY <1>1, KeptIs DEF Holds, NoneLost, SitesKept
  <2>2. QED
    BY <1>3, <2>1 DEF SitesAgree
<1>5. \A i, j \in DOMAIN s : s[i] = s[j] => i = j
  BY <1>1 DEF Holds, SitesOnce
<1>6. \A k \in DOMAIN s : s[k] \in OfTable("functions")
  BY <1>2, <1>3, ListLength
<1>7. ASSUME NEW m
      PROVE  /\ Cardinality(DefinitionsIn(t, m)) = Cardinality(DefinedAt(m))
             /\ Cardinality(PublicsIn(t, m)) = Cardinality(PublicAt(m))
  <2>1. DefinedAt(m) \subseteq ToSet(s) /\ PublicAt(m) \subseteq ToSet(s)
    BY <1>4 DEF DefinedAt, PublicAt
  <2>2. /\ DefinitionsIn(t, m) = {k \in DOMAIN s : s[k] \in DefinedAt(m)}
        /\ PublicsIn(t, m) = {k \in DOMAIN s : s[k] \in PublicAt(m)}
    BY <1>1, <1>6 DEF DefinitionsIn, PublicsIn, DefinedAt, PublicAt
  <2>3. QED
    BY <1>2, <1>5, <2>1, <2>2, Occurrences
<1>8. QED
  BY <1>1, <1>2, <1>3, <1>4, <1>5, <1>7

LEMMA ModulesAlike ==
  ASSUME NEW t, NEW u, NEW M, NEW P,
         Holds(t, M, P, Facts), Holds(u, M, P, Facts), SitesAgree
  PROVE  ModulesWithin(t.modules, u.modules)
<1>1. ASSUME NEW i \in DOMAIN t.modules
      PROVE  \E j \in DOMAIN u.modules : SameModule(t.modules[i], u.modules[j])
  <2>1. PICK j \in DOMAIN u.modules : u.modules[j].name = t.modules[i].name
    BY DEF Holds, ModulesNamed
  <2>2. PICK x, y, m : x = t.modules[i] /\ y = u.modules[j] /\ m = x.name
    OBVIOUS
  <2>3. Counted(t, x) /\ Counted(u, y) /\ y.name = m
    BY <2>1, <2>2 DEF Holds
  <2>4. /\ Cardinality(DefinitionsIn(t, m)) = Cardinality(DefinitionsIn(u, m))
        /\ Cardinality(PublicsIn(t, m)) = Cardinality(PublicsIn(u, m))
    BY FunctionsAre
  <2>5. ToSet(t.files) = ToSet(u.files)
    BY DEF Holds
  <2>6. SameModule(x, y)
    BY <2>2, <2>3, <2>4, <2>5 DEF Counted, SameModule
  <2>7. QED
    BY <2>2, <2>6
<1>2. QED
  BY <1>1 DEF ModulesWithin

LEMMA SitesAlike ==
  ASSUME NEW t, NEW u, NEW M, NEW P,
         Holds(t, M, P, Facts), Holds(u, M, P, Facts),
         SitesKept(t, Facts, "notes"), SitesKept(u, Facts, "notes"),
         NEW n \in {"macros", "types", "notes"}
  PROVE  SitesWithin(t[n], u[n])
<1>1. PICK s, r : s = t[n] /\ r = u[n]
  OBVIOUS
<1>2. IsList(s) /\ IsList(r)
  BY <1>1, TableFields DEF Holds, FactTables
<1>3. ToSet(s) \subseteq Kept(Facts, n)
  BY <1>1 DEF Holds, NoneInvented, FactTables
<1>4. \A f \in Kept(Facts, n) : \E g \in ToSet(r) : Site(g) = Site(f)
  BY <1>1 DEF Holds, NoneLost, SitesKept
<1>5. ASSUME NEW i \in DOMAIN s
      PROVE  \E j \in DOMAIN r : Site(s[i]) = Site(r[j])
  <2>1. PICK g \in ToSet(r) : Site(g) = Site(s[i])
    BY <1>2, <1>3, <1>4, ListLength
  <2>2. QED
    BY <1>2, <2>1, ListLength
<1>6. QED
  BY <1>1, <1>5 DEF SitesWithin

(* The number of public functions of a module, main apart.                 *)
LEMMA PublicSitesAre ==
  ASSUME NEW t, NEW M, NEW P, Holds(t, M, P, Facts), SitesAgree, NEW m
  PROVE  PublicSites(t, m) = Cardinality({f \in PublicAt(m) : f.usr # MainUsr})
<1>1. PICK s, T : s = t.functions /\ T = {f \in PublicAt(m) : f.usr # MainUsr}
  OBVIOUS
<1>2. /\ IsList(s) /\ ToSet(s) = OfTable("functions")
      /\ \A i, j \in DOMAIN s : s[i] = s[j] => i = j
  BY <1>1, FunctionsAre
<1>3. T \subseteq ToSet(s)
  BY <1>1, <1>2 DEF PublicAt, DefinedAt
<1>4. PublicSites(t, m) = Cardinality({i \in DOMAIN s : s[i] \in T})
  <2>1. \A k \in DOMAIN s : s[k] \in OfTable("functions")
    BY <1>2, ListLength
  <2>2. {i \in DOMAIN s : s[i] \in T} =
          {i \in DOMAIN s : /\ s[i].definition /\ ~s[i].static
                            /\ ModuleOf(s[i].path) = m /\ s[i].usr # MainUsr}
    BY <1>1, <2>1 DEF PublicAt, DefinedAt
  <2>3. QED
    BY <1>1, <2>2 DEF PublicSites
<1>5. QED
  BY <1>1, <1>2, <1>3, <1>4, Occurrences

LEMMA HoldersAlike ==
  ASSUME NEW t, NEW u, NEW M, NEW P,
         Holds(t, M, P, Facts), Holds(u, M, P, Facts), SitesAgree,
         SitesKept(t, Facts, "notes"), SitesKept(u, Facts, "notes")
  PROVE  Alike(t, u)
<1>1. ToSet(t["functions"]) = ToSet(u["functions"])
  BY FunctionsAre
<1>2. ASSUME NEW n \in {"includes", "calls"}
      PROVE  ToSet(t[n]) = ToSet(u[n])
  BY DEF Holds, NoneInvented, NoneLost, KeptWhole, FactTables
<1>3. Within(t, u)
  BY ModulesAlike, SitesAlike DEF Within
<1>4. Within(u, t)
  BY ModulesAlike, SitesAlike DEF Within
<1>5. \A m : PublicSites(t, m) = PublicSites(u, m)
  BY PublicSitesAre
<1>6. QED
  BY <1>1, <1>2, <1>3, <1>4, <1>5 DEF Holds, Alike

(* The questions the rules ask of the tables have the same answers.        *)
SameAnswers(t, u) ==
  /\ Includes(t) = Includes(u)
  /\ \A m : UsedOutside(t, m) <=> UsedOutside(u, m)
  /\ \A m, name : SymbolUsedOutside(t, m, name) <=> SymbolUsedOutside(u, m, name)
  /\ \A f : FunctionUsedOutside(t, f) <=> FunctionUsedOutside(u, f)
  /\ \A f : Declared(t, f) <=> Declared(u, f)
  /\ \A f : Defined(t, f) <=> Defined(u, f)
  /\ \A m : HasMain(t, m) <=> HasMain(u, m)
  /\ \A m : HasSource(t, m) <=> HasSource(u, m)
  /\ \A m : HasHeader(t, m) <=> HasHeader(u, m)
  /\ \A m, name : PublicHere(t, m, name) <=> PublicHere(u, m, name)
  /\ \A name : PublicAnywhere(t, name) <=> PublicAnywhere(u, name)
  /\ \A f : WrapsPlatformName(t, f) <=> WrapsPlatformName(u, f)
  /\ \A m, owner : SharesPrefix(t, m, owner) <=> SharesPrefix(u, m, owner)

LEMMA FilesAsked ==
  ASSUME NEW t, NEW u, Alike(t, u), NEW m
  PROVE  /\ HasSource(t, m) <=> HasSource(u, m)
         /\ HasHeader(t, m) <=> HasHeader(u, m)
<1>1. PICK M : ModulesNamed(t.modules, M) /\ ModulesNamed(u.modules, M)
  BY DEF Alike
<1>2. (HasModule(t, m) <=> m \in M) /\ (HasModule(u, m) <=> m \in M)
  BY <1>1, ModuleFound
<1>3. CASE m \notin M
  BY <1>2, <1>3 DEF HasSource, HasHeader
<1>4. CASE m \in M
  <2>1. PICK i, k : i = ModuleAt(t, m) /\ k = ModuleAt(u, m)
    OBVIOUS
  <2>2. /\ i \in DOMAIN t.modules /\ t.modules[i].name = m
        /\ \A j \in DOMAIN u.modules : u.modules[j].name = m => j = k
    BY <1>1, <1>4, <2>1, ModuleFound
  <2>3. PICK j \in DOMAIN u.modules : SameModule(t.modules[i], u.modules[j])
    BY <2>2 DEF Alike, Within, ModulesWithin
  <2>4. j = k
    BY <2>2, <2>3 DEF SameModule
  <2>5. QED
    BY <1>2, <1>4, <2>1, <2>3, <2>4 DEF HasSource, HasHeader, SameModule
<1>5. QED
  BY <1>3, <1>4

LEMMA AnswersAlike ==
  ASSUME NEW t, NEW u, Alike(t, u)
  PROVE  SameAnswers(t, u)
<1>1. /\ ToSet(t.functions) = ToSet(u.functions)
      /\ ToSet(t.calls) = ToSet(u.calls)
      /\ ToSet(t.includes) = ToSet(u.includes)
  <2>1. \A n \in {"includes", "functions", "calls"} : ToSet(t[n]) = ToSet(u[n])
    BY DEF Alike
  <2>2. QED
    BY <2>1
<1>2. Includes(t) = Includes(u)
  BY <1>1 DEF Includes
<1>3. \A m : UsedOutside(t, m) <=> UsedOutside(u, m)
  BY <1>2 DEF UsedOutside
<1>4. \A m, name : SymbolUsedOutside(t, m, name) <=> SymbolUsedOutside(u, m, name)
  BY <1>1 DEF SymbolUsedOutside
<1>5. \A f : FunctionUsedOutside(t, f) <=> FunctionUsedOutside(u, f)
  BY <1>1 DEF FunctionUsedOutside
<1>6. \A f : (Declared(t, f) <=> Declared(u, f)) /\ (Defined(t, f) <=> Defined(u, f))
  BY <1>1 DEF Declared, Defined
<1>7. \A m : HasMain(t, m) <=> HasMain(u, m)
  BY <1>1 DEF HasMain
<1>8. \A m, name : PublicHere(t, m, name) <=> PublicHere(u, m, name)
  BY <1>1 DEF PublicHere
<1>9. \A name : PublicAnywhere(t, name) <=> PublicAnywhere(u, name)
  BY <1>1 DEF PublicAnywhere
<1>10. \A f : WrapsPlatformName(t, f) <=> WrapsPlatformName(u, f)
  BY <1>1 DEF WrapsPlatformName
<1>11. ASSUME NEW m, NEW owner
       PROVE  SharesPrefix(t, m, owner) <=> SharesPrefix(u, m, owner)
  <2>1. Publics(t, m) = Publics(u, m)
    BY <1>1 DEF Publics
  <2>2. PublicSites(t, m) = PublicSites(u, m)
    BY DEF Alike
  <2>3. QED
    BY <2>1, <2>2 DEF SharesPrefix
<1>12. QED
  BY <1>2, <1>3, <1>4, <1>5, <1>6, <1>7, <1>8, <1>9, <1>10, <1>11, FilesAsked
  DEF SameAnswers

(* Each place of a table has its like in the other table.                  *)
LEMMA PlacesAlike ==
  ASSUME NEW t, NEW u, Alike(t, u)
  PROVE  /\ \A i \in DOMAIN t.modules : \E j \in DOMAIN u.modules :
              SameModule(t.modules[i], u.modules[j])
         /\ \A i \in DOMAIN t.files : \E j \in DOMAIN u.files :
              t.files[i] = u.files[j]
         /\ \A i \in DOMAIN t.functions : \E j \in DOMAIN u.functions :
              t.functions[i] = u.functions[j]
         /\ \A i \in DOMAIN t.includes : \E j \in DOMAIN u.includes :
              t.includes[i] = u.includes[j]
         /\ \A i \in DOMAIN t.macros : \E j \in DOMAIN u.macros :
              Site(t.macros[i]) = Site(u.macros[j])
         /\ \A i \in DOMAIN t.types : \E j \in DOMAIN u.types :
              Site(t.types[i]) = Site(u.types[j])
         /\ \A i \in DOMAIN t.notes : \E j \in DOMAIN u.notes :
              Site(t.notes[i]) = Site(u.notes[j])
<1>1. \A i \in DOMAIN t.modules : \E j \in DOMAIN u.modules :
        SameModule(t.modules[i], u.modules[j])
  BY DEF Alike, Within, ModulesWithin
<1>2. ASSUME NEW n \in {"files", "functions", "includes"}
      PROVE  \A i \in DOMAIN t[n] : \E j \in DOMAIN u[n] : t[n][i] = u[n][j]
  <2>1. PICK s, r : s = t[n] /\ r = u[n]
    OBVIOUS
  <2>2. IsList(s) /\ IsList(r) /\ ToSet(s) = ToSet(r)
    BY <2>1 DEF Alike, Shaped, TableNames
  <2>3. \A i \in DOMAIN s : \E j \in DOMAIN r : s[i] = r[j]
    BY <2>2, ListLength
  <2>4. QED
    BY <2>1, <2>3
<1>3. \A n \in {"macros", "types", "notes"} : \A i \in DOMAIN t[n] :
        \E j \in DOMAIN u[n] : Site(t[n][i]) = Site(u[n][j])
  BY DEF Alike, Within, SitesWithin
<1>4. QED
  BY <1>1, <1>2, <1>3

(* Each rule says the same of like places.                                 *)
LEMMA ModuleRulesAlike ==
  ASSUME NEW t, NEW u, Alike(t, u), NEW i, NEW j,
         SameModule(t.modules[i], u.modules[j])
  PROVE  /\ ModuleRules(t, i) = ModuleRules(u, j)
         /\ PrefixRules(t, i) = PrefixRules(u, j)
<1>1. PICK x, y : x = t.modules[i] /\ y = u.modules[j]
  OBVIOUS
<1>2. /\ x.name = y.name /\ x.functions = y.functions /\ x.public = y.public
      /\ HasMain(t, x.name) <=> HasMain(u, y.name)
      /\ SharesPrefix(t, x.name, ~args.library) <=> SharesPrefix(u, y.name, ~args.library)
  BY <1>1, AnswersAlike DEF SameModule, SameAnswers
<1>3. ModuleRules(t, i) = ModuleRules(u, j)
  BY <1>1, <1>2 DEF ModuleRules
<1>4. PrefixRules(t, i) = PrefixRules(u, j)
  BY <1>1, <1>2 DEF PrefixRules
<1>5. QED
  BY <1>3, <1>4

LEMMA FunctionRulesAlike ==
  ASSUME NEW t, NEW u, Alike(t, u), NEW i, NEW j, t.functions[i] = u.functions[j]
  PROVE  /\ FunctionRules(t, i) = FunctionRules(u, j)
         /\ PairRules(t, i) = PairRules(u, j)
<1>1. PICK f, m : f = t.functions[i] /\ f = u.functions[j] /\ m = ModuleOf(f.path)
  OBVIOUS
<1>2. SameAnswers(t, u)
  BY AnswersAlike
<1>3. FunctionRules(t, i) = FunctionRules(u, j)
  <2>1. /\ Declared(t, f) <=> Declared(u, f)
        /\ FunctionUsedOutside(t, f) <=> FunctionUsedOutside(u, f)
        /\ HasSource(t, m) <=> HasSource(u, m)
        /\ Defined(t, f) <=> Defined(u, f)
        /\ UsedOutside(t, m) <=> UsedOutside(u, m)
        /\ HasMain(t, m) <=> HasMain(u, m)
    BY <1>2 DEF SameAnswers
  <2>2. QED
    BY <1>1, <2>1 DEF FunctionRules
<1>4. PairRules(t, i) = PairRules(u, j)
  <2>1. /\ WrapsPlatformName(t, f) <=> WrapsPlatformName(u, f)
        /\ \A name : PublicHere(t, m, name) <=> PublicHere(u, m, name)
        /\ \A name : PublicAnywhere(t, name) <=> PublicAnywhere(u, name)
    BY <1>2 DEF SameAnswers
  <2>2. QED
    BY <1>1, <2>1 DEF PairRules
<1>5. QED
  BY <1>3, <1>4

LEMMA IncludeRulesAlike ==
  ASSUME NEW t, NEW u, Alike(t, u), NEW i, NEW j, t.includes[i] = u.includes[j]
  PROVE  IncludeRules(t, i) = IncludeRules(u, j)
<1>1. PICK f : f = t.includes[i] /\ f = u.includes[j]
  OBVIOUS
<1>2. Includes(t) = Includes(u)
  BY AnswersAlike DEF SameAnswers
<1>3. ASSUME NEW target
      PROVE  (\E k \in DOMAIN t.modules : Module(t.modules[k].name) = target) <=>
             (\E k \in DOMAIN u.modules : Module(u.modules[k].name) = target)
  BY DEF Alike, Within, ModulesWithin, SameModule
<1>4. QED
  BY <1>1, <1>2, <1>3 DEF IncludeRules

LEMMA SiteFields ==
  ASSUME NEW f, NEW g, Site(f) = Site(g)
  PROVE  /\ f.name = g.name /\ f.path = g.path /\ f.line = g.line
         /\ f.symbol = g.symbol
BY DEF Site

LEMMA SymbolRulesAlike ==
  ASSUME NEW t, NEW u, Alike(t, u), NEW i, NEW j
  PROVE  /\ Site(t.macros[i]) = Site(u.macros[j]) =>
              MacroRules(t, i) = MacroRules(u, j)
         /\ Site(t.types[i]) = Site(u.types[j]) =>
              /\ TypeRules(t, i) = TypeRules(u, j)
              /\ SuffixRules(t, i) = SuffixRules(u, j)
         /\ Site(t.notes[i]) = Site(u.notes[j]) =>
              NoteRules(t, i) = NoteRules(u, j)
<1>1. SameAnswers(t, u)
  BY AnswersAlike
<1>2. ASSUME Site(t.macros[i]) = Site(u.macros[j])
      PROVE  MacroRules(t, i) = MacroRules(u, j)
  <2>1. PICK f, g, m : f = t.macros[i] /\ g = u.macros[j] /\ m = ModuleOf(f.path)
    OBVIOUS
  <2>2. f.name = g.name /\ f.path = g.path
    BY <1>2, <2>1, SiteFields
  <2>3. /\ UsedOutside(t, m) <=> UsedOutside(u, m)
        /\ SymbolUsedOutside(t, m, f.name) <=> SymbolUsedOutside(u, m, f.name)
    BY <1>1 DEF SameAnswers
  <2>4. QED
    BY <2>1, <2>2, <2>3 DEF MacroRules
<1>3. ASSUME Site(t.types[i]) = Site(u.types[j])
      PROVE  /\ TypeRules(t, i) = TypeRules(u, j)
             /\ SuffixRules(t, i) = SuffixRules(u, j)
  <2>1. PICK f, g, m : f = t.types[i] /\ g = u.types[j] /\ m = ModuleOf(f.path)
    OBVIOUS
  <2>2. f.name = g.name /\ f.path = g.path
    BY <1>3, <2>1, SiteFields
  <2>3. UsedOutside(t, m) <=> UsedOutside(u, m)
    BY <1>1 DEF SameAnswers
  <2>4. QED
    BY <2>1, <2>2, <2>3 DEF TypeRules, SuffixRules
<1>4. ASSUME Site(t.notes[i]) = Site(u.notes[j])
      PROVE  NoteRules(t, i) = NoteRules(u, j)
  <2>1. PICK f, g : f = t.notes[i] /\ g = u.notes[j]
    OBVIOUS
  <2>2. f.name = g.name /\ f.path = g.path
    BY <1>4, <2>1, SiteFields
  <2>3. QED
    BY <2>1, <2>2 DEF NoteRules
<1>5. QED
  BY <1>2, <1>3, <1>4

(* The first macro of a header is as good in one table as in the other.    *)
LEMMA GuardAlike ==
  ASSUME NEW t, NEW u, Alike(t, u), NEW path, NEW f \in Leading(ToSet(t.macros), path)
  PROVE  \E g \in Leading(ToSet(u.macros), path) : g.name = f.name
<1>1. PICK s, r : s = t.macros /\ r = u.macros
  OBVIOUS
<1>2. /\ IsList(s) /\ IsList(r)
      /\ \A i \in DOMAIN s : \E j \in DOMAIN r : Site(s[i]) = Site(r[j])
      /\ \A i \in DOMAIN r : \E j \in DOMAIN s : Site(r[i]) = Site(s[j])
  BY <1>1 DEF Alike, Shaped, TableNames, Within, SitesWithin
<1>3. /\ \A x \in ToSet(s) : \E y \in ToSet(r) : Site(x) = Site(y)
      /\ \A y \in ToSet(r) : \E x \in ToSet(s) : Site(x) = Site(y)
  BY <1>2, ListLength
<1>4. /\ f \in ToSet(s) /\ f.path = path
      /\ \A x \in ToSet(s) : x.path = path => f.line <= x.line
  BY <1>1 DEF Leading
<1>5. PICK g \in ToSet(r) : Site(f) = Site(g)
  BY <1>3, <1>4
<1>6. g.name = f.name /\ g.path = path /\ g.line = f.line
  BY <1>4, <1>5, SiteFields
<1>7. \A y \in ToSet(r) : y.path = path => g.line <= y.line
  BY <1>3, <1>4, <1>6, SiteFields
<1>8. g \in Leading(ToSet(u.macros), path)
  BY <1>1, <1>6, <1>7 DEF Leading
<1>9. QED
  BY <1>6, <1>8

LEMMA GuardRuleAlike ==
  ASSUME NEW t, NEW u, Alike(t, u), Alike(u, t), NEW i, NEW j, t.files[i] = u.files[j]
  PROVE  GuardRules(t, i) = GuardRules(u, j)
<1>1. PICK path : path = t.files[i] /\ path = u.files[j]
  OBVIOUS
<1>2. PICK G, H : /\ G = Leading(ToSet(t.macros), path)
                  /\ H = Leading(ToSet(u.macros), path)
  OBVIOUS
<1>3. /\ \A f \in G : \E g \in H : g.name = f.name
      /\ \A g \in H : \E f \in G : f.name = g.name
  BY <1>2, GuardAlike
<1>4. PICK bad : bad <=> path.header /\ (G = {} \/ \E f \in G : ~Ends(f.name, Append(path.base, "h")))
  OBVIOUS
<1>5. bad <=> path.header /\ (H = {} \/ \E f \in H : ~Ends(f.name, Append(path.base, "h")))
  BY <1>3, <1>4
<1>6. GuardRules(t, i) = IF bad THEN {"INCLUDE_GUARD"} ELSE {}
  BY <1>1, <1>2, <1>4 DEF GuardRules
<1>7. GuardRules(u, j) = IF bad THEN {"INCLUDE_GUARD"} ELSE {}
  BY <1>1, <1>2, <1>5 DEF GuardRules
<1>8. QED
  BY <1>6, <1>7

LEMMA OwnHeaderRuleAlike ==
  ASSUME NEW t, NEW u, Alike(t, u), NEW i, NEW j, t.files[i] = u.files[j]
  PROVE  OwnHeaderRules(t, i) = OwnHeaderRules(u, j)
<1>1. PICK path, m : path = t.files[i] /\ path = u.files[j] /\ m = ModuleOf(path)
  OBVIOUS
<1>2. Includes(t) = Includes(u) /\ (HasHeader(t, m) <=> HasHeader(u, m))
  BY AnswersAlike DEF SameAnswers
<1>3. QED
  BY <1>1, <1>2 DEF OwnHeaderRules

LEMMA SectionWithin ==
  ASSUME NEW t, NEW u, Alike(t, u), Alike(u, t), NEW n \in 1 .. 11,
         NEW i \in DOMAIN t[Sections[n]]
  PROVE  \E j \in DOMAIN u[Sections[n]] :
           Place(u, n, j) = Place(t, n, i) /\ Broken(u, n, j) = Broken(t, n, i)
<1>1. CASE n \in {1, 7}
  <2>1. PICK j \in DOMAIN u.modules : SameModule(t.modules[i], u.modules[j])
    BY <1>1, PlacesAlike DEF Sections
  <2>2. t.modules[i].name = u.modules[j].name
    BY <2>1 DEF SameModule
  <2>3. Place(u, n, j) = Place(t, n, i)
    BY <1>1, <2>2 DEF Place, Sections
  <2>4. Broken(u, n, j) = Broken(t, n, i)
    BY <1>1, <2>1, ModuleRulesAlike DEF Broken
  <2>5. QED
    BY <1>1, <2>3, <2>4 DEF Sections
<1>2. CASE n \in {2, 6}
  <2>1. PICK j \in DOMAIN u.functions : t.functions[i] = u.functions[j]
    BY <1>2, PlacesAlike DEF Sections
  <2>2. Place(u, n, j) = Place(t, n, i)
    BY <1>2, <2>1 DEF Place, Sections
  <2>3. Broken(u, n, j) = Broken(t, n, i)
    BY <1>2, <2>1, FunctionRulesAlike DEF Broken
  <2>4. QED
    BY <1>2, <2>2, <2>3 DEF Sections
<1>3. CASE n = 3
  <2>1. PICK j \in DOMAIN u.macros : Site(t.macros[i]) = Site(u.macros[j])
    BY <1>3, PlacesAlike DEF Sections
  <2>2. Place(u, n, j) = Place(t, n, i)
    BY <1>3, <2>1, SiteFields DEF Place, Sections
  <2>3. Broken(u, n, j) = Broken(t, n, i)
    BY <1>3, <2>1, SymbolRulesAlike DEF Broken
  <2>4. QED
    BY <1>3, <2>2, <2>3 DEF Sections
<1>4. CASE n \in {4, 9}
  <2>1. PICK j \in DOMAIN u.types : Site(t.types[i]) = Site(u.types[j])
    BY <1>4, PlacesAlike DEF Sections
  <2>2. Place(u, n, j) = Place(t, n, i)
    BY <1>4, <2>1, SiteFields DEF Place, Sections
  <2>3. Broken(u, n, j) = Broken(t, n, i)
    BY <1>4, <2>1, SymbolRulesAlike DEF Broken
  <2>4. QED
    BY <1>4, <2>2, <2>3 DEF Sections
<1>5. CASE n = 10
  <2>1. PICK j \in DOMAIN u.notes : Site(t.notes[i]) = Site(u.notes[j])
    BY <1>5, PlacesAlike DEF Sections
  <2>2. Place(u, n, j) = Place(t, n, i)
    BY <1>5, <2>1, SiteFields DEF Place, Sections
  <2>3. Broken(u, n, j) = Broken(t, n, i)
    BY <1>5, <2>1, SymbolRulesAlike DEF Broken
  <2>4. QED
    BY <1>5, <2>2, <2>3 DEF Sections
<1>6. CASE n = 5
  <2>1. PICK j \in DOMAIN u.includes : t.includes[i] = u.includes[j]
    BY <1>6, PlacesAlike DEF Sections
  <2>2. Place(u, n, j) = Place(t, n, i)
    BY <1>6, <2>1 DEF Place, Sections
  <2>3. Broken(u, n, j) = Broken(t, n, i)
    BY <1>6, <2>1, IncludeRulesAlike DEF Broken
  <2>4. QED
    BY <1>6, <2>2, <2>3 DEF Sections
<1>7. CASE n \in {8, 11}
  <2>1. PICK j \in DOMAIN u.files : t.files[i] = u.files[j]
    BY <1>7, PlacesAlike DEF Sections
  <2>2. Place(u, n, j) = Place(t, n, i)
    BY <1>7, <2>1 DEF Place, Sections
  <2>3. Broken(u, n, j) = Broken(t, n, i)
    BY <1>7, <2>1, GuardRuleAlike, OwnHeaderRuleAlike DEF Broken
  <2>4. QED
    BY <1>7, <2>2, <2>3 DEF Sections
<1>8. n \in {1, 2, 3, 4, 5, 6, 7, 8, 9, 10, 11}
  OBVIOUS
<1>9. QED
  BY <1>1, <1>2, <1>3, <1>4, <1>5, <1>6, <1>7, <1>8

LEMMA SectionPart ==
  ASSUME NEW t, NEW u, Alike(t, u), Alike(u, t), NEW n \in 1 .. 11
  PROVE  SectionOf(t, n) \subseteq SectionOf(u, n)
<1>1. ASSUME NEW i \in DOMAIN t[Sections[n]], NEW r \in Broken(t, n, i)
      PROVE  [rule |-> r, place |-> Place(t, n, i)] \in SectionOf(u, n)
  <2>1. PICK j \in DOMAIN u[Sections[n]] :
          Place(u, n, j) = Place(t, n, i) /\ Broken(u, n, j) = Broken(t, n, i)
    BY SectionWithin
  <2>2. QED
    BY <1>1, <2>1 DEF SectionOf
<1>2. ASSUME NEW x \in SectionOf(t, n)
      PROVE  x \in SectionOf(u, n)
  <2>1. PICK i \in DOMAIN t[Sections[n]] :
          x \in {[rule |-> r, place |-> Place(t, n, i)] : r \in Broken(t, n, i)}
    BY <1>2 DEF SectionOf
  <2>2. PICK r \in Broken(t, n, i) : x = [rule |-> r, place |-> Place(t, n, i)]
    BY <2>1
  <2>3. QED
    BY <1>1, <2>2
<1>3. QED
  BY <1>2

(* What is written of like tables is the same.                             *)
LEMMA SectionsAlike ==
  ASSUME NEW t, NEW u, Alike(t, u), Alike(u, t), NEW n \in 1 .. 11
  PROVE  SectionOf(t, n) = SectionOf(u, n)
<1>1. SectionOf(t, n) \subseteq SectionOf(u, n)
  BY SectionPart
<1>2. SectionOf(u, n) \subseteq SectionOf(t, n)
  BY SectionPart
<1>3. QED
  BY <1>1, <1>2

-----------------------------------------------------------------------------
(* What has been read is what the tables hold.                             *)

FactsOf(S) == {r.fact : r \in {x \in S : x.is = "fact"}}
PathsOf(S) == {f.path : f \in FactsOf(S)}
ModulesOf(S) == {ModuleOf(p) : p \in PathsOf(S)}
Tells(t, S) == Holds(t, ModulesOf(S), PathsOf(S), FactsOf(S))

WholeInput(S) == \A r \in S : r.is \notin {"diagnostic", "invalid"}
SomeFact(S) == \E r \in S : r.is \in {"fact", "pathless"}

(* A record that was not read stands in the stream; past the reading there *)
(* is none.                                                                *)
AllRead ==
  \/ stage \in {"open", "report"}
  \/ stage \in {"end", "ended"} /\ ~err /\ ~args.help
LoadInv ==
  /\ args \in InputArguments /\ stream \in InputStreams
  /\ DOMAIN pending = DOMAIN stream.copies /\ seen \subseteq DOMAIN stream.copies
  /\ \A r \in DOMAIN stream.copies : r \in seen \/ pending[r] # 0
  /\ AllRead => seen = DOMAIN stream.copies /\ (args.facts => SomeFact(seen))

(* As long as nothing failed, what was read was in order, and the tables   *)
(* hold it.                                                                *)
TablesInv == ~err => WholeInput(seen) /\ Tells(tables, seen)

(* The report has the findings of the sections that were written.          *)
Findings(t, k) == UNION {SectionOf(t, n) : n \in 1 .. k}
ReportInv ==
  /\ stage \in {"arguments", "load", "open"} => section = 0
  /\ stage = "report" /\ ~err => report = Findings(tables, section)
  /\ stage \in {"end", "ended"} /\ ~err /\ ~args.help => report = Findings(tables, 11)
  /\ stage = "ended" /\ err => status = ExitTrouble

MapInv == LoadInv /\ TablesInv /\ ReportInv

LEMMA RecordTold ==
  ASSUME NEW t, NEW S, Tells(t, S), NEW r, r.is # "fact"
  PROVE  Tells(t, S \cup {r})
<1>1. FactsOf(S \cup {r}) = FactsOf(S)
  BY DEF FactsOf
<1>2. QED
  BY <1>1 DEF Tells, ModulesOf, PathsOf

LEMMA FactTold ==
  ASSUME NEW t, NEW S, Tells(t, S), NEW r, r.is = "fact", NEW u,
         u = WithFile(t, r.fact.path), ~Refused(u, r.fact)
  PROVE  Tells(Store(u, r.fact), S \cup {r})
<1>1. PICK f : f = r.fact
  OBVIOUS
<1>2. FactsOf(S \cup {r}) = FactsOf(S) \cup {f}
  BY <1>1 DEF FactsOf
<1>3. PathsOf(S \cup {r}) = PathsOf(S) \cup {f.path}
  BY <1>2 DEF PathsOf
<1>4. ModulesOf(S \cup {r}) = ModulesOf(S) \cup {ModuleOf(f.path)}
  BY <1>3 DEF ModulesOf
<1>5. Holds(u, ModulesOf(S \cup {r}), PathsOf(S \cup {r}), FactsOf(S))
  BY <1>1, <1>3, <1>4, FileAdded DEF Tells
<1>6. Recorded(f) /\ f.kind # "NOTE" => ~Full(u, TableOf(f))
  BY <1>1 DEF Refused
<1>7. f.path \in PathsOf(S \cup {r})
  BY <1>3
<1>8. Holds(Store(u, f), ModulesOf(S \cup {r}), PathsOf(S \cup {r}),
            FactsOf(S) \cup {f})
  BY <1>5, <1>6, <1>7, FactAdded
<1>9. QED
  BY <1>1, <1>2, <1>8 DEF Tells

(* file_for_fact and apply_fact keep up with the records.                  *)
LEMMA RecordRead ==
  ASSUME NEW r, Apply(r), seen' = seen \cup {r}, TablesInv, ~err
  PROVE  TablesInv'
<1> SUFFICES ASSUME ~err'
             PROVE  WholeInput(seen \cup {r}) /\ Tells(tables', seen \cup {r})
  BY DEF TablesInv
<1>1. r.is \notin {"diagnostic", "invalid"}
  BY DEF Apply, Fails
<1>2. WholeInput(seen) /\ Tells(tables, seen)
  BY DEF TablesInv
<1>3. WholeInput(seen \cup {r})
  BY <1>1, <1>2 DEF WholeInput
<1>4. CASE r.is # "fact"
  <2>1. tables' = tables
    BY <1>1, <1>4 DEF Apply
  <2>2. QED
    BY <1>2, <1>3, <1>4, <2>1, RecordTold
<1>5. CASE r.is = "fact"
  <2>1. PICK u : u = WithFile(tables, r.fact.path)
    OBVIOUS
  <2>2. ~Refused(u, r.fact) /\ tables' = Store(u, r.fact)
    BY <1>5, <2>1 DEF Apply, Fails
  <2>3. Tells(Store(u, r.fact), seen \cup {r})
    BY <1>2, <1>5, <2>1, <2>2, FactTold
  <2>4. QED
    BY <1>3, <2>2, <2>3
<1>6. QED
  BY <1>4, <1>5

LEMMA NothingTold == Tells(NoTables, {})
<1>1. PICK t : t = NoTables
  OBVIOUS
<1>2. FactsOf({}) = {} /\ PathsOf({}) = {} /\ ModulesOf({}) = {}
  BY DEF FactsOf, PathsOf, ModulesOf
<1>3. IsTables(t) /\ \A n \in TableNames : t[n] = <<>>
  BY <1>1 DEF NoTables, IsTables
<1>4. IsList(<<>>) /\ ToSet(<<>>) = {} /\ DOMAIN <<>> = {}
  BY DEF IsList, ToSet
<1>5. /\ t.files = <<>> /\ t.modules = <<>> /\ t.functions = <<>>
      /\ \A n \in FactTables : t[n] = <<>>
  BY <1>3 DEF TableNames, FactTables
<1>6. Shaped(t)
  BY <1>3, <1>4, <1>5 DEF Shaped
<1>7. Placed({}, {}, {}) /\ ToSet(t.files) = {} /\ ModulesNamed(t.modules, {})
  BY <1>4, <1>5 DEF Placed, ModulesNamed
<1>8. \A i \in DOMAIN t.modules : Counted(t, t.modules[i])
  BY <1>4, <1>5
<1>9. \A n : Kept({}, n) = {}
  BY DEF Kept
<1>10. NoneInvented(t, {}) /\ NoneLost(t, {})
  BY <1>4, <1>5, <1>9 DEF NoneInvented, NoneLost, KeptWhole, SitesKept
<1>11. SitesOnce(t)
  BY <1>4, <1>5 DEF SitesOnce
<1>12. Holds(t, {}, {}, {})
  BY <1>6, <1>7, <1>8, <1>10, <1>11 DEF Holds
<1>13. QED
  BY <1>1, <1>2, <1>12 DEF Tells

LEMMA MapStart == Init => MapInv
<1> SUFFICES ASSUME Init PROVE MapInv
  OBVIOUS
<1>1. LoadInv
  <2>1. PICK s \in InputStreams : stream = s /\ pending = s.copies
    BY DEF Init
  <2>2. s.copies \in [DOMAIN s.copies -> Nat \ {0}]
    BY <2>1, StreamAssumption
  <2>3. \A r \in DOMAIN s.copies : s.copies[r] # 0
    BY <2>2
  <2>4. stage = "arguments" /\ args \in InputArguments /\ seen = {}
    BY DEF Init
  <2>5. QED
    BY <2>1, <2>3, <2>4 DEF LoadInv, AllRead
<1>2. TablesInv
  BY NothingTold DEF Init, TablesInv, WholeInput
<1>3. ReportInv
  BY DEF Init, ReportInv
<1>4. QED
  BY <1>1, <1>2, <1>3 DEF MapInv

(* Reading leaves the report alone.                                        *)
LEMMA ReadKeeps ==
  ASSUME MapInv, RunInv, Read \/ ReadFails \/ EndLoad
  PROVE  MapInv'
<1>1. ~err /\ stage = "load"
  BY DEF RunInv, TroubleInv, Read, ReadFails, EndLoad
<1>2. CASE Read
  <2>1. PICK r \in DOMAIN pending :
          /\ pending' = [pending EXCEPT ![r] = @ - 1]
          /\ seen' = seen \cup {r}
          /\ Apply(r)
    BY <1>2 DEF Read
  <2>2. UNCHANGED <<args, stream, section>> /\ (UNCHANGED <<stage, err>> \/ Fails)
    BY <1>2, <2>1 DEF Read, Apply, reportVars
  <2>3. LoadInv'
    <3>1. /\ DOMAIN pending' = DOMAIN pending
          /\ \A q \in DOMAIN pending : q # r => pending'[q] = pending[q]
      BY <2>1
    <3>2. /\ args' \in InputArguments /\ stream' \in InputStreams
          /\ DOMAIN pending' = DOMAIN stream'.copies
          /\ seen' \subseteq DOMAIN stream'.copies
          /\ \A q \in DOMAIN stream'.copies : q \in seen' \/ pending'[q] # 0
      BY <2>1, <2>2, <3>1 DEF MapInv, LoadInv
    <3>3. stage' = "load" \/ (stage' = "end" /\ err')
      BY <1>1, <2>2 DEF Fails
    <3>4. QED
      BY <3>2, <3>3 DEF LoadInv, AllRead
  <2>4. TablesInv'
    BY <1>1, <2>1, RecordRead DEF MapInv
  <2>5. ReportInv'
    BY <1>1, <2>2 DEF MapInv, ReportInv, Fails
  <2>6. QED
    BY <2>3, <2>4, <2>5 DEF MapInv
<1>3. CASE ReadFails \/ EndLoad
  <2>1. /\ UNCHANGED <<args, loadVars, section, report>>
        /\ \/ stage' = "end" /\ err'
           \/ /\ stage' = "open" /\ err' = err
              /\ \A r \in DOMAIN pending : pending[r] = 0
              /\ args.facts => SomeFact(seen)
    BY <1>1, <1>3 DEF ReadFails, EndLoad, Fails, reportVars, SomeFact
  <2>2. LoadInv'
    <3>1. /\ args' \in InputArguments /\ stream' \in InputStreams
          /\ DOMAIN pending' = DOMAIN stream'.copies
          /\ seen' \subseteq DOMAIN stream'.copies
          /\ \A q \in DOMAIN stream'.copies : q \in seen' \/ pending'[q] # 0
      BY <2>1 DEF MapInv, LoadInv, loadVars
    <3>2. CASE stage' = "end" /\ err'
      BY <3>1, <3>2 DEF LoadInv, AllRead
    <3>3. CASE /\ stage' = "open" /\ \A r \in DOMAIN pending : pending[r] = 0
               /\ args.facts => SomeFact(seen)
      <4>1. seen' = DOMAIN stream'.copies /\ (args'.facts => SomeFact(seen'))
        BY <2>1, <3>1, <3>3 DEF loadVars
      <4>2. QED
        BY <3>1, <4>1 DEF LoadInv
    <3>4. QED
      BY <2>1, <3>2, <3>3
  <2>3. TablesInv'
    BY <1>1, <2>1 DEF MapInv, TablesInv, loadVars
  <2>4. ReportInv'
    BY <1>1, <2>1 DEF MapInv, ReportInv
  <2>5. QED
    BY <2>2, <2>3, <2>4 DEF MapInv
<1>4. QED
  BY <1>2, <1>3

LEMMA FindingsGrow ==
  ASSUME NEW t, NEW k \in Nat
  PROVE  Findings(t, k + 1) = Findings(t, k) \cup SectionOf(t, k + 1)
<1>1. 1 .. (k + 1) = (1 .. k) \cup {k + 1}
  OBVIOUS
<1>2. QED
  BY <1>1 DEF Findings

(* What is written after the reading leaves the tables alone.              *)
LEMMA TablesStay ==
  ASSUME MapInv, UNCHANGED <<args, loadVars>>, err => err', AllRead' => AllRead
  PROVE  LoadInv' /\ TablesInv'
<1>1. /\ args' \in InputArguments /\ stream' \in InputStreams
      /\ DOMAIN pending' = DOMAIN stream'.copies
      /\ seen' \subseteq DOMAIN stream'.copies
      /\ \A q \in DOMAIN stream'.copies : q \in seen' \/ pending'[q] # 0
  BY DEF MapInv, LoadInv, loadVars
<1>2. TablesInv'
  BY DEF MapInv, TablesInv, loadVars
<1>3. AllRead' => seen' = DOMAIN stream'.copies /\ (args'.facts => SomeFact(seen'))
  BY DEF MapInv, LoadInv, loadVars
<1>4. QED
  BY <1>1, <1>2, <1>3 DEF LoadInv

(* What a section says depends on the tables and the arguments alone.      *)
LEMMA SectionsStay ==
  ASSUME UNCHANGED <<args, tables>>
  PROVE  \A n : SectionOf(tables, n)' = SectionOf(tables, n)
BY DEF SectionOf, Broken, Place, ModuleRules, FunctionRules, MacroRules, TypeRules,
       IncludeRules, PairRules, PrefixRules, OwnHeaderRules, SuffixRules,
       NoteRules, GuardRules, LayerAllows, LayerAsked

LEMMA SectionKeeps ==
  ASSUME MapInv, RunInv, WriteSection
  PROVE  MapInv'
<1>1. /\ stage = "report" /\ stage' = "report" /\ section' = section + 1
      /\ UNCHANGED <<args, tables, status>>
      /\ \/ ~err /\ report' = report \cup SectionOf(tables, section + 1) /\ err' = err
         \/ err'
  BY DEF WriteSection, loadVars, RunInv, TroubleInv
<1>2. err => err'
  BY DEF WriteSection, RunInv, TroubleInv
<1>3. LoadInv' /\ TablesInv'
  BY <1>1, <1>2, TablesStay DEF AllRead, WriteSection
<1>4. ReportInv'
  <2>1. CASE err'
    BY <1>1, <2>1 DEF ReportInv
  <2>2. CASE ~err'
    <3>1. section \in Nat
      BY SectionCount DEF RunInv, TroubleInv
    <3>2. report = Findings(tables, section)
      BY <1>1, <1>2, <2>2 DEF MapInv, ReportInv
    <3>3. report' = Findings(tables, section + 1)
      BY <1>1, <2>2, <3>1, <3>2, FindingsGrow
    <3>4. QED
      BY <1>1, <3>3, SectionsStay DEF ReportInv, Findings
  <2>3. QED
    BY <2>1, <2>2
<1>5. QED
  BY <1>3, <1>4 DEF MapInv

LEMMA MapStep ==
  ASSUME MapInv, RunInv, [Next]_vars
  PROVE  MapInv'
<1>1. CASE Arguments
  <2>1. /\ stage = "arguments" /\ ~err /\ UNCHANGED <<args, loadVars, section, report>>
        /\ \/ stage' = "load"
           \/ stage' = "end" /\ (err' \/ args.help)
        /\ err' \in BOOLEAN
    BY <1>1 DEF Arguments, Fails, reportVars, RunInv, TroubleInv
  <2>2. LoadInv' /\ TablesInv'
    BY <2>1, TablesStay DEF AllRead
  <2>3. ReportInv'
    BY <2>1 DEF MapInv, ReportInv
  <2>4. QED
    BY <2>2, <2>3 DEF MapInv
<1>2. CASE Read \/ ReadFails \/ EndLoad
  BY <1>2, ReadKeeps
<1>3. CASE Open
  <2>1. /\ stage = "open" /\ ~err /\ UNCHANGED <<args, loadVars, section, report>>
        /\ \/ stage' = "report" /\ err' = err
           \/ stage' = "end" /\ err'
    BY <1>3 DEF Open, Fails, reportVars, RunInv, TroubleInv
  <2>2. LoadInv' /\ TablesInv'
    BY <2>1, TablesStay DEF AllRead
  <2>3. section' = 0 /\ report' = {} /\ tables' = tables
    BY <2>1 DEF MapInv, ReportInv, RunInv, WroteInv, loadVars
  <2>4. Findings(tables, 0) = {}
    BY DEF Findings
  <2>5. ReportInv'
    BY <2>1, <2>3, <2>4 DEF ReportInv, Findings
  <2>6. QED
    BY <2>2, <2>5 DEF MapInv
<1>4. CASE BeginFails
  <2>1. stage = "report" /\ stage' = "end" /\ err' /\ UNCHANGED <<args, loadVars>>
    BY <1>4 DEF BeginFails, Fails
  <2>2. LoadInv' /\ TablesInv'
    BY <2>1, TablesStay DEF AllRead
  <2>3. ReportInv'
    BY <2>1 DEF ReportInv
  <2>4. QED
    BY <2>2, <2>3 DEF MapInv
<1>5. CASE WriteSection
  BY <1>5, SectionKeeps
<1>6. CASE EndReport
  <2>1. /\ stage = "report" /\ section = 11 /\ stage' = "end"
        /\ UNCHANGED <<args, loadVars, report>>
        /\ err' \/ (~err /\ err' = err)
    BY <1>6, SectionCount DEF EndReport
  <2>2. LoadInv' /\ TablesInv'
    BY <2>1, TablesStay DEF AllRead
  <2>3. ReportInv'
    BY <2>1, SectionsStay DEF MapInv, ReportInv, Findings, loadVars
  <2>4. QED
    BY <2>2, <2>3 DEF MapInv
<1>7. CASE Exit
  <2>1. /\ stage = "end" /\ stage' = "ended" /\ UNCHANGED <<args, loadVars, err, report>>
        /\ err => status' = ExitTrouble
    BY <1>7 DEF Exit, reportVars
  <2>2. LoadInv' /\ TablesInv'
    BY <2>1, TablesStay DEF AllRead
  <2>3. ReportInv'
    BY <2>1, SectionsStay DEF MapInv, ReportInv, Findings, loadVars
  <2>4. QED
    BY <2>2, <2>3 DEF MapInv
<1>8. CASE UNCHANGED vars
  <2>1. UNCHANGED <<stage, args, loadVars, err, section, report, status>>
    BY <1>8 DEF vars, reportVars
  <2>2. LoadInv' /\ TablesInv'
    BY <2>1, TablesStay DEF AllRead
  <2>3. ReportInv'
    BY <2>1, SectionsStay DEF MapInv, ReportInv, Findings, loadVars
  <2>4. QED
    BY <2>2, <2>3 DEF MapInv
<1>9. QED
  BY <1>1, <1>2, <1>3, <1>4, <1>5, <1>6, <1>7, <1>8 DEF Next, Run, Ended

THEOREM MapInvariant == Spec => []MapInv
BY MapStart, MapStep, RunInvariant, PTL DEF Spec

(* A report with status 0 or 1 comes of tables that hold all the facts.    *)
LEMMA ReportedMeans ==
  ASSUME MapInv, Reported
  PROVE  /\ Holds(tables, Modules, Paths, Facts) /\ WholeInput(DOMAIN stream.copies)
         /\ args.facts => SomeFact(DOMAIN stream.copies)
         /\ report = Findings(tables, 11)
         /\ IsFiniteSet(Facts) /\ args \in InputArguments
<1>1. ~err
  BY DEF MapInv, ReportInv, Reported
<1>2. /\ seen = DOMAIN stream.copies /\ report = Findings(tables, 11)
      /\ args.facts => SomeFact(seen)
  BY <1>1 DEF MapInv, LoadInv, AllRead, ReportInv, Reported
<1>3. WholeInput(seen) /\ Tells(tables, seen)
  BY <1>1 DEF MapInv, TablesInv
<1>4. FactsOf(seen) = Facts
  BY <1>2 DEF FactsOf, Facts
<1>5. PathsOf(seen) = Paths /\ ModulesOf(seen) = Modules
  BY <1>4 DEF PathsOf, Paths, ModulesOf, Modules
<1>6. IsFiniteSet(Facts)
  <2>1. IsFiniteSet(DOMAIN stream.copies)
    BY StreamAssumption DEF MapInv, LoadInv
  <2>2. PICK S : S = {r \in DOMAIN stream.copies : r.is = "fact"}
    OBVIOUS
  <2>3. IsFiniteSet(S)
    BY <2>1, <2>2, FS_Subset
  <2>4. PICK g : g = [r \in S |-> r.fact]
    OBVIOUS
  <2>5. g \in Surjection(S, Facts)
    <3>1. g \in [S -> Facts] /\ \A r \in S : g[r] = r.fact
      BY <2>2, <2>4 DEF Facts
    <3>2. \A f \in Facts : \E r \in S : g[r] = f
      BY <2>2, <3>1 DEF Facts
    <3>3. QED
      BY <3>1, <3>2 DEF Surjection
  <2>6. QED
    BY <2>3, <2>5, FS_Surjection
<1>7. QED
  BY <1>2, <1>3, <1>4, <1>5, <1>6 DEF Tells, MapInv, LoadInv

LEMMA ReportIsExact ==
  ASSUME MapInv, VerdictIsOfTheReport
  PROVE  ReportIsOfTheFacts
<1> SUFFICES ASSUME Reported, ~Full(tables, "notes"), SitesAgree
             PROVE  report = UNION {SectionOf(IdealTables, n) : n \in DOMAIN Sections}
  BY DEF ReportIsOfTheFacts
<1>1. PICK t, u : t = tables /\ u = IdealTables
  OBVIOUS
<1>2. /\ Holds(t, Modules, Paths, Facts) /\ SitesKept(t, Facts, "notes")
      /\ IsFiniteSet(Facts) /\ report = Findings(t, 11)
  BY <1>1, ReportedMeans DEF Holds, NoneLost
<1>3. Holds(u, Modules, Paths, Facts) /\ SitesKept(u, Facts, "notes")
  BY <1>1, <1>2, IdealHolds
<1>4. Alike(t, u) /\ Alike(u, t)
  BY <1>2, <1>3, HoldersAlike
<1>5. \A n \in 1 .. 11 : SectionOf(t, n) = SectionOf(u, n)
  BY <1>4, SectionsAlike
<1>6. DOMAIN Sections = 1 .. 11
  BY DEF Sections
<1>7. QED
  BY <1>1, <1>2, <1>5, <1>6 DEF Findings

(* What a report without findings says of the places of the tables.        *)
LEMMA NothingBroken ==
  ASSUME NEW t, Findings(t, 11) = {}
  PROVE  /\ \A i \in DOMAIN t.modules : ModuleRules(t, i) = {}
         /\ \A i \in DOMAIN t.functions : FunctionRules(t, i) = {}
         /\ \A i \in DOMAIN t.includes : IncludeRules(t, i) = {}
<1>1. ASSUME NEW n \in 1 .. 11, NEW i \in DOMAIN t[Sections[n]]
      PROVE  Broken(t, n, i) = {}
  <2>1. ASSUME NEW r \in Broken(t, n, i)
        PROVE  FALSE
    <3>1. [rule |-> r, place |-> Place(t, n, i)] \in SectionOf(t, n)
      BY DEF SectionOf
    <3>2. QED
      BY <3>1 DEF Findings
  <2>2. QED
    BY <2>1
<1>2. \A i \in DOMAIN t[Sections[1]] : Broken(t, 1, i) = {}
  BY <1>1
<1>3. \A i \in DOMAIN t[Sections[2]] : Broken(t, 2, i) = {}
  BY <1>1
<1>4. \A i \in DOMAIN t[Sections[5]] : Broken(t, 5, i) = {}
  BY <1>1
<1>5. QED
  BY <1>2, <1>3, <1>4 DEF Broken, Sections

LEMMA CleanIncludes ==
  ASSUME NEW t, Holds(t, Modules, Paths, Facts), Findings(t, 11) = {},
         NEW f \in Facts, f.kind = "INCLUDE", f.local
  PROVE  /\ \E m \in Modules : Target(f) = Module(m)
         /\ LayerAllows(f)
         /\ Target(f) # Module(ModuleOf(f.path)) =>
              ~ \E g \in Facts :
                  /\ g.kind = "INCLUDE" /\ g.local
                  /\ Module(ModuleOf(g.path)) = Target(f)
                  /\ Target(g) = Module(ModuleOf(f.path))
<1>1. PICK s : s = t.includes
  OBVIOUS
<1>2. ASSUME NEW g \in Facts, g.kind = "INCLUDE"
      PROVE  g \in ToSet(s)
  <2>1. g \in Kept(Facts, "includes")
    BY <1>2 DEF Kept, Recorded, TableOf
  <2>2. QED
    BY <1>1, <2>1 DEF Holds, NoneLost, KeptWhole
<1>3. PICK i \in DOMAIN s : s[i] = f
  BY <1>2 DEF ToSet
<1>4. IncludeRules(t, i) = {}
  BY <1>1, <1>3, NothingBroken
<1>5. /\ "INCLUDE_CYCLE" \notin IncludeRules(t, i)
      /\ "MISSING_INCLUDE_TARGET" \notin IncludeRules(t, i)
      /\ "LAYER_VIOLATION" \notin IncludeRules(t, i)
  BY <1>4
<1>6. \E k \in DOMAIN t.modules : Module(t.modules[k].name) = Target(f)
  BY <1>1, <1>3, <1>5 DEF IncludeRules
<1>7. LayerAllows(f)
  BY <1>1, <1>3, <1>5 DEF IncludeRules
<1>8. ~(/\ Target(f) # Module(ModuleOf(f.path))
        /\ \E g \in Includes(t) : /\ Module(ModuleOf(g.path)) = Target(f)
                                  /\ Target(g) = Module(ModuleOf(f.path)))
  BY <1>1, <1>3, <1>5 DEF IncludeRules
<1>9. \A g \in Facts : g.kind = "INCLUDE" /\ g.local => g \in Includes(t)
  BY <1>1, <1>2 DEF Includes
<1>10. \E m \in Modules : Target(f) = Module(m)
  BY <1>6 DEF Holds, ModulesNamed
<1>11. QED
  BY <1>7, <1>8, <1>9, <1>10

LEMMA CleanModules ==
  ASSUME NEW t, Holds(t, Modules, Paths, Facts), Findings(t, 11) = {}, SitesAgree,
         ~args.library, args \in InputArguments, NEW m \in Modules
  PROVE  /\ Cardinality(PublicAt(m)) <= args.maxPublic
         /\ Cardinality(DefinedAt(m)) <= args.maxFunctions
<1>1. PICK i \in DOMAIN t.modules : t.modules[i].name = m
  BY DEF Holds, ModulesNamed
<1>2. PICK x : x = t.modules[i]
  OBVIOUS
<1>3. ModuleRules(t, i) = {}
  BY NothingBroken
<1>4. ~(x.functions > args.maxFunctions) /\ ~(x.public > args.maxPublic)
  <2>1. /\ "MODULE_SIZE" \notin ModuleRules(t, i)
        /\ "PUBLIC_API_SIZE" \notin ModuleRules(t, i)
    BY <1>3
  <2>2. QED
    BY <1>2, <2>1 DEF ModuleRules
<1>5. x.functions \in Nat /\ x.public \in Nat
  BY <1>2 DEF Holds, Shaped, IsModule, CounterNames
<1>6. args.maxFunctions \in Nat /\ args.maxPublic \in Nat
  BY ArgumentsAssumption
<1>7. /\ x.functions = Cardinality(DefinedAt(m))
      /\ x.public = Cardinality(PublicAt(m))
  BY <1>1, <1>2, FunctionsAre DEF Holds, Counted
<1>8. QED
  BY <1>4, <1>5, <1>6, <1>7

LEMMA CleanFunctions ==
  ASSUME NEW t, Holds(t, Modules, Paths, Facts), Findings(t, 11) = {}, SitesAgree,
         ~args.library, NEW f \in OfTable("functions")
  PROVE  /\ ~f.definition =>
              \E g \in OfTable("functions") :
                g.definition /\ ~g.static /\ g.usr = f.usr
         /\ f.definition /\ ~f.static /\ f.usr # MainUsr =>
              \/ \E g \in OfTable("functions") : ~g.definition /\ g.usr = f.usr
              \/ \E c \in Facts : c.kind = "CALL" /\ c.usr = f.usr
                                    /\ ModuleOf(c.path) # ModuleOf(f.path)
<1>1. PICK s : s = t.functions
  OBVIOUS
<1>2. ToSet(s) = OfTable("functions")
  BY <1>1, FunctionsAre
<1>3. PICK i \in DOMAIN s : s[i] = f
  BY <1>2 DEF ToSet
<1>4. FunctionRules(t, i) = {}
  BY <1>1, <1>3, NothingBroken
<1>5. /\ "UNUSED_PUBLIC_FUNCTION" \notin FunctionRules(t, i)
      /\ "DECLARATION_WITHOUT_DEFINITION" \notin FunctionRules(t, i)
  BY <1>4
<1>6. ~f.definition => Defined(t, f)
  BY <1>1, <1>3, <1>5 DEF FunctionRules
<1>7. f.definition /\ ~f.static /\ f.usr # MainUsr =>
        Declared(t, f) \/ FunctionUsedOutside(t, f)
  BY <1>1, <1>3, <1>5 DEF FunctionRules
<1>8. \A c \in ToSet(t.calls) : c \in Facts /\ c.kind = "CALL"
  <2>1. ToSet(t["calls"]) \subseteq Kept(Facts, "calls")
    BY DEF Holds, NoneInvented, FactTables
  <2>2. QED
    BY <2>1, TableIs DEF Kept
<1>9. QED
  BY <1>1, <1>2, <1>6, <1>7, <1>8 DEF Defined, Declared, FunctionUsedOutside

LEMMA CleanIsEarned ==
  ASSUME MapInv, VerdictIsOfTheReport
  PROVE  CleanMapIsEarned
<1> SUFFICES ASSUME Reported, status = Success, SitesAgree
             PROVE  CleanMapIsEarned
  BY DEF CleanMapIsEarned
<1> DEFINE functions == OfTable("functions")
           public    == {f \in functions : f.definition /\ ~f.static}
           includes  == {f \in Facts : f.kind = "INCLUDE" /\ f.local}
           edge(m, n) == \E f \in includes : ModuleOf(f.path) = m /\ Target(f) = Module(n)
           modules   == {ModuleOf(f.path) : f \in Facts}
<1>1. PICK t : t = tables
  OBVIOUS
<1>2. /\ Holds(t, Modules, Paths, Facts) /\ WholeInput(DOMAIN stream.copies)
      /\ Findings(t, 11) = {} /\ args \in InputArguments
  BY <1>1, ReportedMeans DEF VerdictIsOfTheReport
<1>3. modules = Modules
  BY DEF Modules, Paths
<1>4. /\ \A r \in DOMAIN stream.copies : r.is \notin {"diagnostic", "invalid"}
      /\ args.facts => \E r \in DOMAIN stream.copies : r.is \in {"fact", "pathless"}
  BY <1>2, ReportedMeans DEF WholeInput, SomeFact
<1>5. \A f \in includes :
        /\ \E m \in modules : Target(f) = Module(m)
        /\ LayerAllows(f)
  BY <1>2, <1>3, CleanIncludes
<1>6. ASSUME NEW m \in modules, NEW n \in modules, edge(m, n), edge(n, m), m # n
      PROVE  FALSE
  <2>1. PICK f \in includes : ModuleOf(f.path) = m /\ Target(f) = Module(n)
    BY <1>6
  <2>2. PICK g \in includes : ModuleOf(g.path) = n /\ Target(g) = Module(m)
    BY <1>6
  <2>3. Module(m) # Module(n)
    BY <1>6 DEF Module
  <2>4. QED
    BY <1>2, <2>1, <2>2, <2>3, CleanIncludes
<1>7. ASSUME ~args.library
      PROVE  /\ \A m \in modules :
                  LET here == {f \in functions : ModuleOf(f.path) = m} IN
                  /\ Cardinality(here \cap public) <= args.maxPublic
                  /\ Cardinality({f \in here : f.definition}) <= args.maxFunctions
             /\ \A f \in functions \ public : ~f.definition =>
                  \E g \in public : g.usr = f.usr
             /\ \A f \in public : f.usr # MainUsr =>
                  \/ \E g \in functions : ~g.definition /\ g.usr = f.usr
                  \/ \E c \in Facts : c.kind = "CALL" /\ c.usr = f.usr
                                        /\ ModuleOf(c.path) # ModuleOf(f.path)
  <2>1. ASSUME NEW m \in modules
        PROVE  LET here == {f \in functions : ModuleOf(f.path) = m} IN
               /\ Cardinality(here \cap public) <= args.maxPublic
               /\ Cardinality({f \in here : f.definition}) <= args.maxFunctions
    <3> DEFINE here == {f \in functions : ModuleOf(f.path) = m}
    <3>1. here \cap public = PublicAt(m) /\ {f \in here : f.definition} = DefinedAt(m)
      BY DEF PublicAt, DefinedAt
    <3>2. QED
      BY <1>2, <1>3, <1>7, <3>1, CleanModules
  <2>2. ASSUME NEW f \in functions, ~f.definition
        PROVE  \E g \in public : g.usr = f.usr
    BY <1>2, <1>7, <2>2, CleanFunctions
  <2>3. ASSUME NEW f \in public, f.usr # MainUsr
        PROVE  \/ \E g \in functions : ~g.definition /\ g.usr = f.usr
               \/ \E c \in Facts : c.kind = "CALL" /\ c.usr = f.usr
                                     /\ ModuleOf(c.path) # ModuleOf(f.path)
    BY <1>2, <1>7, <2>3, CleanFunctions
  <2>4. QED
    BY <2>1, <2>2, <2>3
<1>8. QED
  BY <1>4, <1>5, <1>6, <1>7 DEF CleanMapIsEarned

(* A report with status 0 or 1 says what the facts say: the order they     *)
(* came in, a header parsed once for each source and the sizes of the      *)
(* tables leave no trace in it, but for the notes past a full table and    *)
(* for contradictory facts about one site (model_mutation.c, report.c).    *)
THEOREM ReportExact == Spec => []ReportIsOfTheFacts
BY ReportIsExact, MapInvariant, VerdictAgrees, PTL

(* Status 0 of audit-modules is earned by the facts that were delivered,   *)
(* not by its tables (the rules of report.c on top of the lookups of       *)
(* model_query.c).  A saved line too long for the buffer delivers none.    *)
THEOREM CleanEarned == Spec => []CleanMapIsEarned
BY CleanIsEarned, MapInvariant, VerdictAgrees, PTL
=============================================================================
