------------------------- MODULE WrapperJudgeProofs -------------------------
(***************************************************************************)
(* Theorems about WrapperJudge, for every list of facts, inventory and set *)
(* of allow rules that satisfies WrapperAssumption and JudgeAssumption,    *)
(* and about Instrumentation, for every list of facts, every hash function *)
(* and every size of table that InstrumentationAssumption admits.          *)
(***************************************************************************)
EXTENDS WrapperJudge, Instrumentation, FiniteSetTheorems, TLAPS

(* A set of array positions that is not empty has a first one: of the      *)
(* initial segments up to its members one is the smallest.                 *)
LEMMA FirstIsIn ==
  ASSUME NEW positions \in SUBSET Nat, positions # {}
  PROVE  /\ First(positions) \in positions
         /\ \A j \in positions : First(positions) <= j
<1> DEFINE Segments == {0 .. i : i \in positions}
<1>1. Segments \subseteq FiniteSubsetsOf(Nat) /\ Segments # {}
  <2>1. \A i \in Nat : IsFiniteSet(0 .. i) /\ 0 .. i \in SUBSET Nat
    BY FS_Interval
  <2>2. QED
    BY <2>1, Zenon DEF FiniteSubsetsOf
<1>2. PICK T \in Segments :
        \A U \in Segments : ~ (<<U, T>> \in StrictSubsetOrdering(Nat))
  BY <1>1, FS_StrictSubsetOrderingWellFounded, WFMin
<1>3. PICK i \in positions : T = 0 .. i
  OBVIOUS
<1>4. \A j \in positions : i <= j
  <2> SUFFICES ASSUME NEW j \in positions, j < i PROVE FALSE
    OBVIOUS
  <2>1. 0 .. j \subseteq T /\ i \in T /\ i \notin 0 .. j
    BY <1>3
  <2>2. 0 .. j \in Segments /\ 0 .. j \subseteq Nat /\ T \subseteq Nat
    BY <1>3
  <2>3. QED
    BY <1>2, <2>1, <2>2 DEF StrictSubsetOrdering
<1>5. QED
  BY <1>4 DEF First

(* A search returns 0 exactly when nothing is found.                       *)
LEMMA FirstIsZero ==
  ASSUME NEW positions, positions \subseteq Nat \ {0}
  PROVE  /\ First(positions) = 0 <=> positions = {}
         /\ First(positions) # 0 => First(positions) \in positions
<1>1. CASE positions = {}
  BY <1>1 DEF First
<1>2. CASE positions # {}
  <2>1. First(positions) \in positions
    BY <1>2, FirstIsIn
  <2>2. QED
    BY <1>2, <2>1
<1>3. QED
  BY <1>1, <1>2

-----------------------------------------------------------------------------
(* The types of the judgement's state.                                     *)

Identities == Texts \cup {MacroIdentity[n] : n \in Texts}
JudgedFinding ==
  [kind : {"PORTABILITY", "INDIRECT", "MISSED", "EXTERNAL"}, path : Texts,
   line : Nat, column : Nat, name : Texts, replacement : Texts,
   identity : Identities]

JudgeTypeOK ==
  /\ stage \in {"judge", "rules", "report", "exit"}
  /\ err \in BOOLEAN
  /\ facts \in Seq(Fact)
  /\ \A n \in DOMAIN facts : facts[n].path \in Paths
                             /\ (facts[n].indirect => facts[n].kind = "CALL")
  /\ inventory \in Seq(Mapping)
  /\ findings \in Seq(JudgedFinding)
  /\ arguments \in Arguments
  /\ next \in Nat \ {0}
  /\ uses \in [DOMAIN arguments.rules -> Nat]

LEMMA FactFields ==
  ASSUME NEW f \in Fact
  PROVE  /\ f.kind \in Kinds /\ f.path \in Texts /\ f.name \in Texts
         /\ f.usr \in Texts /\ f.callerUsr \in Texts
         /\ f.line \in Nat /\ f.column \in Nat
         /\ f.indirect \in BOOLEAN
BY DEF Fact

LEMMA EntryFields ==
  ASSUME JudgeTypeOK, NEW w \in DOMAIN inventory
  PROVE  /\ inventory[w].originalUsr \in Texts
         /\ inventory[w].wrapper \in Texts
<1>1. inventory[w] \in Mapping
  BY DEF JudgeTypeOK
<1>2. QED
  BY <1>1 DEF Mapping

(* find_wrapper returns an entry for the function or none.                 *)
LEMMA WrapperFound ==
  ASSUME JudgeTypeOK, NEW f
  PROVE  /\ FindWrapper(f) # 0 =>
              FindWrapper(f) \in DOMAIN inventory
              /\ IsFor(inventory[FindWrapper(f)], f)
         /\ WrapperOf(f) # 0 => WrapperOf(f) \in DOMAIN inventory
<1> DEFINE here == {i \in DOMAIN inventory : IsFor(inventory[i], f)}
<1>1. here \subseteq Nat \ {0}
  BY DEF JudgeTypeOK
<1>2. FindWrapper(f) = First(here)
  BY DEF FindWrapper
<1> HIDE DEF here
<1>3. FindWrapper(f) # 0 => FindWrapper(f) \in here
  BY <1>1, <1>2, FirstIsZero
<1>4. QED
  BY <1>3 DEF here, WrapperOf

LEMMA IdentityType ==
  ASSUME JudgeTypeOK, NEW f \in Fact, NEW w,
         w # 0 => w \in DOMAIN inventory
  PROVE  CalleeIdentity(f, w) \in Identities
<1>1. CanonicalUsr(f.usr) \in Texts
  BY FactFields, WrapperAssumption DEF CanonicalUsr
<1>2. \A u \in Texts : u \in DOMAIN TypeIdentity => TypeIdentity[u] \in Texts
  BY WrapperAssumption
<1>3. w # 0 => inventory[w].originalUsr \in Texts
  BY EntryFields
<1>4. MacroIdentity[f.name] \in Identities
  BY FactFields DEF Identities
<1>5. QED
  BY <1>1, <1>2, <1>3, <1>4 DEF CalleeIdentity, Identities

(* A rule's position in the rules, or none.                                *)
LEMMA RuleFound ==
  ASSUME JudgeTypeOK, NEW f, NEW w
  PROVE  /\ CoveringRule(f, w) = 0 <=>
              \A r \in DOMAIN arguments.rules :
                ~RuleCovers(arguments.rules[r], f, w)
         /\ CoveringRule(f, w) # 0 =>
              CoveringRule(f, w) \in DOMAIN arguments.rules
              /\ RuleCovers(arguments.rules[CoveringRule(f, w)], f, w)
<1> DEFINE here == {r \in DOMAIN arguments.rules :
                      RuleCovers(arguments.rules[r], f, w)}
<1>1. here \subseteq Nat \ {0}
  <2>1. arguments.rules \in Seq(Rule)
    BY DEF JudgeTypeOK, Arguments
  <2>2. QED
    BY <2>1
<1>2. CoveringRule(f, w) = First(here)
  BY DEF CoveringRule
<1> HIDE DEF here
<1>3. /\ CoveringRule(f, w) = 0 <=> here = {}
      /\ CoveringRule(f, w) # 0 => CoveringRule(f, w) \in here
  BY <1>1, <1>2, FirstIsZero
<1>4. QED
  BY <1>3 DEF here

(* The position whose permission counts is one of the facts.               *)
LEMMA PermissionFound ==
  ASSUME JudgeTypeOK, NEW i \in DOMAIN facts, PermittedBy(i) # 0
  PROVE  /\ PermittedBy(i) \in DOMAIN facts
         /\ Allowed(facts[PermittedBy(i)],
                    FindWrapper(facts[PermittedBy(i)]))
<1> DEFINE f == facts[i]
           here == {k \in DOMAIN facts :
             /\ IsExpansion(facts[k]) /\ facts[k].path = f.path
             /\ facts[k].callerUsr = f.callerUsr
             /\ f.start <= facts[k].start /\ facts[k].end <= f.end
             /\ FindWrapper(facts[k]) # 0
             /\ Allowed(facts[k], FindWrapper(facts[k]))}
<1>1. CASE Allowed(f, FindWrapper(f))
  BY <1>1 DEF PermittedBy
<1>2. CASE ~Allowed(f, FindWrapper(f))
  <2>1. PermittedBy(i) = First(here)
    BY <1>2 DEF PermittedBy, SurroundedMacro
  <2>2. here \subseteq Nat \ {0}
    BY DEF JudgeTypeOK
  <2> HIDE DEF here
  <2>3. PermittedBy(i) \in here
    BY <2>1, <2>2, FirstIsZero
  <2>4. QED
    BY <2>3 DEF here
<1>3. QED
  BY <1>1, <1>2

LEMMA TypeInit == Init => JudgeTypeOK
<1> SUFFICES ASSUME Init PROVE JudgeTypeOK
  OBVIOUS
<1>1. /\ facts \in Seq(Fact) /\ inventory \in Seq(Mapping)
      /\ arguments \in Arguments
      /\ \A n \in DOMAIN facts :
           facts[n].path \in Paths
           /\ (facts[n].indirect => facts[n].kind = "CALL")
  BY JudgeAssumption DEF Init
<1>2. uses \in [DOMAIN arguments.rules -> Nat]
  BY DEF Init
<1>3. findings \in Seq(JudgedFinding)
  BY DEF Init
<1>4. stage \in {"judge", "rules", "report", "exit"} /\ err \in BOOLEAN
  BY Zenon DEF Init
<1>5. next \in Nat \ {0}
  BY DEF Init
<1>6. QED
  BY <1>1, <1>2, <1>3, <1>4, <1>5, Zenon DEF JudgeTypeOK

(* What adding a finding does.                                             *)
LEMMA Added ==
  ASSUME JudgeTypeOK, NEW f \in Fact,
         NEW kind \in {"PORTABILITY", "INDIRECT", "MISSED", "EXTERNAL"},
         NEW replacement \in Texts, NEW identity \in Identities,
         AddFinding(kind, f, replacement, identity)
  PROVE  LET new == [kind |-> kind, path |-> f.path, line |-> f.line,
                     column |-> f.column, name |-> f.name,
                     replacement |-> replacement, identity |-> identity]
         IN /\ new \in JudgedFinding
            /\ \/ /\ \E n \in DOMAIN findings : SamePlace(findings[n], f)
                  /\ next' = next + 1 /\ UNCHANGED <<stage, err, findings>>
               \/ /\ ~ \E n \in DOMAIN findings : SamePlace(findings[n], f)
                  /\ findings' = Append(findings, new)
                  /\ next' = next + 1 /\ UNCHANGED <<stage, err>>
               \/ /\ UNCHANGED <<findings, next>>
                  /\ err' = TRUE /\ stage' = "exit"
<1>1. [kind |-> kind, path |-> f.path, line |-> f.line,
       column |-> f.column, name |-> f.name,
       replacement |-> replacement, identity |-> identity] \in JudgedFinding
  BY FactFields DEF JudgedFinding
<1>2. QED
  BY <1>1, Zenon DEF AddFinding, Advance

LEMMA ReplacementType ==
  ASSUME JudgeTypeOK, NEW w, w # 0 => w \in DOMAIN inventory
  PROVE  (IF w = 0 THEN "" ELSE inventory[w].wrapper) \in Texts
BY WrapperAssumption, EntryFields

LEMMA CurrentFact ==
  ASSUME JudgeTypeOK, Judging
  PROVE  /\ next \in DOMAIN facts /\ Current = facts[next]
         /\ Current \in Fact /\ next \in Nat
BY DEF JudgeTypeOK, Judging, Current

(* The two steps that can add a finding, in one form.                      *)
LEMMA FindingStep ==
  ASSUME JudgeTypeOK, JudgeInclude \/ JudgeCrossing
  PROVE  \E kind \in {"PORTABILITY", "INDIRECT", "MISSED", "EXTERNAL"},
            replacement \in Texts, identity \in Identities :
           /\ AddFinding(kind, Current, replacement, identity)
           /\ \/ kind = "PORTABILITY" /\ IsPlatformInclude(Current)
              \/ /\ kind # "PORTABILITY" /\ Crosses(next)
                 /\ identity = CalleeIdentity(Current, WrapperOf(Current))
<1>1. CASE JudgeInclude
  <2>1. "" \in Texts /\ "" \in Identities
    BY WrapperAssumption DEF Identities
  <2>2. QED
    BY <1>1, <2>1 DEF JudgeInclude
<1>2. CASE JudgeCrossing
  <2> DEFINE w == WrapperOf(Current)
  <2>1. Current \in Fact /\ (w # 0 => w \in DOMAIN inventory)
    BY <1>2, CurrentFact, WrapperFound DEF JudgeCrossing
  <2>2. AddFinding(KindOf(Current), Current,
                   IF w = 0 THEN "" ELSE inventory[w].wrapper,
                   CalleeIdentity(Current, w))
    BY <1>2 DEF JudgeCrossing, PrintedIdentity
  <2> HIDE DEF w
  <2>3. /\ (IF w = 0 THEN "" ELSE inventory[w].wrapper) \in Texts
        /\ CalleeIdentity(Current, w) \in Identities
    BY <2>1, ReplacementType, IdentityType
  <2>4. KindOf(Current) \in {"INDIRECT", "MISSED", "EXTERNAL"}
    BY DEF KindOf
  <2>5. Crosses(next)
    BY <1>2 DEF JudgeCrossing
  <2>6. QED
    BY <2>2, <2>3, <2>4, <2>5 DEF w
<1>3. QED
  BY <1>1, <1>2

LEMMA TypeStep == JudgeTypeOK /\ [Next]_vars => JudgeTypeOK'
<1> SUFFICES ASSUME JudgeTypeOK, [Next]_vars PROVE JudgeTypeOK'
  OBVIOUS
<1>1. CASE JudgeInclude \/ JudgeCrossing
  <2>1. /\ UNCHANGED <<facts, inventory, arguments, uses>>
        /\ Current \in Fact
    BY <1>1, CurrentFact DEF JudgeInclude, JudgeCrossing
  <2>2. PICK kind \in {"PORTABILITY", "INDIRECT", "MISSED", "EXTERNAL"},
             replacement \in Texts, identity \in Identities :
               AddFinding(kind, Current, replacement, identity)
    BY <1>1, FindingStep
  <2>3. /\ findings' \in Seq(JudgedFinding) /\ next' \in Nat \ {0}
        /\ stage' \in {"judge", "rules", "report", "exit"}
        /\ err' \in BOOLEAN
    <3>1. PICK new \in JudgedFinding :
            \/ next' = next + 1 /\ UNCHANGED <<stage, err, findings>>
            \/ /\ findings' = Append(findings, new)
               /\ next' = next + 1 /\ UNCHANGED <<stage, err>>
            \/ /\ UNCHANGED <<findings, next>>
               /\ err' = TRUE /\ stage' = "exit"
      BY <2>1, <2>2, Added
    <3>2. findings \in Seq(JudgedFinding) /\ next \in Nat \ {0}
          /\ stage \in {"judge", "rules", "report", "exit"}
          /\ err \in BOOLEAN
      BY DEF JudgeTypeOK
    <3>3. findings' \in Seq(JudgedFinding) /\ next' \in Nat \ {0}
      BY <3>1, <3>2
    <3>4. QED
      BY <3>1, <3>2, <3>3, Zenon
  <2>4. QED
    BY <2>1, <2>3 DEF JudgeTypeOK
<1>2. CASE JudgePassBy \/ JudgeImplementation
  BY <1>2 DEF JudgePassBy, JudgeImplementation, Advance, modelVars, JudgeTypeOK
<1>3. CASE JudgeAllowed
  <2>1. PermittedBy(next) \in DOMAIN facts
    BY <1>3, CurrentFact, PermissionFound DEF JudgeAllowed
  <2>2. uses' \in [DOMAIN arguments.rules -> Nat]
    <3> DEFINE f == facts[PermittedBy(next)]
               r == RuleUsed(f, FindWrapper(f))
    <3>1. r # 0 => r \in DOMAIN arguments.rules
      BY RuleFound DEF RuleUsed
    <3>2. uses' = IF r = 0 THEN uses ELSE [uses EXCEPT ![r] = @ + 1]
      BY <1>3 DEF JudgeAllowed, CountUse
    <3> HIDE DEF r
    <3>3. QED
      BY <3>1, <3>2 DEF JudgeTypeOK
  <2>3. QED
    BY <1>3, <2>2 DEF JudgeAllowed, Advance, modelVars, JudgeTypeOK
<1>4. CASE JudgeEnd
  BY <1>4 DEF JudgeEnd, modelVars, judgeVars, JudgeTypeOK
<1>5. CASE CheckRules
  <2>1. err' \in BOOLEAN /\ stage' \in {"report", "exit"}
    BY <1>5 DEF CheckRules
  <2>2. QED
    BY <1>5, <2>1 DEF CheckRules, modelVars, judgeVars, JudgeTypeOK
<1>6. CASE UNCHANGED vars
  BY <1>6 DEF vars, modelVars, judgeVars, JudgeTypeOK
<1>7. QED
  BY <1>1, <1>2, <1>3, <1>4, <1>5, <1>6 DEF Next, Judge, Stopped

(* The judgement keeps its index, its findings and its use counts in the   *)
(* ranges their arrays have.                                               *)
THEOREM TypeCorrect == Spec => []JudgeTypeOK
BY TypeInit, TypeStep, PTL DEF Spec

-----------------------------------------------------------------------------
(* The findings.                                                           *)

(* Why the finding at n was made.                                          *)
Reason(n, i) ==
  /\ Reported(facts[i], n)
  /\ IF findings[n].kind = "PORTABILITY" THEN IsPlatformInclude(facts[i])
     ELSE /\ Crosses(i)
          /\ findings[n].identity = CalleeIdentity(facts[i], WrapperOf(facts[i]))

(* The strengthening: every finding still has its reason among the facts   *)
(* behind the loop.                                                        *)
FindingsInv ==
  /\ next <= Len(facts) + 1
  /\ \A i \in 1 .. next - 1 :
       IsPlatformInclude(facts[i]) \/ Crosses(i) =>
         \E n \in DOMAIN findings : Reported(facts[i], n)
  /\ \A n \in DOMAIN findings : \E i \in 1 .. next - 1 : Reason(n, i)
  /\ \A n, m \in DOMAIN findings : Reported(findings[m], n) => n = m

(* What is asked of a fact does not depend on the findings.                *)
LEMMA SameQuestions ==
  ASSUME UNCHANGED <<facts, inventory, arguments>>
  PROVE  \A i : /\ IsPlatformInclude(facts[i])' <=> IsPlatformInclude(facts[i])
                /\ Crosses(i)' <=> Crosses(i)
                /\ CalleeIdentity(facts[i], WrapperOf(facts[i]))'
                     = CalleeIdentity(facts[i], WrapperOf(facts[i]))
BY DEF IsPlatformInclude, Crosses, IsOperation, Exempt, CallsWrapper, IsLocal,
   IsErrnoLowering, PermittedBy, SurroundedMacro, Allowed, AllowedWithoutRule,
   IsTheWrap, AllowedUsrs, CoveringRule, RuleCovers, IsImplementation,
   WrapperOf, FindWrapper, CalleeIdentity, SemanticCaller, Enclosing

LEMMA FindingsInit == Init => FindingsInv
<1> SUFFICES ASSUME Init PROVE FindingsInv
  OBVIOUS
<1>1. Len(facts) \in Nat
  BY TypeInit DEF JudgeTypeOK
<1>2. QED
  BY <1>1 DEF Init, FindingsInv

(* A fact that is passed by has nothing to be reported.                    *)
LEMMA PassedFacts ==
  ASSUME JudgePassBy \/ JudgeAllowed \/ JudgeImplementation
  PROVE  ~IsPlatformInclude(facts[next]) /\ ~Crosses(next)
<1>1. IsOperation(Current) => ~IsPlatformInclude(Current)
  BY DEF IsOperation, IsPlatformInclude, IsExpansion
<1>2. QED
  BY <1>1
  DEF JudgePassBy, JudgeAllowed, JudgeImplementation, PassBy, Crosses, Current

LEMMA QuietStep ==
  ASSUME JudgeTypeOK, FindingsInv,
         UNCHANGED <<facts, inventory, arguments, findings>>,
         \/ next' = next
         \/ /\ next' = next + 1 /\ next \in DOMAIN facts
            /\ ~IsPlatformInclude(facts[next]) /\ ~Crosses(next)
  PROVE  FindingsInv'
<1>1. next \in Nat \ {0} /\ Len(facts) \in Nat /\ DOMAIN facts = 1 .. Len(facts)
  BY DEF JudgeTypeOK
<1>2. \A n, i : Reason(n, i)' <=> Reason(n, i)
  BY SameQuestions DEF Reason, Reported
<1>3. \A n, i : Reported(facts[i], n)' <=> Reported(facts[i], n)
  BY DEF Reported
<1>4. /\ next' \in Nat /\ next <= next' /\ next' <= Len(facts) + 1
      /\ \A i \in 1 .. next' - 1 : i \in 1 .. next - 1 \/ (i = next /\ next' # next)
      /\ \A i \in 1 .. next - 1 : i \in 1 .. next' - 1
  BY <1>1 DEF FindingsInv
<1>5. \A i \in 1 .. next' - 1 :
        (IsPlatformInclude(facts[i]) \/ Crosses(i))' =>
          \E n \in DOMAIN findings' : Reported(facts[i], n)'
  BY <1>3, <1>4, SameQuestions DEF FindingsInv
<1>6. \A n \in DOMAIN findings' : \E i \in 1 .. next' - 1 : Reason(n, i)'
  BY <1>2, <1>4 DEF FindingsInv
<1>7. \A n, m \in DOMAIN findings' : Reported(findings[m], n)' => n = m
  BY DEF FindingsInv, Reported
<1>8. QED
  BY <1>4, <1>5, <1>6, <1>7 DEF FindingsInv

(* A finding is added, or is there already.                                *)
LEMMA ReportingStep ==
  ASSUME JudgeTypeOK, FindingsInv, JudgeInclude \/ JudgeCrossing
  PROVE  FindingsInv'
<1>1. /\ UNCHANGED <<facts, inventory, arguments>>
      /\ next \in DOMAIN facts /\ Current = facts[next] /\ Current \in Fact
  BY CurrentFact DEF JudgeInclude, JudgeCrossing
<1>2. /\ next \in Nat \ {0} /\ Len(facts) \in Nat
      /\ DOMAIN facts = 1 .. Len(facts) /\ next <= Len(facts)
      /\ DOMAIN findings = 1 .. Len(findings) /\ Len(findings) \in Nat
  BY <1>1 DEF JudgeTypeOK
<1>3. PICK kind \in {"PORTABILITY", "INDIRECT", "MISSED", "EXTERNAL"},
           replacement \in Texts, identity \in Identities :
             /\ AddFinding(kind, Current, replacement, identity)
             /\ \/ kind = "PORTABILITY" /\ IsPlatformInclude(Current)
                \/ /\ kind # "PORTABILITY" /\ Crosses(next)
                   /\ identity = CalleeIdentity(Current, WrapperOf(Current))
  BY FindingStep
<1> DEFINE new == [kind |-> kind, path |-> Current.path,
                   line |-> Current.line, column |-> Current.column,
                   name |-> Current.name, replacement |-> replacement,
                   identity |-> identity]
<1>4. \/ /\ \E n \in DOMAIN findings : SamePlace(findings[n], Current)
         /\ next' = next + 1 /\ findings' = findings
      \/ /\ ~ \E n \in DOMAIN findings : SamePlace(findings[n], Current)
         /\ findings' = Append(findings, new)
         /\ next' = next + 1
      \/ findings' = findings /\ next' = next
  BY <1>1, <1>3, Added
<1>5. CASE findings' = findings /\ next' = next
  BY <1>1, <1>5, QuietStep
<1>6. \A i \in 1 .. (next + 1) - 1 : i \in 1 .. next - 1 \/ i = next
  BY <1>2
<1>7. CASE /\ \E n \in DOMAIN findings : SamePlace(findings[n], Current)
           /\ next' = next + 1 /\ findings' = findings
  <2>1. \A n, i : Reason(n, i)' <=> Reason(n, i)
    BY <1>1, <1>7, SameQuestions DEF Reason, Reported
  <2>2. \A n, i : Reported(facts[i], n)' <=> Reported(facts[i], n)
    BY <1>1, <1>7 DEF Reported
  <2>3. \E n \in DOMAIN findings : Reported(facts[next], n)
    BY <1>1, <1>7 DEF SamePlace, Reported
  <2>4. \A i \in 1 .. next' - 1 :
          (IsPlatformInclude(facts[i]) \/ Crosses(i))' =>
            \E n \in DOMAIN findings' : Reported(facts[i], n)'
    <3> SUFFICES ASSUME NEW i \in 1 .. next' - 1,
                        (IsPlatformInclude(facts[i]) \/ Crosses(i))'
                 PROVE  \E n \in DOMAIN findings' : Reported(facts[i], n)'
      OBVIOUS
    <3>1. IsPlatformInclude(facts[i]) \/ Crosses(i)
      BY <1>1, SameQuestions
    <3>2. \E n \in DOMAIN findings : Reported(facts[i], n)
      BY <1>6, <1>7, <2>3, <3>1 DEF FindingsInv
    <3>3. QED
      BY <1>7, <2>2, <3>2
  <2>5. \A n \in DOMAIN findings' : \E i \in 1 .. next' - 1 : Reason(n, i)'
    <3>1. \A i \in 1 .. next - 1 : i \in 1 .. next' - 1
      BY <1>2, <1>7
    <3>2. QED
      BY <1>7, <2>1, <3>1 DEF FindingsInv
  <2>6. \A n, m \in DOMAIN findings' : Reported(findings[m], n)' => n = m
    BY <1>7 DEF FindingsInv, Reported
  <2>7. next' <= Len(facts') + 1
    BY <1>1, <1>2, <1>7
  <2>8. QED
    BY <2>4, <2>5, <2>6, <2>7 DEF FindingsInv
<1>8. CASE /\ ~ \E n \in DOMAIN findings : SamePlace(findings[n], Current)
           /\ findings' = Append(findings, new)
           /\ next' = next + 1
  <2>0. PICK last, here : last = Len(findings) + 1 /\ here = next
    OBVIOUS
  <2>1. /\ DOMAIN findings' = DOMAIN findings \cup {last}
        /\ last \notin DOMAIN findings
        /\ \A n \in DOMAIN findings : findings'[n] = findings[n]
        /\ findings'[last] = new
    <3> HIDE DEF new
    <3>1. findings \in Seq(JudgedFinding)
      BY DEF JudgeTypeOK
    <3>2. QED
      BY <2>0, <1>2, <1>8, <3>1
  <2>2. \A n \in DOMAIN findings : \A i :
          /\ Reason(n, i)' <=> Reason(n, i)
          /\ Reported(facts[i], n)' <=> Reported(facts[i], n)
    BY <1>1, <2>1, SameQuestions DEF Reason, Reported
  <2>3. Reported(facts[here], last)' /\ Reason(last, here)'
    <3>1. /\ findings'[last].path = facts[here].path
          /\ findings'[last].name = facts[here].name
          /\ findings'[last].line = facts[here].line
          /\ findings'[last].column = facts[here].column
          /\ findings'[last].kind = kind
          /\ findings'[last].identity = identity
      BY <1>1, <2>0, <2>1
    <3>2. QED
      BY <1>1, <1>3, <2>0, <3>1, SameQuestions DEF Reason, Reported
  <2>4. \A i \in 1 .. next' - 1 :
          (IsPlatformInclude(facts[i]) \/ Crosses(i))' =>
            \E n \in DOMAIN findings' : Reported(facts[i], n)'
    <3> SUFFICES ASSUME NEW i \in 1 .. next' - 1,
                        (IsPlatformInclude(facts[i]) \/ Crosses(i))'
                 PROVE  \E n \in DOMAIN findings' : Reported(facts[i], n)'
      OBVIOUS
    <3>1. IsPlatformInclude(facts[i]) \/ Crosses(i)
      BY <1>1, SameQuestions
    <3>2. CASE i = here
      BY <2>1, <2>3, <3>2
    <3>3. CASE i # here
      <4>1. \E n \in DOMAIN findings : Reported(facts[i], n)
        BY <1>6, <1>8, <2>0, <3>1, <3>3 DEF FindingsInv
      <4>2. QED
        BY <2>1, <2>2, <4>1
    <3>4. QED
      BY <3>2, <3>3
  <2>5. \A n \in DOMAIN findings' : \E i \in 1 .. next' - 1 : Reason(n, i)'
    <3>1. here \in 1 .. next' - 1 /\ \A i \in 1 .. next - 1 : i \in 1 .. next' - 1
      BY <1>2, <1>8, <2>0
    <3>2. QED
      BY <2>1, <2>2, <2>3, <3>1 DEF FindingsInv
  <2>6. \A n, m \in DOMAIN findings' : Reported(findings[m], n)' => n = m
    <3>1. \A n \in DOMAIN findings :
            ~ /\ findings[n].path = new.path /\ findings[n].line = new.line
              /\ findings[n].column = new.column /\ findings[n].name = new.name
      BY <1>8 DEF SamePlace
    <3> HIDE DEF new
    <3>2. QED
      BY <2>1, <3>1 DEF FindingsInv, Reported
  <2>7. next' <= Len(facts') + 1
    BY <1>1, <1>2, <1>8
  <2>8. QED
    BY <2>4, <2>5, <2>6, <2>7 DEF FindingsInv
<1>9. QED
  BY <1>4, <1>5, <1>7, <1>8

LEMMA FindingsStep == JudgeTypeOK /\ FindingsInv /\ [Next]_vars => FindingsInv'
<1> SUFFICES ASSUME JudgeTypeOK, FindingsInv, [Next]_vars PROVE FindingsInv'
  OBVIOUS
<1>1. CASE JudgePassBy \/ JudgeAllowed \/ JudgeImplementation
  <2>1. /\ UNCHANGED <<facts, inventory, arguments, findings>>
        /\ next' = next + 1 /\ next \in DOMAIN facts
    BY <1>1, CurrentFact
    DEF JudgePassBy, JudgeAllowed, JudgeImplementation, Advance, modelVars
  <2>2. QED
    BY <1>1, <2>1, PassedFacts, QuietStep
<1>2. CASE JudgeEnd \/ CheckRules \/ UNCHANGED vars
  BY <1>2, QuietStep DEF JudgeEnd, CheckRules, modelVars, judgeVars, vars
<1>3. QED
  BY <1>1, <1>2, ReportingStep DEF Next, Judge, Stopped

THEOREM Findings == Spec => []FindingsInv
BY TypeInit, TypeStep, FindingsInit, FindingsStep, PTL DEF Spec

(* What a crossing says of the call.                                       *)
LEMMA CrossingMeans ==
  ASSUME JudgeTypeOK, NEW i \in DOMAIN facts, Crosses(i)
  PROVE  LET f == facts[i]
             w == FindWrapper(f)
         IN /\ f.kind = "CALL" \/ SemanticCaller(f) # ""
            /\ ~IsLocal(f) /\ ~IsTheWrap(f, w)
            /\ CalleeIdentity(f, w) \notin AllowedUsrs
            /\ \A r \in DOMAIN arguments.rules :
                 ~RuleCovers(arguments.rules[r], f, w)
<1> DEFINE f == facts[i]
           w == FindWrapper(f)
<1>1. (f.kind = "CALL" \/ SemanticCaller(f) # "") /\ ~IsLocal(f)
  BY DEF Crosses, IsOperation, Exempt
<1>2. i # 0
  BY DEF JudgeTypeOK
<1>3. ~Allowed(f, w)
  BY <1>2 DEF Crosses, PermittedBy
<1>4. QED
  BY <1>1, <1>3, RuleFound DEF Allowed, AllowedWithoutRule

(* No call that crosses the boundary is lost to another finding, every     *)
(* finding is about one, and no two are about the same name and place.     *)
THEOREM FindingsExact == Spec => []FindingsAreExact
<1>1. JudgeTypeOK /\ FindingsInv => FindingsAreExact
  <2> SUFFICES ASSUME JudgeTypeOK, FindingsInv PROVE FindingsAreExact
    OBVIOUS
  <2>1. \A i \in 1 .. next - 1 : i \in DOMAIN facts
    BY DEF JudgeTypeOK, FindingsInv
  <2>2. ASSUME NEW n \in DOMAIN findings
        PROVE  \E i \in 1 .. next - 1 :
                 LET f == facts[i]
                     w == FindWrapper(f)
                 IN /\ Reported(f, n)
                    /\ IF findings[n].kind = "PORTABILITY"
                       THEN IsPlatformInclude(f)
                       ELSE /\ f.kind = "CALL" \/ SemanticCaller(f) # ""
                            /\ ~IsLocal(f) /\ ~IsTheWrap(f, w)
                            /\ CalleeIdentity(f, w) \notin AllowedUsrs
                            /\ \A r \in DOMAIN arguments.rules :
                                 ~RuleCovers(arguments.rules[r], f, w)
    <3>1. PICK i \in 1 .. next - 1 : Reason(n, i)
      BY DEF FindingsInv
    <3>2. QED
      BY <2>1, <3>1, CrossingMeans, Zenon DEF Reason
  <2>3. QED
    BY <2>2, Zenon DEF FindingsInv, FindingsAreExact
<1>2. QED
  BY <1>1, TypeCorrect, Findings, PTL

(* The identity a finding prints, used as the callee of an allow rule,     *)
(* makes that rule cover the very fact the finding is about.               *)
THEOREM IdentityCopyable == Spec => []IdentityIsCopyable
<1>1. JudgeTypeOK /\ FindingsInv => IdentityIsCopyable
  <2> SUFFICES ASSUME JudgeTypeOK, FindingsInv, NEW n \in DOMAIN findings,
                      findings[n].kind # "PORTABILITY"
               PROVE  \E i \in 1 .. next - 1 :
                        /\ Reported(facts[i], n)
                        /\ RuleCovers([paths |-> Paths, callerUsr |-> "",
                                       calleeUsr |-> findings[n].identity],
                                      facts[i], FindWrapper(facts[i]))
    BY DEF IdentityIsCopyable
  <2>1. \A i \in 1 .. next - 1 : i \in DOMAIN facts
    BY DEF JudgeTypeOK, FindingsInv
  <2>2. PICK i \in 1 .. next - 1 :
          /\ Reported(facts[i], n)
          /\ findings[n].identity = CalleeIdentity(facts[i], WrapperOf(facts[i]))
    BY DEF FindingsInv, Reason
  <2>3. CalleeIdentity(facts[i], WrapperOf(facts[i]))
          = CalleeIdentity(facts[i], FindWrapper(facts[i]))
    <3>1. facts[i].indirect => facts[i].kind = "CALL"
      BY <2>1 DEF JudgeTypeOK
    <3>2. QED
      BY <3>1 DEF WrapperOf, CalleeIdentity
  <2>4. facts[i].path \in Paths
    BY <2>1 DEF JudgeTypeOK
  <2>5. QED
    BY <2>2, <2>3, <2>4 DEF RuleCovers
<1>2. QED
  BY <1>1, TypeCorrect, Findings, PTL

-----------------------------------------------------------------------------
(* The allow rules.                                                        *)

(* The rule covers a fact that nothing before the rules had excused.       *)
OfUse(r) ==
  \E i \in DOMAIN facts :
    LET w == FindWrapper(facts[i]) IN
      /\ RuleCovers(arguments.rules[r], facts[i], w)
      /\ ~AllowedWithoutRule(facts[i], w)

(* The strengthening: a use that was counted was one.                      *)
UsesInv ==
  /\ \A r \in DOMAIN arguments.rules : uses[r] > 0 => OfUse(r)
  /\ stage = "report" => AllUsed

LEMMA SameUse ==
  ASSUME UNCHANGED <<facts, inventory, arguments>>
  PROVE  \A r : OfUse(r)' <=> OfUse(r)
BY DEF OfUse, FindWrapper, RuleCovers, AllowedWithoutRule, IsTheWrap,
   CalleeIdentity, AllowedUsrs

LEMMA UsesInit == Init => UsesInv
BY DEF Init, UsesInv

LEMMA UsesStep == JudgeTypeOK /\ UsesInv /\ [Next]_vars => UsesInv'
<1> SUFFICES ASSUME JudgeTypeOK, UsesInv, [Next]_vars PROVE UsesInv'
  OBVIOUS
<1>1. CASE JudgeAllowed
  <2>1. /\ UNCHANGED <<facts, inventory, arguments, stage>>
        /\ stage = "judge" /\ PermittedBy(next) # 0
        /\ CountUse(PermittedBy(next)) /\ next \in DOMAIN facts
    BY <1>1, CurrentFact DEF JudgeAllowed, Judging, modelVars
  <2> DEFINE p == PermittedBy(next)
             w == FindWrapper(facts[p])
             u == RuleUsed(facts[p], w)
  <2>2. p \in DOMAIN facts
    BY <2>1, PermissionFound
  <2>3. u # 0 => /\ u \in DOMAIN arguments.rules
                 /\ RuleCovers(arguments.rules[u], facts[p], w)
                 /\ ~AllowedWithoutRule(facts[p], w)
    BY RuleFound DEF RuleUsed
  <2>4. u # 0 => OfUse(u)
    BY <2>2, <2>3 DEF OfUse
  <2>5. uses' = IF u = 0 THEN uses ELSE [uses EXCEPT ![u] = @ + 1]
    BY <2>1 DEF CountUse
  <2> HIDE DEF u
  <2>6. \A r \in DOMAIN arguments.rules : uses'[r] > 0 => uses[r] > 0 \/ (u # 0 /\ r = u)
    BY <2>5 DEF JudgeTypeOK
  <2>7. \A r \in DOMAIN arguments'.rules : uses'[r] > 0 => OfUse(r)'
    BY <2>1, <2>4, <2>6, SameUse DEF UsesInv
  <2>8. QED
    BY <2>1, <2>7 DEF UsesInv
<1>2. CASE JudgeInclude \/ JudgeCrossing
  <2>1. UNCHANGED <<facts, inventory, arguments, uses>> /\ stage = "judge"
    BY <1>2 DEF JudgeInclude, JudgeCrossing, Judging
  <2>2. stage' \in {"judge", "exit"}
    BY <1>2, <2>1, CurrentFact, FindingStep, Added DEF JudgeInclude, JudgeCrossing
  <2>3. QED
    BY <2>1, <2>2, SameUse DEF UsesInv
<1>3. CASE JudgePassBy \/ JudgeImplementation \/ JudgeEnd
  <2>1. /\ UNCHANGED <<facts, inventory, arguments, uses>>
        /\ stage' # "report"
    BY <1>3
    DEF JudgePassBy, JudgeImplementation, JudgeEnd, Judging, modelVars,
        judgeVars
  <2>2. QED
    BY <2>1, SameUse DEF UsesInv
<1>4. CASE CheckRules
  <2>1. /\ UNCHANGED <<facts, inventory, arguments, uses>>
        /\ stage' = "report" => AllUsed
    BY <1>4 DEF CheckRules, modelVars, judgeVars
  <2>2. QED
    BY <2>1, SameUse DEF UsesInv, AllUsed
<1>5. CASE UNCHANGED vars
  <2>1. UNCHANGED <<facts, inventory, arguments, uses, stage>>
    BY <1>5 DEF vars, modelVars, judgeVars
  <2>2. QED
    BY <2>1, SameUse DEF UsesInv, AllUsed
<1>6. QED
  BY <1>1, <1>2, <1>3, <1>4, <1>5 DEF Next, Judge, Stopped

(* An audit is written only when every allow rule was of use.              *)
THEOREM RulesMatch == Spec => []AuditMeansRulesMatch
<1>1. JudgeTypeOK /\ UsesInv => AuditMeansRulesMatch
  BY DEF JudgeTypeOK, UsesInv, AllUsed, OfUse, AuditMeansRulesMatch
<1>2. QED
  BY <1>1, TypeInit, TypeStep, UsesInit, UsesStep, PTL DEF Spec
-----------------------------------------------------------------------------
(* Instrumentation.                                                        *)

(* First returns the least position, and 0 when there is none.             *)
LEMMA FirstFound ==
  ASSUME NEW positions, positions \subseteq Nat \ {0}
  PROVE  /\ First(positions) = 0 <=> positions = {}
         /\ \A i \in positions :
              First(positions) \in positions /\ First(positions) <= i
<1>1. CASE positions = {}
  BY <1>1 DEF First
<1>2. CASE positions # {}
  BY <1>2, FirstIsIn
<1>3. QED
  BY <1>1, <1>2

-----------------------------------------------------------------------------
(* Probing goes round the whole table.                                     *)

LEMMA Division ==
  ASSUME NEW n \in Nat \ {0}, NEW a \in Int
  PROVE  /\ a % n \in 0 .. n - 1 /\ a \div n \in Int
         /\ a = n * (a \div n) + (a % n)
BY SMT

LEMMA Remainder ==
  ASSUME NEW n \in Nat \ {0}, NEW a \in Int, NEW q \in Int,
         NEW r \in 0 .. n - 1, a = n * q + r
  PROVE  a % n = r
BY SMT

LEMMA EverySlotIsProbed ==
  ASSUME NEW n \in Nat \ {0}, NEW h \in Nat, NEW s \in 0 .. n - 1
  PROVE  \E p \in 0 .. n - 1 : (h + p) % n = s
<1>1. s - h \in Int
  OBVIOUS
<1>2. PICK p \in 0 .. n - 1, q \in Int : s - h = n * q + p
  BY <1>1, Division
<1>3. n * (-q) = -(n * q) /\ n * q \in Int /\ -q \in Int
  OBVIOUS
<1>4. h + p = n * (-q) + s /\ h + p \in Int
  BY <1>2, <1>3
<1>5. (h + p) % n = s
  BY <1>3, <1>4, Remainder
<1>6. QED
  BY <1>5

-----------------------------------------------------------------------------
(* The types.                                                              *)

InstrumentationTypeOK ==
  /\ stage \in {"size", "insert", "notes", "calls", "collected", "exit"}
  /\ err \in BOOLEAN /\ changed \in BOOLEAN
  /\ facts \in Seq(Fact)
  /\ at \in 0 .. Len(facts)
  /\ size \in Nat \ {0}
  /\ slots \in [0 .. size - 1 -> {0} \cup Functions]
  /\ caps \in [DOMAIN facts -> SUBSET Capabilities]

LEMMA FunctionsArePositions ==
  ASSUME InstrumentationTypeOK
  PROVE  /\ Functions \subseteq Nat \ {0} /\ Functions \subseteq DOMAIN facts
         /\ IsFiniteSet(Functions)
         /\ DOMAIN facts = 1 .. Len(facts) /\ Len(facts) \in Nat
         /\ \A i \in DOMAIN facts :
              /\ facts[i].usr \in Texts /\ facts[i].callerUsr \in Texts
              /\ facts[i].name \in Texts
<1>1. DOMAIN facts = 1 .. Len(facts) /\ Len(facts) \in Nat
  BY DEF InstrumentationTypeOK
<1>2. Functions \subseteq 1 .. Len(facts)
  BY <1>1 DEF Functions
<1>3. IsFiniteSet(1 .. Len(facts))
  BY <1>1, FS_Interval
<1>4. IsFiniteSet(Functions)
  BY <1>2, <1>3, FS_Subset
<1>5. \A i \in DOMAIN facts : facts[i] \in Fact
  BY DEF InstrumentationTypeOK
<1>6. \A f \in Fact : f.usr \in Texts /\ f.callerUsr \in Texts /\ f.name \in Texts
  BY DEF Fact
<1>7. QED
  BY <1>1, <1>2, <1>4, <1>5, <1>6

LEMMA ProbedIsSlot ==
  ASSUME InstrumentationTypeOK, NEW usr \in Texts
  PROVE  /\ \A p \in 0 .. size - 1 : ProbedSlot(usr, p) \in 0 .. size - 1
         /\ \A s \in 0 .. size - 1 :
              \E p \in 0 .. size - 1 : ProbedSlot(usr, p) = s
<1>1. Hash[usr] \in Nat /\ size \in Nat \ {0}
  BY InstrumentationAssumption DEF InstrumentationTypeOK
<1>2. \A p \in 0 .. size - 1 : (Hash[usr] + p) % size \in 0 .. size - 1
  <2>1. \A p \in 0 .. size - 1 : Hash[usr] + p \in Int
    BY <1>1
  <2>2. QED
    BY <1>1, <2>1, Division
<1>3. \A s \in 0 .. size - 1 :
        \E p \in 0 .. size - 1 : (Hash[usr] + p) % size = s
  BY <1>1, EverySlotIsProbed
<1>4. QED
  BY <1>2, <1>3 DEF ProbedSlot

(* A probe stops at the first slot it can stop at.                         *)
LEMMA ProbeStops ==
  ASSUME InstrumentationTypeOK, NEW usr \in Texts
  PROVE  \/ /\ ProbeLength(usr) = size
            /\ \A p \in 0 .. size - 1 : ~Stops(usr, p)
         \/ /\ ProbeLength(usr) \in 0 .. size - 1 /\ ProbeLength(usr) # size
            /\ Stops(usr, ProbeLength(usr))
            /\ \A p \in 0 .. size - 1 : Stops(usr, p) => ProbeLength(usr) <= p
<1> DEFINE ends == {p \in 0 .. size - 1 : Stops(usr, p)}
<1>1. size \in Nat
  BY DEF InstrumentationTypeOK
<1>2. ProbeLength(usr) = IF ends = {} THEN size
        ELSE CHOOSE p \in ends : \A q \in ends : p <= q
  BY DEF ProbeLength
<1>3. CASE ends = {}
  BY <1>2, <1>3
<1>4. CASE ends # {}
  <2>1. ends \in SUBSET Nat
    BY <1>1
  <2>2. \E p \in ends : \A q \in ends : p <= q
    BY <1>4, <2>1, FirstIsIn
  <2>3. /\ ProbeLength(usr) \in ends
        /\ \A q \in ends : ProbeLength(usr) <= q
    BY <1>2, <1>4, <2>2
  <2>4. QED
    BY <1>1, <2>3
<1>5. QED
  BY <1>3, <1>4

(* The first definition of a USR.                                          *)
LEMMA DefinitionFound ==
  ASSUME InstrumentationTypeOK
  PROVE  /\ Definition("") = 0
         /\ \A usr : Definition(usr) # 0 =>
              Definition(usr) \in Functions /\ facts[Definition(usr)].usr = usr
         /\ \A i \in Functions :
              Definition(facts[i].usr) # 0 /\ Definition(facts[i].usr) <= i
<1>1. \A usr : {i \in Functions : facts[i].usr = usr} \subseteq Nat \ {0}
  BY FunctionsArePositions
<1>2. {i \in Functions : facts[i].usr = ""} = {}
  BY DEF Functions, IsFunction
<1>3. Definition("") = 0
  BY <1>1, <1>2, FirstFound DEF Definition
<1>4. ASSUME NEW usr, Definition(usr) # 0
      PROVE  Definition(usr) \in Functions /\ facts[Definition(usr)].usr = usr
  <2> DEFINE here == {i \in Functions : facts[i].usr = usr}
  <2>1. here # {} /\ Definition(usr) = First(here)
    BY <1>1, <1>4, FirstFound DEF Definition
  <2>2. First(here) \in here
    BY <1>1, <2>1, FirstFound
  <2>3. QED
    BY <2>1, <2>2
<1>5. ASSUME NEW i \in Functions
      PROVE  Definition(facts[i].usr) # 0 /\ Definition(facts[i].usr) <= i
  <2> DEFINE here == {j \in Functions : facts[j].usr = facts[i].usr}
  <2>1. i \in here /\ here \subseteq Nat \ {0}
        /\ Definition(facts[i].usr) = First(here)
    BY <1>1 DEF Definition
  <2> HIDE DEF here
  <2>2. First(here) # 0 /\ First(here) <= i
    BY <2>1, FirstFound
  <2>3. QED
    BY <2>1, <2>2
<1>6. QED
  BY <1>3, <1>4, <1>5

-----------------------------------------------------------------------------
(* The table.                                                              *)

(* The probe for a USR comes to a slot with that USR before a free one.    *)
Has(usr) ==
  \E p \in 0 .. size - 1 :
    /\ slots[ProbedSlot(usr, p)] # 0
    /\ facts[slots[ProbedSlot(usr, p)]].usr = usr
    /\ \A q \in 0 .. p : slots[ProbedSlot(usr, q)] # 0

AllFree == \A s \in 0 .. size - 1 : slots[s] = 0

(* Every slot holds the first definition of its USR, no definition twice,  *)
(* and a table at least twice as large as the functions are many has,      *)
(* within reach of their probes, every function behind the loop.           *)
TableInv ==
  /\ stage = "size" => AllFree /\ at = 0
  /\ stage \notin {"size", "exit"} => BigEnough
  /\ \A s \in 0 .. size - 1 : slots[s] # 0 =>
       /\ slots[s] = Definition(facts[slots[s]].usr)
       /\ stage = "insert" => slots[s] <= at
  /\ \A s, t \in 0 .. size - 1 : slots[s] = slots[t] /\ slots[s] # 0 => s = t
  /\ stage \notin {"size", "exit"} =>
       \A i \in Functions : (stage = "insert" => i <= at) => Has(facts[i].usr)
  /\ err => stage = "exit" /\ AllFree

(* What depends only on the facts.                                         *)
LEMMA SameFacts ==
  ASSUME facts' = facts
  PROVE  /\ Functions' = Functions /\ Bodies' = Bodies
         /\ \A usr : Definition(usr)' = Definition(usr)
BY DEF Functions, Definition, Bodies

LEMMA InstrumentationTypeInit == CollectInit => InstrumentationTypeOK
<1> SUFFICES ASSUME CollectInit PROVE InstrumentationTypeOK
  OBVIOUS
<1>1. facts \in Seq(Fact) /\ Len(facts) \in Nat
  BY InstrumentationAssumption DEF CollectInit
<1>2. /\ stage \in {"size", "insert", "notes", "calls", "collected", "exit"}
      /\ err \in BOOLEAN /\ changed \in BOOLEAN
  BY Zenon DEF CollectInit
<1>3. at \in 0 .. Len(facts)
  BY <1>1 DEF CollectInit
<1>4. /\ size \in Nat \ {0}
      /\ slots \in [0 .. size - 1 -> {0} \cup Functions]
  BY InstrumentationAssumption DEF CollectInit
<1>5. caps \in [DOMAIN facts -> SUBSET Capabilities]
  BY DEF CollectInit
<1>6. QED
  BY <1>1, <1>2, <1>3, <1>4, <1>5, Zenon DEF InstrumentationTypeOK

(* A table that fits the functions has a free slot or one of any function. *)
LEMMA NeverFull ==
  ASSUME InstrumentationTypeOK, TableInv, BigEnough,
         NEW i \in Functions, \A p \in 0 .. size - 1 : ~Stops(facts[i].usr, p)
  PROVE  FALSE
<1>1. /\ IsFiniteSet(Functions) /\ facts[i].usr \in Texts
      /\ Functions \subseteq Nat \ {0} /\ size \in Nat \ {0}
  BY FunctionsArePositions DEF InstrumentationTypeOK
<1>2. \A s \in 0 .. size - 1 : slots[s] # 0
  BY <1>1, ProbedIsSlot DEF Stops
<1>3. slots \in [0 .. size - 1 -> Functions]
  BY <1>2, Zenon DEF InstrumentationTypeOK
<1>4. IsFiniteSet(0 .. size - 1) /\ Cardinality(0 .. size - 1) = size
  BY <1>1, FS_Interval
<1>5. Cardinality(Functions) < Cardinality(0 .. size - 1)
  <2>1. Cardinality(Functions) \in Nat /\ Cardinality(Functions) # 0
    BY <1>1, FS_CardinalityType, FS_EmptySet
  <2>2. QED
    BY <1>1, <1>4, <2>1 DEF BigEnough
<1>6. \E s, t \in 0 .. size - 1 : s # t /\ slots[s] = slots[t]
  BY <1>1, <1>3, <1>4, <1>5, FS_PigeonHole
<1>7. QED
  BY <1>2, <1>6 DEF TableInv

(* What an insertion does to the table.                                    *)
LEMMA InsertedSlot ==
  ASSUME InstrumentationTypeOK, TableInv, Insert
  PROVE  /\ UNCHANGED <<facts, size, stage, err>>
         /\ at + 1 \in DOMAIN facts /\ at' = at + 1
         /\ \/ ~IsFunction(facts[at + 1]) /\ slots' = slots
            \/ /\ at + 1 \in Functions
               /\ ProbeLength(facts[at + 1].usr) \in 0 .. size - 1
               /\ Stops(facts[at + 1].usr, ProbeLength(facts[at + 1].usr))
               /\ \A p \in 0 .. size - 1 : Stops(facts[at + 1].usr, p) =>
                    ProbeLength(facts[at + 1].usr) <= p
               /\ slots' = [slots EXCEPT
                    ![ProbedSlot(facts[at + 1].usr,
                                 ProbeLength(facts[at + 1].usr))] = Entered(@)]
<1>1. /\ facts' = facts /\ size' = size /\ at' = at + 1 /\ stage = "insert"
      /\ at < Len(facts)
  BY DEF Insert, Looping, modelVars
<1>2. at + 1 \in DOMAIN facts
  BY <1>1 DEF InstrumentationTypeOK
<1>3. CASE ~IsFunction(ThisFact)
  BY <1>1, <1>2, <1>3 DEF Insert, ThisFact
<1>4. CASE IsFunction(ThisFact)
  <2>1. at + 1 \in Functions /\ facts[at + 1].usr \in Texts
    BY <1>2, <1>4, FunctionsArePositions DEF Functions, ThisFact
  <2>2. BigEnough
    BY <1>1 DEF TableInv
  <2>3. /\ ProbeLength(facts[at + 1].usr) \in 0 .. size - 1
        /\ ProbeLength(facts[at + 1].usr) # size
        /\ Stops(facts[at + 1].usr, ProbeLength(facts[at + 1].usr))
        /\ \A p \in 0 .. size - 1 : Stops(facts[at + 1].usr, p) =>
             ProbeLength(facts[at + 1].usr) <= p
    BY <2>1, <2>2, ProbeStops, NeverFull
  <2>4. /\ UNCHANGED <<stage, err>>
        /\ slots' = [slots EXCEPT
             ![ProbedSlot(facts[at + 1].usr,
                          ProbeLength(facts[at + 1].usr))] = Entered(@)]
    BY <1>4, <2>3 DEF Insert, ThisFact
  <2>5. QED
    BY <1>1, <1>2, <2>1, <2>3, <2>4
<1>5. QED
  BY <1>3, <1>4

(* The loop's bound, and what each pass leaves alone.                      *)
LEMMA LoopStep ==
  ASSUME InstrumentationTypeOK, NEW where, Looping(where)
  PROVE  at + 1 \in DOMAIN facts /\ at + 1 \in 0 .. Len(facts)
BY DEF Looping, InstrumentationTypeOK

LEMMA LookupRange ==
  ASSUME InstrumentationTypeOK, NEW usr \in Texts
  PROVE  Lookup(usr) # 0 => Lookup(usr) \in Functions
<1>1. CASE usr = "" \/ ProbeLength(usr) = size
  BY <1>1 DEF Lookup
<1>2. CASE ~(usr = "" \/ ProbeLength(usr) = size)
  <2>1. Lookup(usr) = slots[ProbedSlot(usr, ProbeLength(usr))]
    BY <1>2 DEF Lookup
  <2>2. ProbedSlot(usr, ProbeLength(usr)) \in 0 .. size - 1
    BY <1>2, ProbeStops, ProbedIsSlot
  <2>3. QED
    BY <2>1, <2>2 DEF InstrumentationTypeOK
<1>3. QED
  BY <1>1, <1>2

LEMMA SubjectRange ==
  ASSUME InstrumentationTypeOK, NEW i \in DOMAIN facts, Subject(facts[i]) # 0
  PROVE  Subject(facts[i]) \in DOMAIN facts
<1> DEFINE around == {j \in DOMAIN facts :
             /\ IsDefinition(facts[j]) /\ facts[j].path = facts[i].path
             /\ facts[j].start <= facts[i].start
             /\ facts[i].start < facts[j].end}
<1>1. around \subseteq Nat \ {0} /\ around \subseteq DOMAIN facts
      /\ Fallback(facts[i]) = First(around)
  BY FunctionsArePositions DEF Fallback
<1> HIDE DEF around
<1>2. First(around) # 0 => First(around) \in DOMAIN facts
  BY <1>1, FirstFound
<1>3. /\ Lookup(facts[i].callerUsr) # 0 =>
           Lookup(facts[i].callerUsr) \in DOMAIN facts
  BY LookupRange, FunctionsArePositions
<1>4. QED
  BY <1>1, <1>2, <1>3 DEF Subject

LEMMA SaysRange ==
  ASSUME NEW f
  PROVE  Says(f) \subseteq Capabilities
BY InstrumentationAssumption DEF Says

LEMMA InstrumentationTypeStep ==
  InstrumentationTypeOK /\ TableInv /\ [CollectNext]_collectVars => InstrumentationTypeOK'
<1> SUFFICES ASSUME InstrumentationTypeOK, TableInv, [CollectNext]_collectVars
             PROVE  InstrumentationTypeOK'
  OBVIOUS
<1>1. CASE GrowTable
  <2>1. UNCHANGED <<stage, err, facts, at, caps, changed>>
    BY <1>1 DEF GrowTable, modelVars
  <2>2. size' \in Nat \ {0} /\ size' = 2 * size
        /\ slots' = [s \in 0 .. size' - 1 |-> 0]
    BY <1>1 DEF GrowTable, InstrumentationTypeOK
  <2>3. slots' \in [0 .. size' - 1 -> {0} \cup Functions']
    BY <2>2
  <2>4. QED
    BY <2>1, <2>2, <2>3 DEF InstrumentationTypeOK
<1>2. CASE AllocateTable
  <2>1. /\ UNCHANGED <<facts, at, size, slots, caps, changed>>
        /\ stage' \in {"insert", "exit"} /\ err' \in {err, TRUE}
    BY <1>2 DEF AllocateTable, modelVars, tableVars
  <2>2. UNCHANGED Functions
    BY <2>1, SameFacts
  <2>3. QED
    BY <2>1, <2>2 DEF InstrumentationTypeOK
<1>3. CASE Insert
  <2>1. /\ UNCHANGED <<stage, err, facts, size, caps, changed>>
        /\ at' = at + 1 /\ at + 1 \in 0 .. Len(facts)
    BY <1>3, InsertedSlot, LoopStep DEF Insert, Looping, modelVars
  <2>2. UNCHANGED Functions
    BY <2>1, SameFacts
  <2>3. slots' \in [0 .. size - 1 -> {0} \cup Functions]
    BY <1>3, InsertedSlot DEF InstrumentationTypeOK, Entered
  <2>4. QED
    BY <2>1, <2>2, <2>3 DEF InstrumentationTypeOK
<1>4. CASE InsertEnds \/ NotesEnd \/ NextPass \/ CallsEnd
  <2>1. /\ UNCHANGED <<err, facts, size, slots, caps>>
        /\ stage' \in {"notes", "calls", "collected"} /\ at' = 0
        /\ changed' \in {changed, FALSE}
    BY <1>4
    DEF InsertEnds, NotesEnd, NextPass, CallsEnd, LoopEnds, modelVars, tableVars
  <2>2. UNCHANGED Functions
    BY <2>1, SameFacts
  <2>3. changed' \in BOOLEAN
    BY <2>1, Zenon DEF InstrumentationTypeOK
  <2>4. stage' \in {"size", "insert", "notes", "calls", "collected", "exit"}
    BY <2>1
  <2>5. at' \in 0 .. Len(facts)
    BY <2>1 DEF InstrumentationTypeOK
  <2>6. QED
    BY <2>1, <2>2, <2>3, <2>4, <2>5, Zenon DEF InstrumentationTypeOK
<1>5. CASE ReadNote
  <2>1. /\ UNCHANGED <<stage, err, facts, size, slots, changed>>
        /\ at' = at + 1 /\ at + 1 \in 0 .. Len(facts)
    BY <1>5, LoopStep DEF ReadNote, modelVars, tableVars
  <2>2. UNCHANGED Functions
    BY <2>1, SameFacts
  <2>3. caps' \in [DOMAIN facts -> SUBSET Capabilities]
    <3>1. \/ caps' = caps
          \/ caps' = [caps EXCEPT ![Subject(ThisFact)] = @ \cup Says(ThisFact)]
      BY <1>5 DEF ReadNote
    <3>2. QED
      BY <3>1, SaysRange DEF InstrumentationTypeOK
  <2>4. QED
    BY <2>1, <2>2, <2>3 DEF InstrumentationTypeOK
<1>6. CASE ReadCall
  <2>1. /\ UNCHANGED <<stage, err, facts, size, slots>>
        /\ at' = at + 1 /\ at + 1 \in DOMAIN facts /\ at + 1 \in 0 .. Len(facts)
    BY <1>6, LoopStep DEF ReadCall, modelVars, tableVars
  <2>2. UNCHANGED Functions
    BY <2>1, SameFacts
  <2>3. caps' \in [DOMAIN facts -> SUBSET Capabilities]
    <3>1. Passes(ThisFact) => Lookup(ThisFact.usr) \in DOMAIN facts
      BY <2>1, LookupRange, FunctionsArePositions DEF Passes, ThisFact
    <3>2. QED
      BY <1>6, <3>1 DEF ReadCall, InstrumentationTypeOK
  <2>4. changed' \in BOOLEAN
    BY <1>6, Zenon DEF ReadCall, InstrumentationTypeOK, Grows
  <2>5. QED
    BY <2>1, <2>2, <2>3, <2>4 DEF InstrumentationTypeOK
<1>7. CASE UNCHANGED collectVars
  <2>1. UNCHANGED <<stage, err, facts, at, size, slots, caps, changed>>
    BY <1>7 DEF collectVars, modelVars, tableVars
  <2>2. QED
    BY <2>1, SameFacts DEF InstrumentationTypeOK
<1>8. QED
  BY <1>1, <1>2, <1>3, <1>4, <1>5, <1>6, <1>7 DEF CollectNext, Collect, CollectStopped

(* The stages after the insertions leave the table as it is.               *)
LEMMA TableStays ==
  ASSUME TableInv, UNCHANGED <<facts, size, slots, err>>,
         \/ stage' = stage /\ at' = at
         \/ stage' = stage /\ stage \notin {"size", "insert"}
         \/ /\ stage \notin {"size", "insert", "exit"}
            /\ stage' \notin {"size", "insert", "exit"}
  PROVE  TableInv'
<1>1. /\ Functions' = Functions /\ (BigEnough' <=> BigEnough)
      /\ (AllFree' <=> AllFree)
      /\ \A usr : Definition(usr)' = Definition(usr)
      /\ \A usr : Has(usr)' <=> Has(usr)
  BY SameFacts DEF BigEnough, AllFree, Has, ProbedSlot
<1>2. \A t \in 0 .. size - 1 :
        Definition(facts[slots[t]].usr)' = Definition(facts[slots[t]].usr)
  BY <1>1
<1>3. QED
  BY <1>1, <1>2 DEF TableInv

LEMMA TableInit == CollectInit => TableInv
BY DEF CollectInit, TableInv, AllFree

LEMMA TableWhileFree ==
  ASSUME InstrumentationTypeOK, AllFree', stage' \in {"size", "insert", "exit"},
         at' = 0, stage' = "insert" => BigEnough', err' => stage' = "exit",
         facts' = facts
  PROVE  TableInv'
<1>1. \A i \in Functions' : ~ (i <= at')
  BY FunctionsArePositions, SameFacts
<1>2. QED
  BY <1>1 DEF TableInv, AllFree

(* The slot an insertion fills, and the ones it leaves.                    *)
LEMMA NewSlot ==
  ASSUME InstrumentationTypeOK, TableInv, Insert, at + 1 \in Functions
  PROVE  TableInv'
<1>1. PICK new, u, p, s :
        /\ new = at + 1 /\ u = facts[new].usr
        /\ p = ProbeLength(u) /\ s = ProbedSlot(u, p)
  OBVIOUS
<1>2. /\ UNCHANGED <<facts, size, stage, err>> /\ at' = at + 1
      /\ stage = "insert" /\ at \in Nat /\ size \in Nat
      /\ new \in Functions /\ new \in Nat \ {0} /\ u \in Texts
      /\ p \in 0 .. size - 1 /\ s \in 0 .. size - 1
      /\ Stops(u, p) /\ \A q \in 0 .. size - 1 : Stops(u, q) => p <= q
      /\ slots' = [slots EXCEPT ![s] = Entered(@)]
  <2>1. IsFunction(facts[new])
    BY <1>1 DEF Functions
  <2>2. stage = "insert" /\ u \in Texts /\ new \in Nat \ {0}
        /\ at \in Nat /\ size \in Nat
    BY <1>1, FunctionsArePositions DEF Insert, Looping, InstrumentationTypeOK
  <2>3. /\ UNCHANGED <<facts, size, stage, err>> /\ at' = at + 1
        /\ p \in 0 .. size - 1
        /\ Stops(u, p) /\ \A q \in 0 .. size - 1 : Stops(u, q) => p <= q
        /\ slots' = [slots EXCEPT ![s] = Entered(@)]
    BY <1>1, <2>1, InsertedSlot
  <2>4. s \in 0 .. size - 1
    BY <1>1, <2>2, <2>3, ProbedIsSlot
  <2>5. QED
    BY <1>1, <2>2, <2>3, <2>4
<1>3. slots \in [0 .. size - 1 -> {0} \cup Functions]
  BY DEF InstrumentationTypeOK
<1>4. /\ Functions' = Functions /\ \A usr : Definition(usr)' = Definition(usr)
      /\ \A usr, q : ProbedSlot(usr, q)' = ProbedSlot(usr, q)
  BY <1>2, SameFacts DEF ProbedSlot
<1>5. \A q \in 0 .. size - 1 : q < p => slots[ProbedSlot(u, q)] # 0
  BY <1>2 DEF Stops
<1>6. \A q \in 0 .. size - 1 : ProbedSlot(u, q) \in 0 .. size - 1
  BY <1>2, ProbedIsSlot
<1>7. /\ \A i \in Functions : i <= at' => i <= at \/ i = new
      /\ ~err
  <2>1. Functions \subseteq Nat
    BY FunctionsArePositions
  <2>2. new = at + 1 /\ at' = at + 1 /\ at \in Nat
    BY <1>1, <1>2
  <2>3. ~err
    BY <1>2 DEF TableInv
  <2>4. QED
    BY <2>1, <2>2, <2>3
<1>8. CASE slots[s] # 0
  <2>1. slots' = slots
    BY <1>2, <1>3, <1>8 DEF Entered
  <2>2. Has(u)
    <3>1. facts[slots[s]].usr = u
      BY <1>1, <1>2, <1>8 DEF Stops
    <3>2. \A q \in 0 .. p : slots[ProbedSlot(u, q)] # 0
      BY <1>1, <1>2, <1>5, <1>8
    <3>3. QED
      BY <1>1, <1>2, <1>8, <3>1, <3>2 DEF Has
  <2>3. \A usr : Has(usr)' <=> Has(usr)
    BY <1>2, <2>1 DEF Has, ProbedSlot
  <2>4. \A i \in Functions : i <= at' => Has(facts[i].usr)
    BY <1>1, <1>2, <1>7, <2>2 DEF TableInv
  <2>5. \A t \in 0 .. size - 1 : slots[t] # 0 =>
          slots[t] = Definition(facts[slots[t]].usr) /\ slots[t] <= at'
    <3>1. \A t \in 0 .. size - 1 : slots[t] # 0 => slots[t] \in Nat
      BY <1>3, FunctionsArePositions
    <3>2. QED
      BY <1>2, <3>1 DEF TableInv
  <2>6. BigEnough' /\ (AllFree' <=> AllFree)
    BY <1>2, <1>4, <2>1 DEF TableInv, BigEnough, AllFree
  <2>7. QED
    BY <1>2, <1>4, <2>1, <2>3, <2>4, <2>5, <2>6 DEF TableInv
<1>9. CASE slots[s] = 0
  <2>1. /\ slots'[s] = new
        /\ \A t \in 0 .. size - 1 : t # s => slots'[t] = slots[t]
    BY <1>1, <1>2, <1>3, <1>9 DEF Entered
  <2>2. ~Has(u)
    <3> SUFFICES ASSUME Has(u) PROVE FALSE
      OBVIOUS
    <3>1. PICK r \in 0 .. size - 1 :
            /\ slots[ProbedSlot(u, r)] # 0
            /\ facts[slots[ProbedSlot(u, r)]].usr = u
            /\ \A q \in 0 .. r : slots[ProbedSlot(u, q)] # 0
      BY DEF Has
    <3>2. Stops(u, r)
      BY <3>1 DEF Stops
    <3>3. p \in 0 .. r
      BY <1>2, <3>2
    <3>4. QED
      BY <1>1, <1>9, <3>1, <3>3
  <2>3. Definition(u) = new
    <3>1. Definition(u) \in Functions /\ facts[Definition(u)].usr = u
          /\ Definition(u) <= new
      BY <1>1, <1>2, DefinitionFound
    <3>2. ~ (Definition(u) <= at)
      BY <1>2, <2>2, <3>1 DEF TableInv
    <3>3. Definition(u) \in Nat
      BY <3>1, FunctionsArePositions
    <3>4. QED
      BY <1>1, <1>2, <3>1, <3>2, <3>3
  <2>4. \A t \in 0 .. size - 1 : slots[t] # 0 =>
          slots[t] \in Nat /\ slots[t] <= at
    BY <1>2, <1>3, FunctionsArePositions DEF TableInv
  <2>5. \A t \in 0 .. size - 1 : slots'[t] # 0 =>
          slots'[t] = Definition(facts[slots'[t]].usr) /\ slots'[t] <= at'
    BY <1>1, <1>2, <2>1, <2>3, <2>4 DEF TableInv
  <2>6. \A t, r \in 0 .. size - 1 :
          slots'[t] = slots'[r] /\ slots'[t] # 0 => t = r
    BY <1>1, <1>2, <2>1, <2>4 DEF TableInv
  <2>7. \A i \in Functions : i <= at => Has(facts[i].usr)'
    <3> SUFFICES ASSUME NEW i \in Functions, i <= at PROVE Has(facts[i].usr)'
      OBVIOUS
    <3>1. PICK usr : usr = facts[i].usr /\ usr \in Texts
      BY FunctionsArePositions
    <3>2. PICK r \in 0 .. size - 1 :
            /\ slots[ProbedSlot(usr, r)] # 0
            /\ facts[slots[ProbedSlot(usr, r)]].usr = usr
            /\ \A q \in 0 .. r : slots[ProbedSlot(usr, q)] # 0
      BY <1>2, <3>1 DEF TableInv, Has
    <3>3. \A q \in 0 .. r : /\ ProbedSlot(usr, q) \in 0 .. size - 1
                            /\ ProbedSlot(usr, q) # s
      <4>1. \A q \in 0 .. r : q \in 0 .. size - 1
        BY <1>2
      <4>2. QED
        BY <1>9, <3>1, <3>2, <4>1, ProbedIsSlot
    <3>4. r \in 0 .. r
      BY <1>2
    <3>5. \A q \in 0 .. r : slots'[ProbedSlot(usr, q)]
                              = slots[ProbedSlot(usr, q)]
      BY <2>1, <3>3
    <3>6. Has(usr)'
      BY <1>2, <1>4, <3>2, <3>4, <3>5 DEF Has
    <3>7. facts[i].usr' = usr
      BY <1>2, <3>1
    <3>8. QED
      BY <1>2, <3>1, <3>6
  <2>8. Has(u)'
    <3>1. \A q \in 0 .. p : slots'[ProbedSlot(u, q)] # 0
      BY <1>1, <1>2, <1>5, <1>6, <2>1
    <3>2. slots'[ProbedSlot(u, p)] = new
      BY <1>1, <2>1
    <3>3. QED
      BY <1>1, <1>2, <1>4, <3>1, <3>2 DEF Has
  <2>9. \A i \in Functions : i <= at' => Has(facts[i].usr)'
    <3>1. Has(facts[new].usr)'
      BY <1>1, <1>2, <2>8
    <3>2. QED
      BY <1>7, <2>7, <3>1
  <2>10. BigEnough' /\ ~err'
    BY <1>2, <1>4, <1>7 DEF TableInv, BigEnough
  <2>11. QED
    BY <1>2, <1>4, <2>5, <2>6, <2>9, <2>10 DEF TableInv
<1>10. QED
  BY <1>8, <1>9

LEMMA TableStep ==
  InstrumentationTypeOK /\ TableInv /\ [CollectNext]_collectVars => TableInv'
<1> SUFFICES ASSUME InstrumentationTypeOK, TableInv, [CollectNext]_collectVars
             PROVE  TableInv'
  OBVIOUS
<1>1. CASE GrowTable
  <2>1. /\ UNCHANGED <<stage, err, facts, at>> /\ stage = "size"
        /\ size' = 2 * size /\ slots' = [s \in 0 .. size' - 1 |-> 0]
    BY <1>1 DEF GrowTable, modelVars
  <2>2. AllFree' /\ at = 0 /\ ~err
    BY <2>1 DEF TableInv, AllFree
  <2>3. QED
    BY <2>1, <2>2, TableWhileFree
<1>2. CASE AllocateTable
  <2>1. /\ UNCHANGED <<facts, at, size, slots>> /\ stage = "size" /\ BigEnough
        /\ \/ stage' = "insert" /\ UNCHANGED err
           \/ stage' = "exit" /\ err' = TRUE
    BY <1>2 DEF AllocateTable, modelVars, tableVars
  <2>2. AllFree' /\ at = 0 /\ BigEnough' /\ ~err
    BY <2>1, SameFacts DEF TableInv, AllFree, BigEnough
  <2>3. QED
    BY <2>1, <2>2, TableWhileFree
<1>3. CASE Insert
  <2>1. CASE at + 1 \in Functions
    BY <1>3, <2>1, NewSlot
  <2>2. CASE at + 1 \notin Functions
    <3>1. /\ UNCHANGED <<facts, size, slots, stage, err>> /\ at' = at + 1
          /\ stage = "insert" /\ at \in Nat
      <4>1. at \in Nat
        BY FunctionsArePositions DEF InstrumentationTypeOK
      <4>2. QED
        BY <1>3, <2>2, <4>1, InsertedSlot DEF Insert, Looping
    <3>2. /\ Functions' = Functions /\ (BigEnough' <=> BigEnough)
          /\ (AllFree' <=> AllFree)
          /\ \A usr : Definition(usr)' = Definition(usr)
          /\ \A usr : Has(usr)' <=> Has(usr)
      BY <3>1, SameFacts DEF BigEnough, AllFree, Has, ProbedSlot
    <3>3. \A i \in Functions : i <= at' => i <= at
      <4>1. \A i \in Functions : i \in Nat /\ i # at + 1
        BY <2>2, FunctionsArePositions
      <4>2. QED
        BY <3>1, <4>1
    <3>4. \A s \in 0 .. size - 1 : slots[s] # 0 => slots[s] <= at'
      <4>1. \A s \in 0 .. size - 1 : slots[s] # 0 => slots[s] \in Nat
        BY FunctionsArePositions DEF InstrumentationTypeOK
      <4>2. QED
        BY <3>1, <4>1 DEF TableInv
    <3>5. QED
      BY <3>1, <3>2, <3>3, <3>4 DEF TableInv
  <2>3. QED
    BY <2>1, <2>2
<1>4. CASE InsertEnds
  <2>1. /\ UNCHANGED <<facts, size, slots, err>> /\ stage = "insert"
        /\ stage' = "notes" /\ at = Len(facts)
    BY <1>4 DEF InsertEnds, LoopEnds, modelVars, tableVars
  <2>2. /\ Functions' = Functions /\ (BigEnough' <=> BigEnough)
        /\ (AllFree' <=> AllFree)
        /\ \A usr : Definition(usr)' = Definition(usr)
        /\ \A usr : Has(usr)' <=> Has(usr)
    BY <2>1, SameFacts DEF BigEnough, AllFree, Has, ProbedSlot
  <2>3. \A i \in Functions : i <= at
    BY <2>1, FunctionsArePositions
  <2>4. QED
    BY <2>1, <2>2, <2>3 DEF TableInv
<1>5. CASE NotesEnd \/ NextPass \/ CallsEnd
  BY <1>5, TableStays
  DEF NotesEnd, NextPass, CallsEnd, LoopEnds, modelVars, tableVars
<1>6. CASE ReadNote \/ ReadCall
  BY <1>6, TableStays DEF ReadNote, ReadCall, Looping, modelVars, tableVars
<1>7. CASE UNCHANGED collectVars
  BY <1>7, TableStays DEF collectVars, modelVars, tableVars
<1>8. QED
  BY <1>1, <1>2, <1>3, <1>4, <1>5, <1>6, <1>7 DEF CollectNext, Collect, CollectStopped

(* The loops keep their index within the facts and the table's slots name  *)
(* functions, whatever is hashed.                                          *)
THEOREM InstrumentationTypeCorrect == CollectSpec => []InstrumentationTypeOK
<1>1. CollectInit => InstrumentationTypeOK /\ TableInv
  BY InstrumentationTypeInit, TableInit
<1>2. /\ InstrumentationTypeOK /\ TableInv /\ [CollectNext]_collectVars
      => (InstrumentationTypeOK /\ TableInv)'
  BY InstrumentationTypeStep, TableStep
<1>3. QED
  BY <1>1, <1>2, PTL DEF CollectSpec

(* Once every function is entered, a lookup is the definition it stands    *)
(* for.                                                                    *)
LEMMA LookupIsDefinition ==
  ASSUME InstrumentationTypeOK, TableInv, TableBuilt, NEW usr \in Texts
  PROVE  Lookup(usr) = Definition(usr)
<1>1. size \in Nat
  BY DEF InstrumentationTypeOK
<1>2. CASE usr = ""
  BY <1>2, DefinitionFound DEF Lookup
<1>3. CASE usr # "" /\ Definition(usr) = 0
  <2>1. \A i \in Functions : facts[i].usr # usr
    BY <1>3, DefinitionFound
  <2>2. CASE ProbeLength(usr) = size
    BY <1>3, <2>2 DEF Lookup
  <2>3. CASE ProbeLength(usr) # size
    <3>1. PICK s : s = ProbedSlot(usr, ProbeLength(usr))
      OBVIOUS
    <3>2. s \in 0 .. size - 1 /\ Stops(usr, ProbeLength(usr))
      BY <2>3, <3>1, ProbeStops, ProbedIsSlot
    <3>3. slots[s] \in {0} \cup Functions
      BY <3>2 DEF InstrumentationTypeOK
    <3>4. slots[s] = 0
      BY <2>1, <3>1, <3>2, <3>3 DEF Stops
    <3>5. QED
      BY <1>3, <2>3, <3>1, <3>4 DEF Lookup
  <2>4. QED
    BY <2>2, <2>3
<1>4. CASE usr # "" /\ Definition(usr) # 0
  <2>1. Definition(usr) \in Functions /\ facts[Definition(usr)].usr = usr
    BY <1>4, DefinitionFound
  <2>2. Has(usr)
    <3>1. stage \notin {"size", "exit", "insert"}
      BY DEF TableBuilt
    <3>2. QED
      BY <2>1, <3>1 DEF TableInv
  <2>3. PICK r \in 0 .. size - 1 :
          /\ slots[ProbedSlot(usr, r)] # 0
          /\ facts[slots[ProbedSlot(usr, r)]].usr = usr
          /\ \A q \in 0 .. r : slots[ProbedSlot(usr, q)] # 0
    BY <2>2 DEF Has
  <2>4. Stops(usr, r)
    BY <2>3 DEF Stops
  <2>5. PICK p, s : p = ProbeLength(usr) /\ s = ProbedSlot(usr, p)
    OBVIOUS
  <2>6. /\ p \in 0 .. size - 1 /\ p # size /\ Stops(usr, p) /\ p <= r
        /\ s \in 0 .. size - 1
    BY <2>4, <2>5, ProbeStops, ProbedIsSlot
  <2>7. p \in 0 .. r
    BY <1>1, <2>6
  <2>8. slots[s] # 0 /\ facts[slots[s]].usr = usr
    BY <2>3, <2>5, <2>6, <2>7 DEF Stops
  <2>9. slots[s] = Definition(usr)
    BY <2>6, <2>8 DEF TableInv
  <2>10. QED
    BY <1>4, <2>5, <2>6, <2>9 DEF Lookup
<1>5. QED
  BY <1>2, <1>3, <1>4

(* The hash table is the map from a USR to its first definition, whatever  *)
(* collides and however small the table starts; and the search for a free  *)
(* slot never fails ("semantic function map is full" is never raised).     *)
THEOREM MapExact == CollectSpec => []TableIsTheMap
<1>1. CollectInit => InstrumentationTypeOK /\ TableInv
  BY InstrumentationTypeInit, TableInit
<1>2. /\ InstrumentationTypeOK /\ TableInv /\ [CollectNext]_collectVars
      => (InstrumentationTypeOK /\ TableInv)'
  BY InstrumentationTypeStep, TableStep
<1>3. InstrumentationTypeOK /\ TableInv => TableIsTheMap
  <2> SUFFICES ASSUME InstrumentationTypeOK, TableInv PROVE TableIsTheMap
    OBVIOUS
  <2>1. err => slots = [s \in 0 .. size - 1 |-> 0]
    BY DEF TableInv, AllFree, InstrumentationTypeOK
  <2>2. QED
    BY <2>1, LookupIsDefinition DEF TableIsTheMap
<1>4. QED
  BY <1>1, <1>2, <1>3, PTL DEF CollectSpec

-----------------------------------------------------------------------------
(* The capabilities.                                                       *)

(* The functions are given nothing before the table is built, and then     *)
(* never what a closed set of functions with the notes would not have.     *)
(* The notes behind the loop are taken in; and as long as a pass over the  *)
(* calls has changed nothing, the calls behind it have nothing to add.     *)
CapabilitiesInv ==
  \A c \in Capabilities :
    /\ ~TableBuilt => Having(c) = {}
    /\ \A S \in SUBSET Bodies :
         Seeds(c) \subseteq S /\ ClosedUnderCalls(S) => Having(c) \subseteq S
    /\ TableBuilt =>
         \A n \in DOMAIN facts :
           (stage = "notes" => n <= at) /\ c \in Says(facts[n])
             /\ About(facts[n]) # 0 => About(facts[n]) \in Having(c)
    /\ (stage = "calls" /\ ~changed) \/ stage = "collected" =>
         \A n \in DOMAIN facts : (stage = "calls" => n <= at) =>
           \A caller, callee \in DOMAIN facts :
             Calls(n, caller, callee) /\ callee \in Having(c) =>
               caller \in Having(c)

(* What is asked of the notes and the calls depends only on the facts.     *)
LEMMA SameProgram ==
  ASSUME facts' = facts
  PROVE  /\ Bodies' = Bodies
         /\ \A n : About(facts[n])' = About(facts[n])
         /\ \A c : Seeds(c)' = Seeds(c)
         /\ \A n, i, j : Calls(n, i, j)' <=> Calls(n, i, j)
         /\ \A S : ClosedUnderCalls(S)' <=> ClosedUnderCalls(S)
<1>1. /\ \A f : About(f)' = About(f)
      /\ \A n : Definition(facts[n].callerUsr)' = Definition(facts[n].callerUsr)
      /\ \A n : Definition(facts[n].usr)' = Definition(facts[n].usr)
  BY DEF About, Definition, Functions, Fallback
<1>2. \A n : About(facts[n])' = About(facts[n])
  BY DEF About, Definition, Functions, Fallback
<1>3. \A c : Seeds(c)' = Seeds(c)
  BY <1>2 DEF Seeds
<1>4. \A n, i, j : Calls(n, i, j)' <=> Calls(n, i, j)
  BY <1>1 DEF Calls
<1>5. \A S : ClosedUnderCalls(S)' <=> ClosedUnderCalls(S)
  BY <1>1, <1>4 DEF ClosedUnderCalls
<1>6. QED
  BY <1>2, <1>3, <1>4, <1>5 DEF Bodies

LEMMA CapabilitiesInit == CollectInit => CapabilitiesInv
BY DEF CollectInit, CapabilitiesInv, Having, TableBuilt

(* A step that gives no function anything.                                 *)
LEMMA NothingGiven ==
  ASSUME InstrumentationTypeOK, CapabilitiesInv, UNCHANGED <<facts, caps>>,
         ~TableBuilt' => ~TableBuilt,
         \/ ~TableBuilt'
         \/ stage' = "notes" /\ at' = 0
         \/ /\ stage' = "calls" /\ at' = 0
            /\ stage = "notes" => at = Len(facts)
            /\ stage \in {"notes", "calls"}
         \/ /\ stage' = "collected" /\ stage = "calls" /\ at = Len(facts)
            /\ ~changed /\ ~changed'
         \/ UNCHANGED <<stage, at, changed>>
  PROVE  CapabilitiesInv'
<1> SUFFICES ASSUME NEW c \in Capabilities
             PROVE  CapabilitiesInv!(c)'
  BY DEF CapabilitiesInv
<1>1. Having(c)' = Having(c)
  BY DEF Having
<1>2. (~TableBuilt => Having(c) = {})'
  BY <1>1 DEF CapabilitiesInv
<1>3. \A S \in SUBSET Bodies' : Seeds(c)' \subseteq S /\ ClosedUnderCalls(S)' =>
        Having(c)' \subseteq S
  BY <1>1, SameProgram DEF CapabilitiesInv
<1>4. \A n \in DOMAIN facts : n \in Nat \ {0} /\ n <= Len(facts)
  BY FunctionsArePositions
<1>5. TableBuilt' => \A n \in DOMAIN facts :
        (stage' = "notes" => n <= at') /\ c \in Says(facts[n])
          /\ About(facts[n]) # 0 => About(facts[n]) \in Having(c)
  BY <1>4 DEF CapabilitiesInv, TableBuilt
<1>6. (stage' = "calls" /\ ~changed') \/ stage' = "collected" =>
        \A n \in DOMAIN facts : (stage' = "calls" => n <= at') =>
          \A caller, callee \in DOMAIN facts :
            Calls(n, caller, callee) /\ callee \in Having(c) =>
              caller \in Having(c)
  BY <1>4 DEF CapabilitiesInv, TableBuilt
<1>7. QED
  BY <1>1, <1>2, <1>3, <1>5, <1>6, SameProgram

LEMMA NoteRead ==
  ASSUME InstrumentationTypeOK, TableInv, CapabilitiesInv, ReadNote
  PROVE  CapabilitiesInv'
<1>1. PICK here, about : here = at + 1 /\ about = About(facts[here])
  OBVIOUS
<1>2. /\ UNCHANGED <<facts, stage, changed>> /\ at' = at + 1
      /\ stage = "notes" /\ TableBuilt /\ TableBuilt'
      /\ here \in DOMAIN facts /\ ThisFact = facts[here] /\ at \in Nat
  <2>1. at \in Nat
    BY FunctionsArePositions DEF InstrumentationTypeOK
  <2>2. at + 1 \in DOMAIN facts
    BY LoopStep DEF ReadNote
  <2>3. QED
    BY <1>1, <2>1, <2>2 DEF ReadNote, Looping, modelVars, TableBuilt, ThisFact
<1>3. Subject(ThisFact) = about
  BY <1>1, <1>2, LookupIsDefinition, FunctionsArePositions DEF Subject, About
<1>4. \/ caps' = caps /\ (Says(facts[here]) = {} \/ about = 0)
      \/ /\ about \in DOMAIN facts /\ about # 0
         /\ caps' = [caps EXCEPT ![about] = @ \cup Says(facts[here])]
  BY <1>2, <1>3, SubjectRange DEF ReadNote
<1> SUFFICES ASSUME NEW c \in Capabilities
             PROVE  CapabilitiesInv!(c)'
  BY DEF CapabilitiesInv
<1>5. /\ Having(c) \subseteq Having(c)'
      /\ \A i \in Having(c)' : i \in Having(c)
                               \/ (i = about /\ c \in Says(facts[here]))
      /\ about # 0 /\ c \in Says(facts[here]) => about \in Having(c)'
  BY <1>2, <1>4 DEF Having, InstrumentationTypeOK
<1>6. \A S \in SUBSET Bodies' : Seeds(c)' \subseteq S /\ ClosedUnderCalls(S)' =>
        Having(c)' \subseteq S
  <2> SUFFICES ASSUME NEW S \in SUBSET Bodies,
                      Seeds(c) \subseteq S, ClosedUnderCalls(S)
               PROVE  Having(c)' \subseteq S
    BY <1>2, SameProgram
  <2>1. Having(c) \subseteq S
    BY DEF CapabilitiesInv
  <2>2. about # 0 /\ c \in Says(facts[here]) => about \in S
    BY <1>1, <1>2 DEF Seeds
  <2>3. 0 \notin Having(c)'
    BY <1>2, FunctionsArePositions DEF Having
  <2>4. QED
    BY <1>5, <2>1, <2>2, <2>3
<1>7. \A n \in DOMAIN facts :
        n <= at' /\ c \in Says(facts[n]) /\ About(facts[n]) # 0 =>
          About(facts[n]) \in Having(c)'
  <2>1. \A n \in DOMAIN facts : n <= at' => n <= at \/ n = here
    BY <1>1, <1>2, FunctionsArePositions
  <2>2. QED
    BY <1>1, <1>2, <1>5, <2>1 DEF CapabilitiesInv
<1>8. QED
  BY <1>2, <1>6, <1>7, SameProgram

LEMMA CallRead ==
  ASSUME InstrumentationTypeOK, TableInv, CapabilitiesInv, ReadCall
  PROVE  CapabilitiesInv'
<1>1. PICK here, er, ee :
        /\ here = at + 1 /\ er = Definition(facts[here].callerUsr)
        /\ ee = Definition(facts[here].usr)
  OBVIOUS
<1>2. /\ UNCHANGED <<facts, stage>> /\ at' = at + 1
      /\ stage = "calls" /\ TableBuilt /\ TableBuilt'
      /\ here \in DOMAIN facts /\ ThisFact = facts[here] /\ at \in Nat
  <2>1. at \in Nat
    BY FunctionsArePositions DEF InstrumentationTypeOK
  <2>2. at + 1 \in DOMAIN facts
    BY LoopStep DEF ReadCall
  <2>3. QED
    BY <1>1, <2>1, <2>2 DEF ReadCall, Looping, modelVars, TableBuilt, ThisFact
<1>3. Lookup(ThisFact.callerUsr) = er /\ Lookup(ThisFact.usr) = ee
  BY <1>1, <1>2, LookupIsDefinition, FunctionsArePositions
<1>4. Passes(ThisFact) <=> Calls(here, er, ee)
  BY <1>1, <1>2, <1>3 DEF Passes, Calls
<1>5. Calls(here, er, ee) => er \in DOMAIN facts /\ ee \in DOMAIN facts
  BY <1>1, DefinitionFound, FunctionsArePositions DEF Calls
<1>6. \/ /\ ~Calls(here, er, ee) /\ caps' = caps /\ changed' = changed
      \/ /\ Calls(here, er, ee)
         /\ caps' = [caps EXCEPT ![er] = @ \cup caps[ee]]
         /\ changed' = (changed \/ Grows(er, ee))
  BY <1>3, <1>4 DEF ReadCall
<1> SUFFICES ASSUME NEW c \in Capabilities
             PROVE  CapabilitiesInv!(c)'
  BY DEF CapabilitiesInv
<1>7. /\ Having(c) \subseteq Having(c)'
      /\ \A i \in Having(c)' :
           \/ i \in Having(c)
           \/ i = er /\ ee \in Having(c) /\ Calls(here, er, ee)
  BY <1>2, <1>5, <1>6 DEF Having, InstrumentationTypeOK
<1>8. \A S \in SUBSET Bodies' : Seeds(c)' \subseteq S /\ ClosedUnderCalls(S)' =>
        Having(c)' \subseteq S
  <2> SUFFICES ASSUME NEW S \in SUBSET Bodies,
                      Seeds(c) \subseteq S, ClosedUnderCalls(S)
               PROVE  Having(c)' \subseteq S
    BY <1>2, SameProgram
  <2>1. Having(c) \subseteq S
    BY DEF CapabilitiesInv
  <2>2. Calls(here, er, ee) /\ ee \in S => er \in S
    BY <1>1, <1>2 DEF ClosedUnderCalls
  <2>3. QED
    BY <1>7, <2>1, <2>2
<1>9. \A n \in DOMAIN facts :
        c \in Says(facts[n]) /\ About(facts[n]) # 0 =>
          About(facts[n]) \in Having(c)'
  BY <1>2, <1>7 DEF CapabilitiesInv
<1>10. ASSUME ~changed', NEW n \in DOMAIN facts, n <= at',
              NEW caller \in DOMAIN facts, NEW callee \in DOMAIN facts,
              Calls(n, caller, callee), callee \in Having(c)'
       PROVE  caller \in Having(c)'
  <2>1. ~changed /\ (Calls(here, er, ee) => caps[ee] \subseteq caps[er])
    <3>1. ~changed' /\ (~Calls(here, er, ee) => ~changed)
      BY <1>6, <1>10
    <3>2. Calls(here, er, ee) => (changed' <=> changed \/ Grows(er, ee))
      BY <1>6, Zenon
    <3>3. QED
      BY <3>1, <3>2, Zenon DEF Grows
  <2>2. Having(c)' = Having(c)
    BY <1>2, <1>5, <1>7, <2>1 DEF Having
  <2>3. CASE n = here
    <3>1. caller = er /\ callee = ee /\ Calls(here, er, ee)
      BY <1>1, <1>10, <2>3 DEF Calls
    <3>2. QED
      BY <1>5, <1>10, <2>1, <2>2, <3>1 DEF Having
  <2>4. CASE n # here
    <3>1. n <= at
      BY <1>1, <1>2, <1>10, <2>4, FunctionsArePositions
    <3>2. QED
      BY <1>2, <1>10, <2>1, <2>2, <3>1 DEF CapabilitiesInv
  <2>5. QED
    BY <2>3, <2>4
<1>11. QED
  BY <1>2, <1>8, <1>9, <1>10, SameProgram

LEMMA CapabilitiesStep ==
  InstrumentationTypeOK /\ TableInv /\ CapabilitiesInv /\ [CollectNext]_collectVars
    => CapabilitiesInv'
<1> SUFFICES ASSUME InstrumentationTypeOK, TableInv, CapabilitiesInv,
                    [CollectNext]_collectVars
             PROVE  CapabilitiesInv'
  OBVIOUS
<1>1. CASE GrowTable \/ AllocateTable
  <2>1. UNCHANGED <<facts, caps>> /\ ~TableBuilt /\ ~TableBuilt'
    BY <1>1 DEF GrowTable, AllocateTable, modelVars, TableBuilt
  <2>2. QED
    BY <2>1, NothingGiven
<1>2. CASE Insert
  <2>1. UNCHANGED <<facts, caps, stage>> /\ stage = "insert"
    BY <1>2, InsertedSlot DEF Insert, Looping
  <2>2. QED
    BY <2>1, NothingGiven DEF TableBuilt
<1>3. CASE InsertEnds
  <2>1. UNCHANGED <<facts, caps>> /\ stage' = "notes" /\ at' = 0
    BY <1>3 DEF InsertEnds, LoopEnds, modelVars
  <2>2. QED
    BY <2>1, NothingGiven DEF TableBuilt
<1>4. CASE ReadNote
  BY <1>4, NoteRead
<1>5. CASE NotesEnd \/ NextPass
  <2>1. /\ UNCHANGED <<facts, caps>> /\ stage' = "calls" /\ at' = 0
        /\ stage \in {"notes", "calls"} /\ at = Len(facts)
    BY <1>5 DEF NotesEnd, NextPass, LoopEnds, modelVars
  <2>2. QED
    BY <2>1, NothingGiven DEF TableBuilt
<1>6. CASE ReadCall
  BY <1>6, CallRead
<1>7. CASE CallsEnd
  <2>1. /\ UNCHANGED <<facts, caps>> /\ stage' = "collected"
        /\ stage = "calls" /\ at = Len(facts) /\ ~changed /\ ~changed'
    BY <1>7 DEF CallsEnd, Again, LoopEnds, modelVars
  <2>2. QED
    BY <2>1, NothingGiven DEF TableBuilt
<1>8. CASE UNCHANGED collectVars
  <2>1. UNCHANGED <<facts, caps, stage, at, changed>>
    BY <1>8 DEF collectVars, modelVars
  <2>2. QED
    BY <2>1, NothingGiven DEF TableBuilt
<1>9. QED
  BY <1>1, <1>2, <1>3, <1>4, <1>5, <1>6, <1>7, <1>8
  DEF CollectNext, Collect, CollectStopped

(* No function is ever said to have a capability that no note gives it     *)
(* through the calls of its repository, and when the passes over the calls *)
(* end none is missing: for every program, recursive ones included.        *)
THEOREM LeastCapabilities == CollectSpec => []CapabilitiesAreLeast
<1>1. CollectInit => InstrumentationTypeOK /\ TableInv /\ CapabilitiesInv
  BY InstrumentationTypeInit, TableInit, CapabilitiesInit
<1>2. /\ InstrumentationTypeOK /\ TableInv /\ CapabilitiesInv /\ [CollectNext]_collectVars
      => (InstrumentationTypeOK /\ TableInv /\ CapabilitiesInv)'
  BY InstrumentationTypeStep, TableStep, CapabilitiesStep
<1>3. InstrumentationTypeOK /\ TableInv /\ CapabilitiesInv
        => CapabilitiesAreLeast
  <2> SUFFICES ASSUME InstrumentationTypeOK, CapabilitiesInv,
                      NEW c \in Capabilities, stage = "collected"
               PROVE  Seeds(c) \subseteq Having(c) /\ ClosedUnderCalls(Having(c))
    BY DEF CapabilitiesAreLeast, CapabilitiesInv
  <2>1. Seeds(c) \subseteq Having(c)
    BY DEF CapabilitiesInv, Seeds, TableBuilt
  <2>2. ClosedUnderCalls(Having(c))
    <3>1. \A n, i, j : Calls(n, i, j) => i \in DOMAIN facts /\ j \in DOMAIN facts
      BY DefinitionFound, FunctionsArePositions DEF Calls
    <3>2. QED
      BY <3>1 DEF CapabilitiesInv, ClosedUnderCalls
  <2>3. QED
    BY <2>1, <2>2
<1>4. QED
  BY <1>1, <1>2, <1>3, PTL DEF CollectSpec


=============================================================================
