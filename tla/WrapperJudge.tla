---------------------------- MODULE WrapperJudge ----------------------------
(***************************************************************************)
(* The judgement of audit-wrappers (src/src/judge.c, judge_support.c): one *)
(* pass over the facts decides which calls cross the wrapper boundary      *)
(* without permission, then every allow rule must have been of use.        *)
(***************************************************************************)
EXTENDS WrapperFacts

CONSTANTS
  Paths,            \* the source paths of the model
  InputFacts,       \* the fact lists a scan can hand over, in fact order
  InputInventories, \* the inventories that can have been loaded
  InputArguments    \* the arguments that can have been parsed

(* The members of struct p101_wrapper_arguments the judgement reads.  A    *)
(* rule's path pattern is the set of paths path_matches accepts for it.    *)
Rule == [paths : SUBSET Paths, callerUsr : Texts, calleeUsr : Texts \ {""}]
Arguments == [allowedUsrs : Seq(Texts \ {""}), rules : Seq(Rule),
              portability : BOOLEAN, strict : BOOLEAN]

(* The scanned sources lie at the paths of the model, and of the records   *)
(* that libclang's cursors become only a call carries the indirect flag    *)
(* (the fact kinds of docs/module-facts.md).                               *)
ASSUME JudgeAssumption ==
  /\ Paths \subseteq Texts
  /\ \A s \in InputFacts :
       /\ s \in Seq(Fact) /\ InFactOrder(s)
       /\ \A n \in DOMAIN s : s[n].path \in Paths
                              /\ (s[n].indirect => s[n].kind = "CALL")
  /\ \A s \in InputInventories : s \in Seq(Mapping)
  /\ InputArguments \subseteq Arguments

VARIABLES
  arguments,  \* what was parsed; only the use counts below ever change
  next,       \* the index of p101_wrapper_model_judge's loop over the facts
  uses        \* allow_rules[..].uses

judgeVars == <<arguments, next, uses>>
vars == <<stage, err, modelVars, judgeVars>>

Init ==
  /\ stage = "judge" /\ err = FALSE
  /\ facts \in InputFacts
  /\ inventory \in InputInventories
  /\ findings = <<>> /\ parseFailures = 0
  /\ capacity = [facts |-> Len(facts), inventory |-> Len(inventory),
                 findings |-> 0]
  /\ arguments \in InputArguments
  /\ next = 1
  /\ uses = [r \in DOMAIN arguments.rules |-> 0]

-----------------------------------------------------------------------------
(* Which facts are judged at all.                                          *)

(* Mutant of IsOperation: a macro in a preprocessing condition is one too. *)
IsOperationAnywhere(f) ==
  f.kind = "CALL" \/ (IsExpansion(f) /\ FindWrapper(f) # 0)

(* A call, or the expansion, inside some function, of a macro that stands  *)
(* for an API the inventory knows.                                         *)
IsOperation(f) ==
  \/ f.kind = "CALL"
  \/ IsExpansion(f) /\ SemanticCaller(f) # "" /\ FindWrapper(f) # 0

(* call_is_inventory_wrapper, p101_wrapper_is_local and                    *)
(* p101_wrapper_is_errno_macro_lowering.                                   *)
CallsWrapper(f) ==
  /\ f.kind = "CALL" /\ f.usr # ""
  /\ \E i \in DOMAIN inventory : inventory[i].wrapperUsr = f.usr

IsLocal(f) ==
  f.usr # "" /\ \E i \in DOMAIN facts :
                  IsDefinition(facts[i]) /\ facts[i].usr = f.usr

IsErrnoLowering(f) ==
  /\ f.usr \in ErrnoProviders
  /\ \E i \in DOMAIN facts :
       /\ IsExpansion(facts[i]) /\ facts[i].name = "errno"
       /\ facts[i].line = f.line /\ facts[i].path = f.path
       /\ facts[i].callerUsr = f.callerUsr

Exempt(f) ==
  f.name = "" \/ CallsWrapper(f) \/ IsLocal(f) \/ IsErrnoLowering(f)

-----------------------------------------------------------------------------
(* is_allowed.                                                             *)

(* The wrap itself: the function the inventory names calls its native one. *)
IsTheWrap(f, w) ==
  w # 0 /\ f.callerUsr # "" /\ f.callerUsr = inventory[w].wrapperUsr

RuleCovers(rule, f, w) ==
  /\ f.path \in rule.paths
  /\ rule.callerUsr \in {"", f.callerUsr}
  /\ rule.calleeUsr = CalleeIdentity(f, w)

(* The first rule that covers a fact; the loop over the rules ends there.  *)
CoveringRule(f, w) ==
  First({r \in DOMAIN arguments.rules : RuleCovers(arguments.rules[r], f, w)})

AllowedUsrs == {arguments.allowedUsrs[n] : n \in DOMAIN arguments.allowedUsrs}

AllowedWithoutRule(f, w) ==
  IsTheWrap(f, w) \/ CalleeIdentity(f, w) \in AllowedUsrs

Allowed(f, w) == AllowedWithoutRule(f, w) \/ CoveringRule(f, w) # 0

(* The rule whose use count an allowing call of is_allowed increments.     *)
RuleUsed(f, w) == IF AllowedWithoutRule(f, w) THEN 0 ELSE CoveringRule(f, w)

(* is_allowed_macro_lowering: the first expansion the call surrounds that  *)
(* stands for a known API and is allowed.                                  *)
SurroundedMacro(f) ==
  First({i \in DOMAIN facts :
           /\ IsExpansion(facts[i]) /\ facts[i].path = f.path
           /\ facts[i].callerUsr = f.callerUsr
           /\ f.start <= facts[i].start /\ facts[i].end <= f.end
           /\ FindWrapper(facts[i]) # 0
           /\ Allowed(facts[i], FindWrapper(facts[i]))})

(* caller_is_declared_wrapper and the alias table that follows it.  An     *)
(* indirect call is no call of the wrapper's native function.              *)
IsImplementation(f, w) ==
  \/ /\ w # 0 /\ inventory[w].wrapperUsr # ""
     /\ SemanticCaller(f) = inventory[w].wrapperUsr
  \/ <<f.usr, SemanticCaller(f)>> \in Aliases

-----------------------------------------------------------------------------
(* p101_wrapper_model_judge.                                               *)

Current == facts[next]

(* Mutant of SamePlace: two names at one place are one finding.            *)
SamePlaceIgnoringName(g, f) ==
  g.path = f.path /\ g.line = f.line /\ g.column = f.column
SamePlace(g, f) ==
  g.path = f.path /\ g.line = f.line /\ g.column = f.column /\ g.name = f.name

Advance == next' = next + 1

(* add_finding: a place that already has a finding under this name keeps   *)
(* it; else the finding is appended, unless the array cannot grow.         *)
AddFinding(kind, f, replacement, identity) ==
  IF \E n \in DOMAIN findings : SamePlace(findings[n], f)
  THEN Advance /\ UNCHANGED <<stage, err, findings, capacity>>
  ELSE \/ /\ MakeRoom("findings", Len(findings))
          /\ findings' = Append(findings,
               [kind |-> kind, path |-> f.path, line |-> f.line,
                column |-> f.column, name |-> f.name,
                replacement |-> replacement, identity |-> identity])
          /\ Advance
          /\ UNCHANGED <<stage, err>>
       \/ /\ NoRoom("findings", Len(findings))
          /\ err' = TRUE /\ stage' = "exit"
          /\ UNCHANGED <<findings, next>>

IsPlatformInclude(f) ==
  f.kind = "INCLUDE" /\ arguments.portability /\ f.platform

Judging == stage = "judge" /\ next <= Len(facts)

JudgeInclude ==
  /\ Judging /\ IsPlatformInclude(Current)
  /\ AddFinding("PORTABILITY", Current, "", "")
  /\ UNCHANGED <<facts, inventory, parseFailures, arguments, uses>>

(* What leaves the findings and the rules alone.                           *)
PassBy(f) == ~IsPlatformInclude(f) /\ (~IsOperation(f) \/ Exempt(f))

JudgePassBy ==
  /\ Judging /\ PassBy(Current)
  /\ Advance
  /\ UNCHANGED <<stage, err, modelVars, arguments, uses>>

(* The position of the fact whose permission counts for f: f itself, a     *)
(* macro it lowers, or 0 when neither is allowed.                          *)
PermittedBy(i) ==
  IF Allowed(facts[i], FindWrapper(facts[i])) THEN i
  ELSE SurroundedMacro(facts[i])

CountUse(i) ==
  LET r == RuleUsed(facts[i], FindWrapper(facts[i])) IN
    uses' = IF r = 0 THEN uses ELSE [uses EXCEPT ![r] = @ + 1]

JudgeAllowed ==
  /\ Judging /\ IsOperation(Current) /\ ~Exempt(Current)
  /\ PermittedBy(next) # 0
  /\ CountUse(PermittedBy(next))
  /\ Advance
  /\ UNCHANGED <<stage, err, modelVars, arguments>>

(* From here on an indirect call has no wrapper.                           *)
WrapperOf(f) == IF f.indirect THEN 0 ELSE FindWrapper(f)

JudgeImplementation ==
  /\ Judging /\ IsOperation(Current) /\ ~Exempt(Current)
  /\ PermittedBy(next) = 0
  /\ IsImplementation(Current, WrapperOf(Current))
  /\ Advance
  /\ UNCHANGED <<stage, err, modelVars, arguments, uses>>

KindOf(f) ==
  IF f.indirect THEN "INDIRECT"
  ELSE IF FindWrapper(f) # 0 THEN "MISSED" ELSE "EXTERNAL"

Crosses(i) ==
  /\ IsOperation(facts[i]) /\ ~Exempt(facts[i])
  /\ PermittedBy(i) = 0
  /\ ~IsImplementation(facts[i], WrapperOf(facts[i]))

(* Mutant of PrintedIdentity: the USR as libclang spells it.               *)
PrintedIdentityRaw(f, w) == f.usr
PrintedIdentity(f, w) == CalleeIdentity(f, w)

JudgeCrossing ==
  /\ Judging /\ Crosses(next)
  /\ LET w == WrapperOf(Current) IN
       AddFinding(KindOf(Current), Current,
                  IF w = 0 THEN "" ELSE inventory[w].wrapper,
                  PrintedIdentity(Current, w))
  /\ UNCHANGED <<facts, inventory, parseFailures, arguments, uses>>

JudgeEnd ==
  /\ stage = "judge" /\ next > Len(facts)
  /\ stage' = "rules"
  /\ UNCHANGED <<err, modelVars, judgeVars>>

(* Mutant of AllUsed: a rule is judged by the one before it.               *)
AllUsedButLast == \A r \in DOMAIN uses : r < Len(arguments.rules) => uses[r] > 0
AllUsed == \A r \in DOMAIN uses : uses[r] > 0

(* A rule nothing used is an error, and the audit is not written.          *)
CheckRules ==
  /\ stage = "rules"
  /\ err' = ~AllUsed
  /\ stage' = IF AllUsed THEN "report" ELSE "exit"
  /\ UNCHANGED <<modelVars, judgeVars>>

Judge ==
  \/ JudgeInclude \/ JudgePassBy \/ JudgeAllowed \/ JudgeImplementation
  \/ JudgeCrossing \/ JudgeEnd \/ CheckRules

Stopped == stage \in {"report", "exit"} /\ UNCHANGED vars

Next == Judge \/ Stopped

(* The loops run to their end: nothing in them waits.                      *)
Spec == Init /\ [][Next]_vars /\ WF_vars(Judge)
-----------------------------------------------------------------------------
Reported(f, n) ==
  /\ findings[n].path = f.path /\ findings[n].name = f.name
  /\ findings[n].line = f.line /\ findings[n].column = f.column

(* No call that crosses the boundary goes unreported, whatever else is at  *)
(* its place: the duplicate check of add_finding may only drop a call that *)
(* already has a finding at the same place under the same name.  And every *)
(* finding is about a platform's header or about an operation inside a     *)
(* function that nothing allows, and is the only one of its name and       *)
(* place.                                                                  *)
FindingsAreExact ==
  /\ \A i \in 1 .. next - 1 :
       IsPlatformInclude(facts[i]) \/ Crosses(i) =>
         \E n \in DOMAIN findings : Reported(facts[i], n)
  /\ \A n \in DOMAIN findings : \E i \in 1 .. next - 1 :
       LET f == facts[i]
           w == FindWrapper(f)
       IN /\ Reported(f, n)
          /\ IF findings[n].kind = "PORTABILITY" THEN IsPlatformInclude(f)
             ELSE /\ f.kind = "CALL" \/ SemanticCaller(f) # ""
                  /\ ~IsLocal(f) /\ ~IsTheWrap(f, w)
                  /\ CalleeIdentity(f, w) \notin AllowedUsrs
                  /\ \A r \in DOMAIN arguments.rules :
                       ~RuleCovers(arguments.rules[r], f, w)
  /\ \A n, m \in DOMAIN findings :
       Reported(findings[m], n) => n = m

(* An operator can copy the identity a finding prints into an allow rule:  *)
(* the rule then covers the call, although the finding is made after an    *)
(* indirect call has lost its wrapper and is_allowed ran before.           *)
IdentityIsCopyable ==
  \A n \in DOMAIN findings :
    findings[n].kind # "PORTABILITY" /\ findings[n].identity # "" =>
      \E i \in 1 .. next - 1 :
        /\ Reported(facts[i], n)
        /\ RuleCovers([paths |-> Paths, callerUsr |-> "",
                       calleeUsr |-> findings[n].identity],
                      facts[i], FindWrapper(facts[i]))

(* An audit is written only when every allow rule covers some operation of *)
(* the scanned sources that nothing before the rules had excused.          *)
AuditMeansRulesMatch ==
  stage = "report" =>
    \A r \in DOMAIN arguments.rules : \E i \in DOMAIN facts :
      LET w == FindWrapper(facts[i]) IN
        /\ RuleCovers(arguments.rules[r], facts[i], w)
        /\ ~AllowedWithoutRule(facts[i], w)

-----------------------------------------------------------------------------
(* Two statements of the repository that the code does not keep.           *)

(* "A wrapper must call the native function it wraps; that call is the     *)
(* wrap, not a missed one" (comment in is_allowed).                        *)
WrapIsNeverMissed ==
  \A n \in DOMAIN findings : findings[n].kind = "MISSED" =>
    \E i \in 1 .. next - 1 :
      /\ Reported(facts[i], n)
      /\ ~ \E m \in DOMAIN inventory :
             /\ IsFor(inventory[m], facts[i])
             /\ facts[i].callerUsr = inventory[m].wrapperUsr

=============================================================================
