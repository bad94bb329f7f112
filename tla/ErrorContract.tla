--------------------------- MODULE ErrorContract ----------------------------
(***************************************************************************)
(* audit-errors: load the model, judge each function with its events, the  *)
(* ownership of error and environment objects in each file, and what a     *)
(* signal handler can reach, then report                                   *)
(* (components/error-contract/src/contract.c, report.c, main.c).           *)
(***************************************************************************)
EXTENDS ContractModel

CONSTANT Safe   \* safe_calls: the USRs of the async-signal-safe functions

ASSUME JudgeAssumption == Safe \subseteq STRING

VARIABLES
  fn,         \* the function that is judged
  ev,         \* the event that is judged
  covered,    \* env_reported and error_reported, of the copy that is judged
  reachable,  \* the functions a signal handler reaches
  changed,    \* this pass over the calls has reached a new function
  findings,   \* what was reported
  status      \* "none" until the tool ends

judgeVars == <<fn, ev, covered, reachable, changed, findings, status>>
vars == <<stage, err, loadVars, judgeVars>>

Stages == {"arguments", "load", "functions", "ownership", "handlers", "close", "signals",
           "report", "exit", "ended"}

(* A finding: the rule, the function record and the event it is about; 0   *)
(* where there is none.                                                    *)
Rules == DirectKinds \cup
  {"ENV_REQUIRED", "ERROR_REQUIRED", "ERROR_DISCARDED", "UNCHECKED_CHAIN",
   "ERROR_OWNERSHIP", "ENV_OWNERSHIP", "PROCESS_TERMINATION", "SINGLE_EXIT",
   "SIGNAL_SHARED_OBJECT_ACCESS", "SIGNAL_UNSAFE_CALL"}
Finding == [rule : Rules, path : STRING, line : Nat,
            function : Nat, event : Nat]

TypeOK ==
  /\ stage \in Stages /\ err \in BOOLEAN /\ args \in Arguments
  /\ records \in Seq(Record) /\ delivered \in 0 .. Len(records)
  /\ functions \in Seq(Function) /\ Len(functions) <= MaxFunctions
  /\ events \in Seq(Event) /\ Len(events) <= MaxEvents
  /\ \A p \in DOMAIN owners : p \in STRING /\ owners[p] \in Owner
  /\ fn \in Nat /\ (stage = "functions" => fn <= Len(functions))
  /\ ev \in 0 .. Len(events)
  /\ covered \subseteq {"env", "error"}
  /\ reachable \subseteq DOMAIN functions
  /\ changed \in BOOLEAN
  /\ findings \subseteq Finding
  /\ status \in {"none", "clean", "findings", "trouble"}

Init ==
  /\ stage = "arguments" /\ err = FALSE
  /\ args \in InputArguments
  /\ records \in InputRecords /\ delivered = 0
  /\ functions = <<>> /\ events = <<>>
  /\ owners = [p \in {} |-> Unowned]
  /\ fn = 0 /\ ev = 0 /\ covered = {}
  /\ reachable = {} /\ changed = FALSE
  /\ findings = {} /\ status = "none"

-----------------------------------------------------------------------------
(* The command line.                                                       *)

(* p101_error_contract_check_arguments.                                    *)
Acceptable(a) == ~a.malformed /\ ~a.empty /\ ~(a.facts /\ a.database)

(* main: help is given only when every option was understood, and may fail *)
(* to be written.                                                          *)
ParseArguments ==
  /\ stage = "arguments"
  /\ \/ ~args.help /\ Acceptable(args) /\ stage' = "load" /\ UNCHANGED err
     \/ ~args.help /\ ~Acceptable(args) /\ Refuse
     \/ args.help /\ args.malformed /\ Refuse
     \/ args.help /\ ~args.malformed /\ stage' = "exit" /\ err' \in BOOLEAN
  /\ UNCHANGED <<loadVars, judgeVars>>

-----------------------------------------------------------------------------
(* Reports a set of findings; a report that fails sets the error, may have *)
(* written some of them, and the caller goes on.                           *)
Report(found) ==
  \/ findings' = findings \cup found /\ UNCHANGED err
  \/ /\ found # {} /\ err' = TRUE
     /\ \E some \in (SUBSET found) \ {found} : findings' = findings \cup some

About(rule, i, j) ==
  [rule |-> rule, path |-> events[j].path, line |-> events[j].line,
   function |-> i, event |-> j]

-----------------------------------------------------------------------------
(* Which function an event lies in.                                        *)

(* next_function_line: another function of the file begins in between.     *)
Passed(f, line) ==
  \E i \in DOMAIN functions :
    /\ functions[i].path = f.path
    /\ f.line < functions[i].line /\ functions[i].line <= line

(* event_is_in_function: the caller the event names decides, else its      *)
(* offset, else its line.                                                  *)
IsIn(e, f) ==
  /\ e.path = f.path
  /\ IF e.callerUsr # "" THEN e.callerUsr = f.usr
     ELSE IF e.start # 0 /\ f.end > f.start
     THEN f.start <= e.start /\ e.start < f.end
     ELSE f.line <= e.line /\ ~Passed(f, e.line)

NotAfter(c, e) ==
  IF c.start # 0 /\ e.start # 0 THEN c.start <= e.start ELSE c.line <= e.line

(* visible_env_before_event and visible_error_before_event.                *)
UsedBefore(kind, e, f) ==
  \E j \in DOMAIN events :
    events[j].kind = kind /\ NotAfter(events[j], e) /\ IsIn(events[j], f)
VisibleEnv(e, f)   == f.env \/ UsedBefore("ENV_USE", e, f)
VisibleError(e, f) == f.error \/ UsedBefore("ERROR_USE", e, f)

(* error_is_explicitly_optional.                                           *)
Optional(e, f) ==
  \E j \in DOMAIN events :
    /\ events[j].kind = "ERROR_OPTIONAL" /\ IsIn(events[j], f)
    /\ events[j].line = e.line /\ events[j].start = e.start
    /\ events[j].callerUsr = e.callerUsr

NeedsEnv(e)   == e.kind = "TRACE_USE" \/ (e.kind = "CALL" /\ e.env)
NeedsError(e) == e.kind = "ERROR_CHECK" \/ (e.kind = "CALL" /\ e.error)

-----------------------------------------------------------------------------
(* The single-exit rule.                                                   *)

EarlyReturn(f) ==
  First({j \in DOMAIN events :
           events[j].kind = "FUNCTION_EARLY_RETURN" /\ IsIn(events[j], f)})

IsExit(e) == e.kind \in {"FUNCTION_RETURN", "PROCESS_TERMINATION"}

(* exit_event_is_duplicate: an earlier record of the same exit.            *)
SameExit(d, e) ==
  /\ d.kind = e.kind /\ d.line = e.line /\ d.start = e.start
  /\ d.path = e.path /\ d.callerUsr = e.callerUsr

(* Mutant of Exits: an exit two translation units saw counts twice.        *)
ExitsAsRecorded(f) ==
  {j \in DOMAIN events : IsExit(events[j]) /\ IsIn(events[j], f)}
(* function_exit_count counts these.                                       *)
Exits(f) ==
  {j \in DOMAIN events :
     /\ IsExit(events[j]) /\ IsIn(events[j], f)
     /\ ~ \E i \in 1 .. j - 1 : SameExit(events[i], events[j])}

SecondExit(f) == First(Exits(f) \ {First(Exits(f))})

SingleExitFindings(i) ==
  LET f == functions[i]
      early == EarlyReturn(f)
  IN IF early # 0 THEN {About("SINGLE_EXIT", i, early)}
     ELSE IF Cardinality(Exits(f)) > 1
     THEN {About("SINGLE_EXIT", i, SecondExit(f))}
     ELSE {}

-----------------------------------------------------------------------------
(* analyze_model: each function with each event; an error ends it.         *)

(* What reaches the model: all but the lines that were passed over.        *)
Taken == {n \in DOMAIN records : ~Lost(records[n])}

(* Saved facts must have held some (fact_count).                           *)
Begin ==
  /\ stage = "load" /\ delivered = Len(records)
  /\ args.facts => Taken # {}
  /\ stage' = "functions" /\ fn' = 0 /\ ev' = Len(events)
  /\ UNCHANGED <<err, loadVars, covered, reachable, changed, findings, status>>

(* The next function: its contracts count as not yet reported, and its     *)
(* exits are judged first.                                                 *)
JudgeFunction ==
  /\ stage = "functions" /\ ~err
  /\ ev = Len(events) /\ fn < Len(functions)
  /\ fn' = fn + 1 /\ ev' = 0 /\ covered' = {}
  /\ Report(SingleExitFindings(fn + 1))
  /\ UNCHANGED <<stage, loadVars, reachable, changed, status>>

Terminates(e, f) ==
  e.kind = "PROCESS_TERMINATION" /\ f.usr # "c:@F@main" /\ ~f.adapter

EnvMissing(e, f) == NeedsEnv(e) /\ "env" \notin covered /\ ~VisibleEnv(e, f)
ErrorMissing(e, f) ==
  NeedsError(e) /\ "error" \notin covered /\ ~VisibleError(e, f) /\ ~Optional(e, f)

(* The rules one event of a function breaks.                               *)
Broken(e, f) ==
  IF Terminates(e, f) THEN {"PROCESS_TERMINATION"}
  ELSE IF e.kind \in DirectKinds THEN {e.kind}
  ELSE {rule \in {"ENV_REQUIRED", "ERROR_REQUIRED", "ERROR_DISCARDED",
                  "UNCHECKED_CHAIN"} :
          CASE rule = "ENV_REQUIRED" -> EnvMissing(e, f)
            [] rule = "ERROR_REQUIRED" -> ErrorMissing(e, f)
            [] rule = "ERROR_DISCARDED" ->
                 e.kind = "ERROR_DISCARD" /\ ~Optional(e, f)
            [] rule = "UNCHECKED_CHAIN" ->
                 args.strict /\ e.kind = "ERROR_UNCHECKED_CHAIN" /\ ~Optional(e, f)}

(* Mutant of Covered: what was reported for a function is not remembered.  *)
CoveredNever(rules) == covered
Covered(rules) ==
  covered \cup {c \in {"env", "error"} :
     \/ c = "env" /\ "ENV_REQUIRED" \in rules
     \/ c = "error" /\ "ERROR_REQUIRED" \in rules}

JudgeEvent ==
  /\ stage = "functions" /\ ~err /\ ev < Len(events)
  /\ ev' = ev + 1
  /\ LET e == events[ev + 1]
         f == functions[fn]
         rules == IF IsIn(e, f) THEN Broken(e, f) ELSE {}
     IN /\ Report({About(rule, fn, ev + 1) : rule \in rules})
        /\ covered' = Covered(rules)
  /\ UNCHANGED <<stage, loadVars, fn, reachable, changed, status>>

FunctionsEnd ==
  /\ stage = "functions"
  /\ err \/ (fn = Len(functions) /\ ev = Len(events))
  /\ stage' = "ownership"
  /\ UNCHANGED <<err, loadVars, judgeVars>>

-----------------------------------------------------------------------------
(* analyze_ownership: per file; an error ends it too.                      *)

Unreleased(p, what) ==
  IF what = "error"
  THEN owners[p].count["ERROR_ACQUIRE"] > owners[p].count["ERROR_RELEASE"]
  ELSE owners[p].count["ENV_ACQUIRE"] > owners[p].count["ENV_RELEASE"]

OwnershipFindings ==
  {[rule |-> "ERROR_OWNERSHIP", path |-> p,
    line |-> owners[p].first["ERROR_ACQUIRE"], function |-> 0, event |-> 0] :
     p \in {q \in DOMAIN owners : Unreleased(q, "error")}}
  \cup
  {[rule |-> "ENV_OWNERSHIP", path |-> p,
    line |-> owners[p].first["ENV_ACQUIRE"], function |-> 0, event |-> 0] :
     p \in {q \in DOMAIN owners : Unreleased(q, "env")}}

JudgeOwnership ==
  /\ stage = "ownership"
  /\ stage' = "handlers"
  /\ IF err THEN UNCHANGED <<err, findings>> ELSE Report(OwnershipFindings)
  /\ UNCHANGED <<loadVars, fn, ev, covered, reachable, changed, status>>

-----------------------------------------------------------------------------
(* analyze_signal_handlers.                                                *)

(* function_index_by_usr: the first record of a function; 0 for none.      *)
IndexOf(usr) ==
  First({i \in DOMAIN functions : usr # "" /\ functions[i].usr = usr})

Handlers ==
  {IndexOf(events[j].callerUsr) :
     j \in {k \in DOMAIN events : events[k].kind = "SIGNAL_HANDLER_REGISTERED"}}
  \ {0}

MarkHandlers ==
  /\ stage = "handlers"
  /\ reachable' = Handlers
  /\ stage' = "close" /\ ev' = 0 /\ changed' = FALSE
  /\ UNCHANGED <<err, loadVars, fn, covered, findings, status>>

IsCall(j) == events[j].kind = "CALL"
Caller(j) == IndexOf(events[j].callerUsr)
Callee(j) == IndexOf(events[j].usr)

(* Mutant of Follows: a callee that was reached before is followed again.  *)
FollowsAgain(j) == IsCall(j) /\ Caller(j) \in reachable /\ Callee(j) # 0
Follows(j) ==
  /\ IsCall(j) /\ Caller(j) \in reachable
  /\ Callee(j) # 0 /\ Callee(j) \notin reachable

FollowCall ==
  /\ stage = "close" /\ ev < Len(events)
  /\ ev' = ev + 1
  /\ IF Follows(ev + 1)
     THEN reachable' = reachable \cup {Callee(ev + 1)} /\ changed' = TRUE
     ELSE UNCHANGED <<reachable, changed>>
  /\ UNCHANGED <<stage, err, loadVars, fn, covered, findings, status>>

(* Mutant of PassEnds: one pass over the calls has to do.                  *)
PassEndsAtOnce ==
  /\ stage = "close" /\ ev = Len(events)
  /\ ev' = 0 /\ stage' = "signals"
  /\ UNCHANGED <<err, loadVars, fn, covered, reachable, changed, findings,
                 status>>
(* do ... while(changed).                                                  *)
PassEnds ==
  /\ stage = "close" /\ ev = Len(events)
  /\ ev' = 0 /\ changed' = FALSE
  /\ stage' = IF changed THEN "close" ELSE "signals"
  /\ UNCHANGED <<err, loadVars, fn, covered, reachable, findings, status>>

SignalSafe(usr) == usr \in Safe

(* Mutant of SignalRules: a call of a function of the program is judged by *)
(* the table too.                                                          *)
SignalRulesByTable(j) ==
  IF events[j].kind = "SIGNAL_SHARED_OBJECT_ACCESS"
  THEN {"SIGNAL_SHARED_OBJECT_ACCESS"}
  ELSE IF IsCall(j) /\ ~SignalSafe(events[j].usr)
  THEN {"SIGNAL_UNSAFE_CALL"} ELSE {}
SignalRules(j) ==
  IF events[j].kind = "SIGNAL_SHARED_OBJECT_ACCESS"
  THEN {"SIGNAL_SHARED_OBJECT_ACCESS"}
  ELSE IF IsCall(j) /\ Callee(j) = 0 /\ ~SignalSafe(events[j].usr)
  THEN {"SIGNAL_UNSAFE_CALL"} ELSE {}

(* This loop goes on after a report has failed.                            *)
JudgeSignalEvent ==
  /\ stage = "signals" /\ ev < Len(events)
  /\ ev' = ev + 1
  /\ LET j == ev + 1
         rules == IF Caller(j) \in reachable THEN SignalRules(j) ELSE {}
     IN Report({About(rule, Caller(j), j) : rule \in rules})
  /\ UNCHANGED <<stage, loadVars, fn, covered, reachable, changed, status>>

SignalsEnd ==
  /\ stage = "signals" /\ ev = Len(events)
  /\ stage' = IF err THEN "exit" ELSE "report"
  /\ UNCHANGED <<err, loadVars, judgeVars>>

-----------------------------------------------------------------------------
ReportEnd ==
  /\ stage = "report"
  /\ stage' = "exit" /\ err' \in BOOLEAN
  /\ UNCHANGED <<loadVars, judgeVars>>

Exit ==
  /\ stage = "exit"
  /\ status' = IF err THEN "trouble"
               ELSE IF findings = {} THEN "clean" ELSE "findings"
  /\ stage' = "ended"
  /\ UNCHANGED <<err, loadVars, fn, ev, covered, reachable, changed, findings>>

Load == (Apply \/ PassOver \/ LoadFails) /\ UNCHANGED judgeVars

Run ==
  \/ ParseArguments \/ Load \/ Begin \/ JudgeFunction \/ JudgeEvent \/ FunctionsEnd
  \/ JudgeOwnership \/ MarkHandlers \/ FollowCall \/ PassEnds
  \/ JudgeSignalEvent \/ SignalsEnd \/ ReportEnd \/ Exit

Ended == stage = "ended" /\ UNCHANGED vars

Next == Run \/ Ended

(* One thread; the analysis library's scan is assumed to end.              *)
Spec == Init /\ [][Next]_vars /\ WF_vars(Run)
-----------------------------------------------------------------------------
Judged == stage \notin {"arguments", "load", "functions"} /\ ~err
Told(rule, i) == {x \in findings : x.rule = rule /\ x.function = i}

(* A function is told about its exits once, and exactly when it returns    *)
(* early or leaves at two different places: an exit that several           *)
(* translation units recorded is one exit.  A function whose calls need an *)
(* environment or an error object that is not in sight is told so once,    *)
(* not once for each call, and the functions judged before it do not use   *)
(* up its turn.                                                            *)
ToldOnce ==
  Judged => \A i \in DOMAIN functions :
    LET f == functions[i]
        mine == {j \in DOMAIN events : IsIn(events[j], f)}
        exits == {j \in mine : IsExit(events[j])}
    IN /\ Cardinality(Told("SINGLE_EXIT", i)) =
            IF \/ EarlyReturn(f) # 0
               \/ \E j, k \in exits : ~SameExit(events[j], events[k])
            THEN 1 ELSE 0
       /\ Cardinality(Told("ENV_REQUIRED", i)) =
            IF \E j \in mine : NeedsEnv(events[j]) /\ ~VisibleEnv(events[j], f)
            THEN 1 ELSE 0
       /\ Cardinality(Told("ERROR_REQUIRED", i)) =
            IF \E j \in mine : /\ NeedsError(events[j])
                               /\ ~VisibleError(events[j], f)
                               /\ ~Optional(events[j], f)
            THEN 1 ELSE 0

(* A set of functions no call leads out of.                                *)
Closed(S) ==
  \A j \in DOMAIN events :
    IsCall(j) /\ Caller(j) \in S /\ Callee(j) # 0 => Callee(j) \in S

(* In whatever order the calls were recorded, the loop ends with exactly   *)
(* what the handlers reach: the least closed set that holds them.          *)
ReachableIsLeast ==
  stage \in {"signals", "report"} =>
    /\ Handlers \subseteq reachable
    /\ Closed(reachable)
    /\ \A S \in SUBSET DOMAIN functions :
         Handlers \subseteq S /\ Closed(S) => reachable \subseteq S

(* Each call a handler reaches that leaves the program outside the safe    *)
(* set is reported, and no other call is.                                  *)
UnsafeCallsReported ==
  stage = "report" => \A j \in DOMAIN events :
    (\E x \in findings : x.rule = "SIGNAL_UNSAFE_CALL" /\ x.event = j)
    <=> /\ IsCall(j) /\ events[j].usr \notin Safe
        /\ \E i \in reachable : functions[i].usr = events[j].callerUsr
        /\ ~ \E i \in DOMAIN functions :
              events[j].usr # "" /\ functions[i].usr = events[j].usr

RecordsOf(kinds) == {n \in Taken : records[n].kind \in kinds}
Acquired(path, role) ==
  Cardinality({n \in RecordsOf({role}) : records[n].path = path})

(* "Analysis fails as tool trouble rather than silently reporting a        *)
(* partial clean result" (components/error-contract/README.md): however    *)
(* full its tables are, a clean run has judged every record that reached   *)
(* it, no file of it keeps more objects than it gives back, and saved      *)
(* facts were some.  It is not said, for the code does not keep it, of a   *)
(* record on a saved line that is too long for the read buffer: such a     *)
(* line is lost without a word (contract_model.c, fact_line_is_complete).  *)
CleanIsEarned ==
  status = "clean" /\ ~args.help =>
    /\ Acceptable(args) /\ (args.facts => Taken # {})
    /\ RecordsOf({"DIAGNOSTIC"}) = {}
    /\ Len(functions) = Cardinality(RecordsOf({"FUNCTION"}))
    /\ Len(events) = Cardinality(RecordsOf(NoteEvents \cup {"CALL"}))
    /\ \A n \in Taken : LET p == records[n].path IN
         /\ Acquired(p, "ERROR_ACQUIRE") <= Acquired(p, "ERROR_RELEASE")
         /\ Acquired(p, "ENV_ACQUIRE") <= Acquired(p, "ENV_RELEASE")

(* Every loop ends, the one over the calls too, although calls can form    *)
(* cycles.                                                                 *)
EventuallyEnds == <>(stage = "ended")

-----------------------------------------------------------------------------
(* A statement of the repository that the code does not keep:              *)
(* P101-SIGNAL-002 is "code reachable from a registered signal handler     *)
(* calls an external operation outside the portable async-signal-safe set" *)
(* (README.md): a call that ends the process, as exit does, is one.        *)
UnsafeTerminationReported ==
  stage = "report" => \A j \in DOMAIN events :
    /\ events[j].kind = "PROCESS_TERMINATION" /\ events[j].usr \notin Safe
    /\ Caller(j) \in reachable /\ Callee(j) = 0
    => \E x \in findings : x.rule = "SIGNAL_UNSAFE_CALL" /\ x.event = j
=============================================================================
