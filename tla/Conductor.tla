----------------------------- MODULE Conductor -----------------------------
(***************************************************************************)
(* What audit-doctor promises, with every file, process and error left     *)
(* out: it is told which checks to require, it learns one result for each  *)
(* of them, and it concludes with the worst result it learned.  It may     *)
(* give up at any time, but then the only conclusion is "trouble".         *)
(***************************************************************************)
CONSTANT Checks     \* the checks a run can require

VARIABLES
  required,         \* the checks this run must perform; {} until it is known
  result,           \* what each check reported; "none" until it has
  verdict           \* the conclusion; "none" until the run ends

conductorVars == <<required, result, verdict>>

Grades == {"clean", "findings", "trouble"}

(* The worst grade of a set of checks: trouble hides findings, findings    *)
(* hide clean.                                                             *)
Worst(grade, checks) ==
  IF \E c \in checks : grade[c] = "trouble" THEN "trouble"
  ELSE IF \E c \in checks : grade[c] = "findings" THEN "findings"
  ELSE "clean"

ConductorInit ==
  /\ required = {}
  /\ result = [c \in Checks |-> "none"]
  /\ verdict = "none"

Configure ==
  /\ required = {}
  /\ verdict = "none"
  /\ required' \in (SUBSET Checks) \ {{}}
  /\ UNCHANGED <<result, verdict>>

Report(c) ==
  /\ verdict = "none"
  /\ c \in required
  /\ result[c] = "none"
  /\ \E g \in Grades : result' = [result EXCEPT ![c] = g]
  /\ UNCHANGED <<required, verdict>>

Conclude ==
  /\ verdict = "none"
  /\ required # {}
  /\ \A c \in required : result[c] # "none"
  /\ verdict' = Worst(result, required)
  /\ UNCHANGED <<required, result>>

GiveUp ==
  /\ verdict = "none"
  /\ verdict' = "trouble"
  /\ UNCHANGED <<required, result>>

ConductorNext ==
  \/ Configure
  \/ \E c \in Checks : Report(c)
  \/ Conclude
  \/ GiveUp

ConductorSpec == ConductorInit /\ [][ConductorNext]_conductorVars
=============================================================================
