--------------------------- MODULE BoundaryPolicy --------------------------
(***************************************************************************)
(* The policy boundaries: each row of the register names a function that   *)
(* owns a boundary and, for each of a fixed list of tests, the evidence: a *)
(* function of a test file with a role, or a marker in a script that the   *)
(* build runs.  With an execution receipt, each owner's suite must have    *)
(* passed.                                                                 *)
(***************************************************************************)
EXTENDS WorkspaceResult

CONSTANT TestCount   \* BOUNDARY_TEST_COUNT

ASSUME TestCountAssumption == TestCount \in Nat \ {0}

VARIABLES
  turn,    \* the loop over the tests of a row
  last,    \* evidence_path and evidence_value, kept from one to the next
  seen     \* seen_evidence_path and seen_evidence_value

boundaryVars == <<turn, last, seen>>

Register == workspace.register
Boundary == Register.rows[position + 1]
Nothing == [path |-> NoText, value |-> NoText]
Unseen == [t \in 1 .. TestCount |-> Nothing]
Inside == workspace.source.facts
RequiredTexts == 9

-----------------------------------------------------------------------------
BoundaryInit == turn = 0 /\ last = Nothing /\ seen = Unseen

(* The two buffers are not set at the start: they may hold anything, of    *)
(* which it matters only whether some evidence equals it.                  *)
RegisterRead ==
  /\ stage = "boundaries"
  /\ \/ /\ Register.is = "valid" /\ options.facts /\ Loads(workspace.source)
        /\ stage' = "register" /\ UNCHANGED <<findings, err>>
        /\ last' \in {Nothing} \cup workspace.leftover
     \/ /\ Register.is = "invalid" /\ Add(Finding("schema", "register"))
        /\ stage' = (IF err' THEN "end" ELSE "write") /\ UNCHANGED last
     \/ GiveUp /\ UNCHANGED <<findings, last>>
  /\ UNCHANGED <<options, workspace, checks, position, turn, seen>>

(* boundary_path: what realpath makes of a name in the workspace.          *)
Resolves(name) == name \in DOMAIN workspace.paths
OwnerDeclared(r) ==
  /\ r.source # NoText /\ r.usr # NoText /\ Resolves(r.source)
  /\ \E f \in Inside : /\ f.kind = "FUNCTION" /\ f.usr = r.usr
                       /\ f.path = workspace.paths[r.source]
(* boundary_identity_is_unique; a row before it that cannot be read        *)
(* settles it as well.                                                     *)
Identified(r) ==
  r.is = "row" /\ r.id # NoText /\ r.source # NoText /\ r.usr # NoText
(* Mutant of Unique: only the row before is looked at.                     *)
UniqueBeside(i) ==
  i = 1 \/ Register.rows[i - 1].id # Register.rows[i].id
Unique(i) ==
  LET r == Register.rows[i] IN
  /\ r.source # NoText /\ r.usr # NoText
  /\ \A j \in 1 .. i - 1 :
       LET q == Register.rows[j] IN
       /\ Identified(q) /\ q.id # r.id
       /\ q.source # r.source \/ q.usr # r.usr

Faults(i) ==
  LET r == Register.rows[i] IN
  CASE r.is = "odd" -> <<Finding("not-object", "boundary")>>
    [] r.is = "row" /\ ~r.canonical -> <<Finding("no-identity", "boundary")>>
    [] OTHER ->
       [n \in 1 .. r.missing |-> Finding("field", r.id)]
       \o If(~OwnerDeclared(r), Finding("owner", r.id))
       \o If(~Unique(i), Finding("reused", r.id))
       \o If(~r.composed, Finding("composition", r.id))
       \o If(r.tests.is # "matrix", Finding("tests", r.id))

(* One row, up to its tests.                                               *)
JudgeBoundary ==
  /\ stage = "register" /\ position < Len(Register.rows)
  /\ AddAll(Faults(position + 1))
  /\ IF Boundary.is = "row" /\ Boundary.canonical
     THEN checks' = checks + RequiredTexts ELSE UNCHANGED checks
  /\ IF Boundary.is = "row" /\ Boundary.canonical /\ Boundary.tests.is = "matrix"
     THEN stage' = "evidence" /\ turn' = 1 /\ seen' = Unseen /\ UNCHANGED position
     ELSE UNCHANGED <<stage, turn, seen>> /\ position' = position + 1
  /\ UNCHANGED <<options, workspace, last>>

-----------------------------------------------------------------------------
Evidence == Boundary.tests.of[turn]
Looking == stage = "evidence" /\ turn <= TestCount
AtTest == Looking /\ turn <= Boundary.fits
About == <<Boundary.id, turn>>
Texts(e) == e.path # NoText /\ e.value # NoText /\ (e.by = "role" => e.usr # NoText)

(* boundary_test_wired: the one function with the role calls what it is to *)
(* show, itself or through one other.                                      *)
RoleWired(path, role, usr) ==
  LET notes == {f \in Inside : /\ f.kind = "NOTE" /\ f.path = path
                               /\ f.name = role /\ f.caller # NoText}
  IN  /\ Cardinality(notes) = 1
      /\ \E n \in notes, c \in Calls :
           /\ c.path = path /\ c.caller = n.caller
           /\ c.usr = usr \/ \E d \in Calls : d.caller = c.usr /\ d.usr = usr
(* boundary_shell_wired: the marker is in the script, and the script is in *)
(* the build file beside it, without which the run is in trouble.          *)
Marked(path, marker) == marker \in workspace.scripts[path].markers
MarkerWired(path, marker) ==
  Marked(path, marker) /\ workspace.scripts[path].build = "lists"
Wired(e) ==
  /\ e.shape /\ Texts(e) /\ Resolves(e.path)
  /\ LET path == workspace.paths[e.path] IN
     IF e.by = "role" THEN RoleWired(path, e.value, e.usr)
     ELSE MarkerWired(path, e.value)
ReadsScript(e) ==
  e.by = "marker" /\ e.shape /\ Texts(e) /\ Resolves(e.path)
Unbuilt(e) ==
  /\ ReadsScript(e)
  /\ LET path == workspace.paths[e.path] IN
     Marked(path, e.value) /\ workspace.scripts[path].build = "none"

(* Three ways a test needs no evidence, or has none.                       *)
NoEvidence ==
  /\ AtTest /\ Evidence.is \in {"missing", "not-applicable"}
  /\ LET fine == Evidence.is = "not-applicable" /\ Evidence.proper /\ turn = TestCount IN
     AddAll(If(~fine, Finding(Evidence.is, About)))
  /\ turn' = turn + 1
  /\ UNCHANGED <<stage, options, workspace, checks, position, last, seen>>

(* The texts that were found are copied; the others stay what they were.   *)
Copied(e) ==
  [path |-> IF e.path # NoText THEN e.path ELSE last.path,
   value |-> IF e.path # NoText /\ e.value # NoText THEN e.value ELSE last.value]
Repeated == \E t \in 1 .. turn - 1 : seen[t] = last'
(* Mutant of JudgeEvidence: evidence is not remembered.                    *)
JudgeEvidenceAlone ==
  /\ AtTest /\ Evidence.is = "given"
  /\ last' = Copied(Evidence) /\ UNCHANGED seen
  /\ AddAll(If(~Wired(Evidence), Finding("evidence", About)))
  /\ turn' = turn + 1 /\ checks' = checks + 1
  /\ UNCHANGED <<stage, options, workspace, position>>
JudgeEvidence ==
  /\ AtTest /\ Evidence.is = "given"
  /\ last' = Copied(Evidence) /\ seen' = [seen EXCEPT ![turn] = last']
  /\ \/ ~Unbuilt(Evidence)
        /\ AddAll(If(~Wired(Evidence) \/ Repeated, Finding("evidence", About)))
     \/ /\ ReadsScript(Evidence)
        /\ AddAnyway(Finding("evidence", About))
  /\ turn' = turn + 1 /\ checks' = checks + 1
  /\ UNCHANGED <<stage, options, workspace, position>>
(* The first test whose name does not fit after the identity ends the      *)
(* policy, without an error.                                               *)
OverlongIdentity ==
  /\ Looking /\ turn > Boundary.fits
  /\ stage' = "end"
  /\ UNCHANGED <<options, workspace, resultVars, position, boundaryVars>>
TestsDone ==
  /\ stage = "evidence" /\ turn > TestCount
  /\ stage' = "register" /\ position' = position + 1
  /\ UNCHANGED <<options, workspace, resultVars, boundaryVars>>

-----------------------------------------------------------------------------
Ran == workspace.executed
(* boundary_execution_evidence                                             *)
ReceiptRead ==
  /\ stage = "register" /\ position = Len(Register.rows)
  /\ \/ ~options.execution /\ PolicyEnds
     \/ /\ options.execution /\ Ran.is = "clean"
        /\ stage' = "execution" /\ UNCHANGED <<findings, err>>
     \/ /\ options.execution /\ Ran.is = "unclean"
        /\ Add(Finding("receipt", "execution"))
        /\ stage' = IF err' THEN "end" ELSE "write"
     \/ options.execution /\ GiveUp /\ UNCHANGED findings
  /\ position' = 0
  /\ UNCHANGED <<options, workspace, checks, boundaryVars>>

(* The records are read up to the one that shows the suite has passed, or  *)
(* to one that is none.                                                    *)
Passed(repository) ==
  \E k \in DOMAIN Ran.records :
    /\ \A j \in 1 .. k : Ran.records[j].is = "record"
    /\ Ran.records[k].repository = repository
    /\ Ran.records[k].unit \in {"PASS", "REUSED"}
JudgeOwner ==
  /\ stage = "execution" /\ position < Len(Register.rows)
  /\ LET r == Boundary
         fine == r.is = "row" /\ r.repository # NoText /\ Passed(r.repository)
     IN  AddAll(If(~fine, Finding("not-run", position)))
  /\ position' = position + 1 /\ checks' = checks + 1
  /\ UNCHANGED <<stage, options, workspace, boundaryVars>>
OwnersEnd ==
  /\ stage = "execution" /\ position = Len(Register.rows)
  /\ PolicyEnds
  /\ UNCHANGED <<options, workspace, checks, position, boundaryVars>>

Boundaries ==
  \/ RegisterRead \/ JudgeBoundary \/ NoEvidence \/ JudgeEvidence \/ OverlongIdentity \/ TestsDone
  \/ ReceiptRead \/ JudgeOwner \/ OwnersEnd

-----------------------------------------------------------------------------
(* What the register promises, said of the workspace.                      *)

Given(r) == {t \in DOMAIN r.tests.of : r.tests.of[t].is = "given"}
ShownBy(usr, e) ==
  LET path == workspace.paths[e.path] IN
  IF e.by = "marker" THEN MarkerWired(path, e.value)
  ELSE \E f \in {n.caller : n \in {m \in Inside : m.kind = "NOTE" /\ m.path = path
                                                   /\ m.name = e.value}} :
         /\ \A n \in Inside : n.kind = "NOTE" /\ n.path = path /\ n.name = e.value
                                => n.caller = f
         /\ \E c \in Calls : /\ c.caller = f /\ c.path = path
                             /\ \/ c.usr = usr
                                \/ \E d \in Calls : d.caller = c.usr /\ d.usr = usr
Kept(r) ==
  /\ r.is = "row" /\ r.canonical /\ r.missing = 0 /\ r.composed
  /\ OwnerDeclared(r) /\ r.tests.is = "matrix"
  /\ \A t \in DOMAIN r.tests.of \ Given(r) :
       t = TestCount /\ r.tests.of[t].is = "not-applicable" /\ r.tests.of[t].proper
  /\ \A t \in Given(r) : LET e == r.tests.of[t] IN
       /\ e.shape /\ Texts(e) /\ Resolves(e.path) /\ ShownBy(e.usr, e)
       /\ \A u \in Given(r) : LET o == r.tests.of[u] IN
            o.path = e.path /\ o.value = e.value => u = t
(* Every call and every note has an identity to go by.                     *)
AllNamed ==
  /\ \A c \in Calls : c.usr # NoText /\ c.caller # NoText
  /\ \A n, m \in Inside : n.kind = "NOTE" /\ m.kind = "NOTE" =>
       /\ n.caller # NoText
       /\ n.path = m.path /\ n.name = m.name /\ n.caller = m.caller => n = m
SuitePassed(r) ==
  \E k \in DOMAIN Ran.records :
    /\ Ran.records[k].is = "record" /\ Ran.records[k].repository = r.repository
    /\ Ran.records[k].unit \in {"PASS", "REUSED"}
RegisterKept ==
  /\ Register.is = "valid"
  /\ \A i, j \in DOMAIN Register.rows :
       LET r == Register.rows[i]  q == Register.rows[j] IN
       /\ Kept(r)
       /\ Kept(q) /\ i # j => r.id # q.id /\ (r.source # q.source \/ r.usr # q.usr)
  /\ options.execution =>
       Ran.is = "clean" /\ \A r \in ToSet(Register.rows) : SuitePassed(r)

(* What the rows of a register and of a receipt are once they were read.   *)
BoundaryRow(r) ==
  /\ r.is \in {"row", "odd"}
  /\ r.is = "row" => r.missing \in Nat /\ (r.canonical => r.id # NoText)
  /\ r.is = "row" /\ r.tests.is = "matrix" =>
       /\ DOMAIN r.tests.of = 1 .. TestCount
       /\ \A t \in 1 .. TestCount :
            r.tests.of[t].is = "given" => r.tests.of[t].by \in {"role", "marker"}
RegisterTyped(o, w) ==
  /\ w.register.is = "valid" =>
       IsList(w.register.rows) /\ \A r \in ToSet(w.register.rows) : BoundaryRow(r)
  /\ Loads(w.source) => IsFiniteSet(w.source.facts)
  /\ o.execution /\ w.executed.is = "clean" =>
       /\ IsList(w.executed.records)
       /\ \A r \in ToSet(w.executed.records) : r.is = "record" => r.repository # NoText
=============================================================================
