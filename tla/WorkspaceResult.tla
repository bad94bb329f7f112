-------------------------- MODULE WorkspaceResult --------------------------
(***************************************************************************)
(* What the policies of audit-workspace (components/workspace) share: the  *)
(* command's options, the workspace under audit, the array of findings and *)
(* the sticky error.                                                       *)
(***************************************************************************)
EXTENDS Naturals, Sequences, FiniteSets, SequencesExt

CONSTANTS
  FirstCapacity,   \* WORKSPACE_INITIAL_FINDING_CAPACITY
  NoText           \* a field that is absent or empty

ASSUME FirstCapacityAssumption == FirstCapacity \in Nat \ {0}

VARIABLES
  stage,       \* where the run stands; a policy has stages of its own
  options,     \* struct p101_workspace_audit_options, as parsed
  workspace,   \* the files the policies read
  findings,    \* struct p101_workspace_audit_result
  checks,      \* its counter
  err,         \* the sticky error
  position     \* of the loop that runs

resultVars == <<findings, checks, err>>

Finding(what, about) == [what |-> what, about |-> about]

(* p101_workspace_audit_add: the array is full each time it was doubled,   *)
(* and may fail to grow then.                                              *)
FullAt(count) ==
  count = 0 \/ \E k \in 0 .. count : count = FirstCapacity * 2 ^ k
FindingsFull == FullAt(Len(findings))
Add(finding) ==
  \/ findings' = Append(findings, finding) /\ UNCHANGED err
  \/ FindingsFull /\ err' = TRUE /\ UNCHANGED findings
If(condition, finding) == IF condition THEN <<finding>> ELSE <<>>
(* One finding for each of some places, in their order.                    *)
ForEach(places, finding) ==
  [k \in 1 .. Cardinality(places) |-> finding[SetToSortSeq(places, <)[k]]]
(* Several findings in a row, amid which there may be trouble: one that    *)
(* was lost does not stop the next, but a missing text is not told once    *)
(* there is an error.                                                      *)
Silenced(fs, kept, i) ==
  fs[i].what = "text" /\ (err \/ \E j \in DOMAIN fs \ kept : j < i)
AddAmid(fs, trouble) ==
  \E kept \in SUBSET DOMAIN fs :
    LET lost == {i \in DOMAIN fs \ kept : ~Silenced(fs, kept, i)} IN
    /\ \A i \in kept : ~Silenced(fs, kept, i)
    /\ \A i \in lost : FullAt(Len(findings) + Cardinality({j \in kept : j < i}))
    /\ findings' = findings \o [n \in 1 .. Cardinality(kept) |->
                                 fs[SetToSortSeq(kept, <)[n]]]
    /\ err' = (err \/ trouble \/ lost # {})
AddAll(fs) == AddAmid(fs, FALSE)
(* A finding where an error was raised before it.                          *)
AddAnyway(finding) == AddAmid(<<finding>>, TRUE)
(* A message that does not fit its buffer is dropped without an error.     *)
Tell(finding, fits) ==
  IF fits THEN Add(finding) ELSE UNCHANGED <<findings, err>>

(* p101_workspace_audit_file_exists, where stat does not find the file: an *)
(* ENOENT is reset, and whether an error from before goes with it is the   *)
(* error library's affair; any other reason is an error.                   *)
NotFound == err' \in BOOLEAN
(* That is told whatever error there is by then.                           *)
TellMissing(finding, fits) ==
  \/ NotFound /\ findings' = IF fits THEN Append(findings, finding) ELSE findings
  \/ fits /\ FindingsFull /\ err' = TRUE /\ UNCHANGED findings

(* The policy returns false, with an error.                                *)
GiveUp == err' = TRUE /\ stage' = "end"
(* The policy returns whether there was no error.                          *)
PolicyEnds ==
  /\ stage' = IF err THEN "end" ELSE "write"
  /\ UNCHANGED <<findings, err>>

(* p101_workspace_fact_bundle_load, whole or not at all, or a scan.  A     *)
(* fact is [kind, path, usr, caller, line, name].                          *)
Loads(source) == source.is = "facts"
Calls == {f \in workspace.source.facts : f.kind = "CALL"}

(* The rows of a manifest before the first that is no good, or for which   *)
(* there is no room.                                                       *)
GoodRows(list, room) ==
  LET bad == {i \in DOMAIN list : list[i].is # "api" \/ i > room}
  IN  IF bad = {} THEN Len(list) ELSE Min(bad) - 1

(* Rows read with P101_ERROR_OPTIONAL: an error amid a file is taken for   *)
(* its end, and the last ones stay unread.                                 *)
Delivered(list, unread) == SubSeq(list, 1, Len(list) - unread)

(* Lists, of whatever they are.                                            *)
IsList(s) == s \in Seq(ToSet(s))
=============================================================================
