---------------------------- MODULE FaultPolicy ----------------------------
(***************************************************************************)
(* The policy wrapper-fault-semantics: the contract names five fault modes *)
(* and the wrappers that admit the two after dispatch; the sources of the  *)
(* mechanism, their manifest and two generated contracts must agree.  A    *)
(* field of a contract is its value, or Absent; a list is a sequence.      *)
(***************************************************************************)
EXTENDS WorkspaceResult

CONSTANT Absent

ASSUME AbsentAssumption ==
  Absent \notin {"ERROR", "SHORT", "UNCERTAIN", "before-call", "after-partial-progress",
                 "after-dispatch", "retry-safe", "progress-known", "outcome-uncertain",
                 "automatic-retry-forbidden", "kept", "drifted"}

Semantics == workspace.semantics
Admitted == Semantics.modes.of[4].supported    \* FAULT_SHORT_MODE_INDEX
Scanned == workspace.source.facts

ShortMode == 4
UncertainMode == 5
FaultModes == 1 .. 5
KindOf == <<"ERROR", "ERROR", "ERROR", "SHORT", "UNCERTAIN">>
PhaseOf ==
  <<"before-call", "before-call", "before-call", "after-partial-progress",
    "after-dispatch">>
DispositionOf ==
  <<"retry-safe", "retry-safe", "retry-safe", "progress-known", "outcome-uncertain">>

-----------------------------------------------------------------------------
(* load_contract, three times; the schema of the first is looked at.       *)
FaultRead ==
  /\ stage = "wrapper-fault-semantics"
  /\ \/ Semantics.is = "valid" /\ stage' = "modes" /\ UNCHANGED <<findings, err>>
     \/ /\ Semantics.is = "invalid" /\ Add(Finding("schema", "semantics"))
        /\ stage' = IF err' THEN "end" ELSE "write"
     \/ GiveUp /\ UNCHANGED findings
  /\ UNCHANGED <<options, workspace, checks, position>>

(* validate_modes: with no five modes it is over, without an error.        *)
ModesDrifted ==
  /\ stage = "modes" /\ Semantics.modes.is # "five"
  /\ AddAll(If(Semantics.modes.is = "absent", Finding("field", "modes"))
            \o <<Finding("inventory", "modes")>>)
  /\ stage' = "end"
  /\ UNCHANGED <<options, workspace, checks, position>>

Required(object, fields) ==
  LET missing == {i \in DOMAIN fields : object[fields[i]] = Absent}
  IN  ForEach(missing, [i \in missing |-> Finding("field", fields[i])])
Stated(object, field, value) ==
  IF object[field] = Absent THEN Required(object, <<field>>)
  ELSE If(object[field] # value, Finding("drift", field))
(* Mutant of SameAdmitted: only how many there are.                        *)
SameNumberAdmitted(supported) == Len(supported) = Len(Admitted)
SameAdmitted(supported) == supported = Admitted
ModeFaults(i) ==
  LET m == Semantics.modes.of[i] IN
  IF m.is = "missing" THEN <<Finding("inventory", i)>>
  ELSE If(~m.whole, Finding("fields", i))
       \o Stated(m, "kind", KindOf[i]) \o Stated(m, "phase", PhaseOf[i])
       \o Stated(m, "disposition", DispositionOf[i])
       \o (IF i \in {ShortMode, UncertainMode}
           THEN Required(m, <<"supported">>) ELSE <<>>)
       \o (IF i = UncertainMode
           THEN If(/\ Semantics.modes.of[ShortMode].is = "mode"
                   /\ Absent \notin {Admitted, m.supported}
                   /\ ~SameAdmitted(m.supported), Finding("differ", "supported"))
                \o Stated(m, "retry", "automatic-retry-forbidden")
           ELSE <<>>)
ModesUsable ==
  /\ \A i \in FaultModes : Semantics.modes.of[i].is = "mode"
  /\ Absent \notin {Admitted, Semantics.modes.of[UncertainMode].supported}

JudgeMode ==
  /\ stage = "modes" /\ Semantics.modes.is = "five" /\ position < Len(KindOf)
  /\ AddAll(ModeFaults(position + 1))
  /\ position' = position + 1
  /\ UNCHANGED <<stage, options, workspace, checks>>
ModesEnd ==
  /\ stage = "modes" /\ Semantics.modes.is = "five" /\ position = Len(KindOf)
  /\ stage' = (IF ModesUsable THEN "admitted" ELSE "end") /\ position' = 0
  /\ UNCHANGED <<options, workspace, resultVars>>

(* The manifest is read for each identity anew; one that cannot be read    *)
(* does not have it.                                                       *)
JudgeIdentity ==
  /\ stage = "admitted" /\ position < Len(Admitted)
  /\ LET usr == Admitted[position + 1] IN
     \/ AddAll(If(usr \notin workspace.manifest, Finding("manifest", usr)))
     \/ AddAnyway(Finding("manifest", usr))
  /\ position' = position + 1
  /\ UNCHANGED <<stage, options, workspace, checks>>

(* The three sources of the mechanism are scanned, those that can be.      *)
Analyse ==
  /\ stage = "admitted" /\ position = Len(Admitted)
  /\ \/ ~err /\ stage' = "mechanism" /\ UNCHANGED err
     \/ GiveUp
  /\ position' = 0
  /\ UNCHANGED <<options, workspace, findings, checks>>

-----------------------------------------------------------------------------
(* validate_fact_mechanism and validate_derived_contracts, in parts.       *)

Mechanism == Semantics.mechanism
MechanismUsable ==
  Mechanism.is = "mechanism" /\ Absent \notin {Mechanism.selector, Mechanism.recorder}
MechanismFields ==
  IF Mechanism.is = "missing" THEN <<Finding("field", "mechanism")>>
  ELSE If(~Mechanism.whole, Finding("fields", "mechanism"))
       \o Required(Mechanism, <<"selector", "recorder">>)

(* The identity of a mode without one is that of the mode before it, of    *)
(* the first whatever was there.                                           *)
Kinded(i) == {j \in 1 .. i : Semantics.modes.of[j].kind # Absent}
Enumerated(kind) == \E f \in Scanned : f.kind = "ENUMERATOR" /\ f.usr = kind
KindLost(i, stray) ==
  IF Kinded(i) = {} THEN ~stray
  ELSE ~Enumerated(Semantics.modes.of[Max(Kinded(i))].kind)
KindFaults(stray) ==
  LET lost == {i \in FaultModes : KindLost(i, stray)}
  IN  ForEach(lost, [i \in lost |-> Finding("kind", i)])

CallsOf(usr) == {c \in Calls : c.usr = usr}
CallersOf(usr) == {c.caller : c \in CallsOf(usr)}
ImplementationFaults ==
  LET using == CallersOf(Mechanism.selector) \cap CallersOf(Mechanism.recorder)
      idle == {n \in DOMAIN Admitted : Admitted[n] \notin using}
  IN  ForEach(idle, [n \in idle |-> Finding("implementation", Admitted[n])])
Uses == CallsOf(Mechanism.selector) \cup CallsOf(Mechanism.recorder)
CallerFaults ==
  LET undeclared == {c \in Uses : c.caller \notin ToSet(Admitted)}
  IN  [n \in 1 .. Cardinality(undeclared) |-> Finding("undeclared", "mechanism")]

Uncertain == Semantics.modes.of[UncertainMode]
RoleNotes == {f \in Scanned : f.kind = "NOTE" /\ f.name = Uncertain.role}
EvidenceShown ==
  /\ RoleNotes # {} /\ \A n, m \in RoleNotes : n.caller = m.caller
  /\ \E n \in RoleNotes : n.caller \in CallersOf(Uncertain.wrapper)
EvidenceFaults ==
  IF Absent \in {Uncertain.role, Uncertain.wrapper}
  THEN Required(Uncertain, <<"role", "wrapper">>)
  ELSE If(~EvidenceShown, Finding("evidence", Uncertain.role))

(* How often an entry with the mode "short" is of an admitted wrapper.     *)
Matched(entries) ==
  Cardinality({e \in (DOMAIN entries) \X (DOMAIN Admitted) :
                 entries[e[1]].short /\ entries[e[1]].usr = Admitted[e[2]]})
FailureFaults ==
  (CASE workspace.failure.semantics = Absent -> <<Finding("field", "semantics")>>
     [] workspace.failure.semantics = "drifted" -> <<Finding("boundary", "failure")>>
     [] OTHER -> <<>>)
  \o If(Matched(workspace.failure.wrappers) # Len(Admitted), Finding("matched", "failure"))
LifecycleFaults ==
  If(Matched(workspace.scenarios) # Len(Admitted), Finding("matched", "lifecycle"))

FaultPart(part, stray) ==
  CASE part = 1 -> MechanismFields
    [] part = 2 -> KindFaults(stray)
    [] part = 3 -> ImplementationFaults
    [] part = 4 -> CallerFaults
    [] part = 5 -> EvidenceFaults
    [] part = 6 -> FailureFaults
    [] part = 7 -> LifecycleFaults
DerivedPart == 6
LastPart == 7

JudgeFaultPart ==
  /\ stage = "mechanism" /\ position < LastPart
  /\ \E stray \in BOOLEAN : AddAll(FaultPart(position + 1, stray))
  /\ position' =
       IF position = 0 /\ ~MechanismUsable THEN DerivedPart - 1 ELSE position + 1
  /\ UNCHANGED <<stage, options, workspace, checks>>
FaultsEnd ==
  /\ stage = "mechanism" /\ position = LastPart
  /\ checks' = checks + Len(KindOf) + Len(Admitted)
  /\ PolicyEnds
  /\ UNCHANGED <<options, workspace, position>>

FaultSemantics ==
  \/ FaultRead \/ ModesDrifted \/ JudgeMode \/ ModesEnd \/ JudgeIdentity \/ Analyse
  \/ JudgeFaultPart \/ FaultsEnd

-----------------------------------------------------------------------------
(* What the contract promises, said of the workspace.                      *)

ModeKept(i) ==
  LET m == Semantics.modes.of[i] IN
  /\ m.is = "mode" /\ m.whole
  /\ m.kind = KindOf[i] /\ m.phase = PhaseOf[i] /\ m.disposition = DispositionOf[i]
  /\ \E f \in Scanned : f.kind = "ENUMERATOR" /\ f.usr = KindOf[i]
Once(entries, usr) ==
  Cardinality({e \in DOMAIN entries : entries[e].short /\ entries[e].usr = usr}) = 1
SemanticsKept ==
  /\ Semantics.is = "valid" /\ Semantics.modes.is = "five"
  /\ \A i \in FaultModes : ModeKept(i)
  /\ Absent # Admitted /\ Uncertain.supported = Admitted
  /\ Uncertain.retry = "automatic-retry-forbidden"
  /\ ToSet(Admitted) \subseteq workspace.manifest
  /\ MechanismUsable /\ Mechanism.whole
  /\ \A usr \in {Mechanism.selector, Mechanism.recorder} :
       {c.caller : c \in {d \in Calls : d.usr = usr}} = ToSet(Admitted)
  /\ \E function \in {f.caller : f \in Scanned} :
       /\ {f.caller : f \in {n \in Scanned : n.kind = "NOTE" /\ n.name = Uncertain.role}}
            = {function}
       /\ \E c \in Calls : c.caller = function /\ c.usr = Uncertain.wrapper
  /\ workspace.failure.semantics = "kept"
  /\ \A usr \in ToSet(Admitted) :
       Once(workspace.failure.wrappers, usr) /\ Once(workspace.scenarios, usr)
(* A generated contract has no more than one entry of a wrapper; one twice *)
(* would stand in for one that is missing.                                 *)
SemanticsReadable ==
  Semantics.is = "valid" /\ Semantics.modes.is = "five" /\ ModesUsable
NoneTwice ==
  /\ IsInjective(Admitted)
  /\ \A entries \in {workspace.failure.wrappers, workspace.scenarios} :
       \A i, j \in DOMAIN entries :
         entries[i].short /\ entries[j].short /\ entries[i].usr = entries[j].usr => i = j
(* A mode and the mechanism are there or are not, the wrappers that are    *)
(* admitted and the entries of the generated contracts are lists, and a    *)
(* fact has its texts.                                                     *)
SemanticsTyped(w) ==
  /\ w.semantics.is = "valid" /\ w.semantics.modes.is = "five" =>
       /\ \A i \in FaultModes : w.semantics.modes.of[i].is \in {"mode", "missing"}
       /\ LET short == w.semantics.modes.of[ShortMode] IN
          short.is = "mode" /\ short.supported # Absent => IsList(short.supported)
       /\ w.semantics.mechanism.is \in {"mechanism", "missing"}
  /\ IsFiniteSet(w.source.facts)
  /\ \A f \in w.source.facts : Absent \notin {f.usr, f.name}
  /\ w.failure.semantics \in {Absent, "drifted", "kept"}
  /\ IsList(w.failure.wrappers) /\ IsList(w.scenarios)
=============================================================================
