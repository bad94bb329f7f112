----------------------------- MODULE WrapperScan ----------------------------
(***************************************************************************)
(* The scan of the sources, p101_wrapper_model_scan (src/src/model.c): the *)
(* observed records become facts, macro expansions get the function they   *)
(* lie in, and what several translation units saw of one header is kept    *)
(* once, in the order the judgement and the outputs rely on.               *)
(***************************************************************************)
EXTENDS WrapperObserver

CONSTANT InputRecords   \* what a scan of the sources can deliver

ASSUME ScanAssumption == InputRecords \subseteq Seq(Record)

scanVars == <<stage, err, modelVars, observerVars>>

ScanTypeOK ==
  /\ stage \in {"scan", "macros", "deduplicate", "scanned", "exit"}
  /\ err \in BOOLEAN
  /\ facts \in Seq(Fact)
  /\ inventory \in Seq(Mapping)
  /\ findings = <<>>
  /\ capacity \in [Arrays -> Nat] /\ WithinCapacity
  /\ ObserverTypeOK
  /\ parseFailures \in 0 .. delivered

ScanInit ==
  /\ stage = "scan" /\ err = FALSE
  /\ facts = <<>> /\ inventory = <<>> /\ findings = <<>>
  /\ parseFailures = 0
  /\ capacity = [a \in Arrays |-> 0]
  /\ records \in InputRecords /\ delivered = 0

-----------------------------------------------------------------------------
(* assign_macro_callers.                                                   *)

Unowned(f) == IsExpansion(f) /\ f.caller = ""

(* The calls a macro expanded to.                                          *)
Surrounding(f) ==
  {i \in DOMAIN facts :
     /\ facts[i].kind = "CALL" /\ facts[i].callerUsr # ""
     /\ facts[i].start <= f.start /\ f.end <= facts[i].end
     /\ facts[i].path = f.path}

Bodies(f) ==
  {i \in DOMAIN facts :
     /\ IsDefinition(facts[i])
     /\ facts[i].start <= facts[i].end /\ f.start <= f.end
     /\ facts[i].path = f.path
     /\ facts[i].start <= f.start /\ f.end <= facts[i].end}

(* The first such call lends its caller; if that leaves the display name   *)
(* empty, the narrowest function body around the expansion is the caller.  *)
OwnedByCall(f) ==
  LET i == First(Surrounding(f)) IN
    IF i = 0 THEN f
    ELSE [f EXCEPT !.caller = facts[i].caller,
                   !.callerUsr = facts[i].callerUsr]

(* Mutant of OwnedByBody: only a call can lend its caller.                 *)
OwnedByCallOnly(f) == f
OwnedByBody(f) ==
  LET i == Narrowest(facts, Bodies(f)) IN
    IF f.caller # "" \/ i = 0 THEN f
    ELSE [f EXCEPT !.caller = facts[i].name, !.callerUsr = facts[i].usr]

Owned(f) == IF Unowned(f) THEN OwnedByBody(OwnedByCall(f)) ELSE f

AssignMacroCallers ==
  /\ stage = "macros"
  /\ facts' = [i \in DOMAIN facts |-> Owned(facts[i])]
  /\ stage' = "deduplicate"
  /\ UNCHANGED <<err, inventory, findings, parseFailures, capacity,
                 observerVars>>

-----------------------------------------------------------------------------
(* deduplicate_facts.                                                      *)

(* Mutant of Representatives: one fact is kept for each place.             *)
OnePerPlace ==
  {K \in SUBSET DOMAIN facts :
     \A i \in DOMAIN facts :
       Cardinality({k \in K : /\ facts[k].path = facts[i].path
                              /\ facts[k].line = facts[i].line
                              /\ facts[k].column = facts[i].column}) = 1}
(* What qsort leaves next to each other: facts compare_facts calls equal.  *)
(* Which of them comes first, and so is the one kept, is qsort's choice.   *)
Representatives ==
  {K \in SUBSET DOMAIN facts :
     \A i \in DOMAIN facts :
       Cardinality({k \in K : Alike(facts[k], facts[i])}) = 1}

InOrder(K) == Sorted({facts[k] : k \in K})

Deduplicate ==
  /\ stage = "deduplicate"
  /\ \E K \in Representatives : facts' = InOrder(K)
  /\ stage' = "scanned"
  /\ UNCHANGED <<err, inventory, findings, parseFailures, capacity,
                 observerVars>>

-----------------------------------------------------------------------------
ObserveSource == stage = "scan" /\ Observe

SourceScanFails == stage = "scan" /\ ScanFails

SourceScanEnds ==
  /\ stage = "scan" /\ ScanEnded
  /\ stage' = "macros"
  /\ UNCHANGED <<err, modelVars, observerVars>>

Scan ==
  \/ ObserveSource \/ SourceScanFails \/ SourceScanEnds
  \/ AssignMacroCallers \/ Deduplicate

ScanStopped == stage \in {"scanned", "exit"} /\ UNCHANGED scanVars

ScanNext == Scan \/ ScanStopped

ScanSpec == ScanInit /\ [][ScanNext]_scanVars
-----------------------------------------------------------------------------
(* A fact up to what assign_macro_callers writes.                          *)
Unassigned(f) ==
  IF IsExpansion(f) THEN [f EXCEPT !.caller = "", !.callerUsr = ""] ELSE f

(* What the judgement may rely on, whatever order qsort leaves equal facts *)
(* in: the facts are in strict order, so each occurs once; every record    *)
(* has a fact with the same place, name and identity, so the duplicate     *)
(* check loses none; and every fact is one of the records, up to the owner *)
(* of a macro, so nothing is invented.  At every point each diagnostic the *)
(* library delivered is counted, the one of a refused record too: no scan  *)
(* with a parse failure can end in a clean status.                         *)
ScannedIsWhatWasSeen ==
  /\ parseFailures = DiagnosticsIn(records, delivered)
  /\ stage = "scanned" =>
       /\ InFactOrder(facts)
       /\ \A n \in DOMAIN records : \E i \in DOMAIN facts :
            Alike(Unassigned(facts[i]), Unassigned(records[n].fact))
       /\ \A i \in DOMAIN facts : \E n \in DOMAIN records :
            Unassigned(facts[i]) = Unassigned(records[n].fact)

(* A definition or a caller that the library has a name for but no USR.    *)
Anonymous(f) ==
  \/ IsDefinition(f) /\ f.usr = ""
  \/ f.caller # "" /\ f.callerUsr = ""

(* The owner of an expansion is the caller of a call it is part of, a body *)
(* around it, or the one its record came with; it has a USR unless the     *)
(* library left one out.                                                   *)
OwnerFound(f) ==
  /\ \/ \E c \in Surrounding(f) : facts[c].callerUsr = f.callerUsr
     \/ \E b \in Bodies(f) : facts[b].usr = f.callerUsr
     \/ \E n \in DOMAIN records :
          records[n].fact.caller # "" /\ records[n].fact = f
  /\ f.callerUsr # "" \/ \E n \in DOMAIN records : Anonymous(records[n].fact)

(* An expansion inside a function body belongs to a function afterwards.   *)
ExpansionsOwned ==
  stage = "scanned" =>
    \A i \in DOMAIN facts :
      IsExpansion(facts[i]) /\ Bodies(facts[i]) # {} => OwnerFound(facts[i])

=============================================================================
