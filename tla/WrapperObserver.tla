-------------------------- MODULE WrapperObserver ---------------------------
(***************************************************************************)
(* The callback the analysis library calls with each record of a scan,     *)
(* p101_wrapper_analysis_observer (src/src/model.c).  Both the scan of a   *)
(* header root and the scan of the sources run it.  The library itself is  *)
(* outside the repository: a scan delivers its records in order, stops     *)
(* when the callback refuses one, and may fail by itself at any time.      *)
(***************************************************************************)
EXTENDS WrapperFacts

VARIABLES
  records,    \* what the running scan delivers
  delivered   \* how many of them the callback has seen

observerVars == <<records, delivered>>

(* A record: the fact it carries, and whether its identities and types fit *)
(* the fields of struct p101_wrapper_fact.                                 *)
Record == [fact : Fact, fits : BOOLEAN]

ObserverTypeOK ==
  /\ records \in Seq(Record)
  /\ delivered \in 0 .. Len(records)

Fails == err' = TRUE /\ stage' = "exit"

StartScan(list) == records' = list /\ delivered' = 0

ScanEnded == delivered = Len(records)

(* Mutant of Counted: a diagnostic counts once it has been stored.        *)
CountedWhenStored(r) ==
  parseFailures + (IF r.fact.kind = "DIAGNOSTIC" /\ r.fits THEN 1 ELSE 0)
(* A diagnostic counts before anything else can refuse its record.         *)
Counted(r) == parseFailures + (IF r.fact.kind = "DIAGNOSTIC" THEN 1 ELSE 0)

Observe ==
  /\ ~ScanEnded
  /\ delivered' = delivered + 1
  /\ LET r == records[delivered + 1] IN
       /\ parseFailures' = Counted(r)
       /\ \/ /\ r.fits
             /\ MakeRoom("facts", Len(facts))
             /\ facts' = Append(facts, r.fact)
             /\ UNCHANGED <<stage, err>>
          \/ /\ ~r.fits \/ NoRoom("facts", Len(facts))
             /\ Fails
             /\ UNCHANGED <<facts, capacity>>
  /\ UNCHANGED <<records, inventory, findings>>

(* p101_c_analysis_scan returns false: no unit could be parsed, or the     *)
(* library ran out of a resource.                                          *)
ScanFails ==
  /\ Fails
  /\ UNCHANGED <<facts, inventory, findings, parseFailures, capacity,
                 records, delivered>>

(* The diagnostics among the first n records of a scan.                    *)
DiagnosticsIn(list, n) ==
  Cardinality({i \in 1 .. n : list[i].fact.kind = "DIAGNOSTIC"})
=============================================================================
