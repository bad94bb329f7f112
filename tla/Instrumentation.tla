-------------------------- MODULE Instrumentation ---------------------------
(***************************************************************************)
(* Which functions trace, inject faults, or record descriptors and         *)
(* allocations (src/src/instrumentation.c): a hash table from a USR to its *)
(* definition, the capabilities the notes of a function say, and what a    *)
(* function gets from the functions of its repository it calls, repeated   *)
(* until nothing changes.                                                  *)
(***************************************************************************)
EXTENDS WrapperFacts

CONSTANTS
  ModelFacts,      \* the fact lists a scan can hand over, in fact order
  Capabilities,    \* the members of p101_instrumentation_capabilities
  Role,            \* note name -> the capabilities it says
  SameRepository,  \* instrumentation_same_repository: pairs of paths
  Hash,            \* instrumentation_hash
  InitialSlots     \* INSTRUMENTATION_INITIAL_CAPACITY, a power of two

ASSUME InstrumentationAssumption ==
  /\ \A s \in ModelFacts : s \in Seq(Fact) /\ InFactOrder(s)
  /\ DOMAIN Role \subseteq Texts
  /\ \A n \in DOMAIN Role : Role[n] \subseteq Capabilities
  /\ SameRepository \subseteq Texts \X Texts
  /\ Hash \in [Texts -> Nat]
  /\ InitialSlots \in Nat \ {0}

VARIABLES
  at,       \* how far the loop over the facts has come
  size,     \* capacity of the table
  slots,    \* fact_index_plus_one of each slot; 0 is a slot without a usr
  caps,     \* capabilities[0 .. fact_count - 1]
  changed   \* the flag of the do-while loop

tableVars == <<size, slots>>
collectVars == <<stage, err, modelVars, at, tableVars, caps, changed>>

CollectInit ==
  /\ stage = "size" /\ err = FALSE
  /\ facts \in ModelFacts /\ inventory = <<>> /\ findings = <<>>
  /\ parseFailures = 0
  /\ capacity = [a \in Arrays |-> Len(facts)]
  /\ at = 0
  /\ size = InitialSlots /\ slots = [s \in 0 .. size - 1 |-> 0]
  /\ caps = [i \in DOMAIN facts |-> {}]
  /\ changed = FALSE

-----------------------------------------------------------------------------
(* The table: open addressing, probing slot after slot and around.         *)

IsFunction(f) == IsDefinition(f) /\ f.usr # ""
Functions == {i \in DOMAIN facts : IsFunction(facts[i])}

ProbedSlot(usr, p) == (Hash[usr] + p) % size

(* A probe ends at a slot that is free or holds this USR.                  *)
Stops(usr, p) ==
  LET entry == slots[ProbedSlot(usr, p)] IN
    entry = 0 \/ facts[entry].usr = usr

(* How many slots are passed before the probe ends; size when it does not. *)
ProbeLength(usr) ==
  LET ends == {p \in 0 .. size - 1 : Stops(usr, p)} IN
    IF ends = {} THEN size ELSE CHOOSE p \in ends : \A q \in ends : p <= q

(* instrumentation_lookup; 0 stands for fact_count, "missing".             *)
Lookup(usr) ==
  IF usr = "" \/ ProbeLength(usr) = size THEN 0
  ELSE slots[ProbedSlot(usr, ProbeLength(usr))]

BigEnough == size >= 2 * Cardinality(Functions)

(* Mutant of GrowTable: the table keeps its slots.                         *)
GrowTableKeepingSlots ==
  /\ stage = "size" /\ ~BigEnough
  /\ size' = 2 * size
  /\ UNCHANGED <<stage, err, modelVars, at, slots, caps, changed>>
GrowTable ==
  /\ stage = "size" /\ ~BigEnough
  /\ size' = 2 * size
  /\ slots' = [s \in 0 .. 2 * size - 1 |-> 0]
  /\ UNCHANGED <<stage, err, modelVars, at, caps, changed>>

(* calloc fails, or it succeeds and the functions are entered.             *)
AllocateTable ==
  /\ stage = "size" /\ BigEnough
  /\ \/ stage' = "insert" /\ UNCHANGED err
     \/ stage' = "exit" /\ err' = TRUE
  /\ UNCHANGED <<modelVars, at, tableVars, caps, changed>>

Looping(where) == stage = where /\ at < Len(facts)
ThisFact == facts[at + 1]

(* Mutant of Entered: the last definition of a USR wins.                   *)
EnteredLast(entry) == at + 1
(* instrumentation_insert: a USR already entered keeps its definition.     *)
Entered(entry) == IF entry = 0 THEN at + 1 ELSE entry

Insert ==
  /\ Looping("insert")
  /\ at' = at + 1
  /\ LET p == ProbeLength(ThisFact.usr) IN
       \/ /\ ~IsFunction(ThisFact)
          /\ UNCHANGED <<stage, err, slots>>
       \/ /\ IsFunction(ThisFact) /\ p < size
          /\ slots' = [slots EXCEPT ![ProbedSlot(ThisFact.usr, p)] = Entered(@)]
          /\ UNCHANGED <<stage, err>>
       \/ /\ IsFunction(ThisFact) /\ p = size
          /\ stage' = "exit" /\ err' = TRUE
          /\ UNCHANGED slots
  /\ UNCHANGED <<modelVars, size, caps, changed>>

LoopEnds(where, then) ==
  /\ stage = where /\ at = Len(facts)
  /\ stage' = then /\ at' = 0
  /\ UNCHANGED <<err, modelVars, tableVars, caps>>

InsertEnds == LoopEnds("insert", "notes") /\ UNCHANGED changed

-----------------------------------------------------------------------------
(* The notes.                                                              *)

(* instrumentation_fallback_function: the first body around a place.       *)
Fallback(f) ==
  First({i \in DOMAIN facts :
           /\ IsDefinition(facts[i]) /\ facts[i].path = f.path
           /\ facts[i].start <= f.start /\ f.start < facts[i].end})

(* The function a note is about.                                           *)
Subject(f) ==
  IF Lookup(f.callerUsr) # 0 THEN Lookup(f.callerUsr) ELSE Fallback(f)

Says(f) ==
  IF f.kind = "NOTE" /\ f.name \in DOMAIN Role THEN Role[f.name] ELSE {}

ReadNote ==
  /\ Looping("notes")
  /\ at' = at + 1
  /\ caps' = IF Says(ThisFact) = {} \/ Subject(ThisFact) = 0 THEN caps
             ELSE [caps EXCEPT ![Subject(ThisFact)] = @ \cup Says(ThisFact)]
  /\ UNCHANGED <<stage, err, modelVars, tableVars, changed>>

(* do: the flag is cleared before each pass over the calls.                *)
NotesEnd == LoopEnds("notes", "calls") /\ changed' = FALSE

-----------------------------------------------------------------------------
(* The calls.                                                              *)

(* A call from one known function to another of the same repository.       *)
Passes(f) ==
  /\ f.kind = "CALL" /\ Lookup(f.callerUsr) # 0 /\ Lookup(f.usr) # 0
  /\ <<facts[Lookup(f.callerUsr)].path, facts[Lookup(f.usr)].path>>
       \in SameRepository

(* Mutant of Grows: every merge counts as a change.                        *)
GrowsAlways(caller, callee) == TRUE
Grows(caller, callee) == ~(caps[callee] \subseteq caps[caller])

(* instrumentation_merge.                                                  *)
ReadCall ==
  /\ Looping("calls")
  /\ at' = at + 1
  /\ LET caller == Lookup(ThisFact.callerUsr)
         callee == Lookup(ThisFact.usr)
     IN \/ /\ ~Passes(ThisFact)
           /\ UNCHANGED <<caps, changed>>
        \/ /\ Passes(ThisFact)
           /\ caps' = [caps EXCEPT ![caller] = @ \cup caps[callee]]
           /\ changed' = (changed \/ Grows(caller, callee))
  /\ UNCHANGED <<stage, err, modelVars, tableVars>>

(* Mutant of Again: one pass over the calls is taken for enough.           *)
AgainNever == FALSE
Again == changed

NextPass == Again /\ LoopEnds("calls", "calls") /\ changed' = FALSE

CallsEnd == ~Again /\ LoopEnds("calls", "collected") /\ UNCHANGED changed

Collect ==
  \/ GrowTable \/ AllocateTable \/ Insert \/ InsertEnds
  \/ ReadNote \/ NotesEnd \/ ReadCall \/ NextPass \/ CallsEnd

CollectStopped == stage \in {"collected", "exit"} /\ UNCHANGED collectVars

CollectNext == Collect \/ CollectStopped

(* The loops run to their end: nothing in them waits.                      *)
CollectSpec == CollectInit /\ [][CollectNext]_collectVars /\ WF_collectVars(Collect)
-----------------------------------------------------------------------------
Bodies == {i \in DOMAIN facts : IsDefinition(facts[i])}

(* The function of a USR, without the table: its first definition.         *)
Definition(usr) == First({i \in Functions : facts[i].usr = usr})

TableBuilt == stage \in {"notes", "calls", "collected"}

(* The hash table is the map it stands for, whatever USRs collide: after   *)
(* the insertions a lookup finds the first definition of a USR, and finds  *)
(* nothing for a USR without one.  And "semantic function map is full" is  *)
(* never raised: the only failure is that of calloc, before anything is    *)
(* entered.                                                                *)
TableIsTheMap ==
  /\ TableBuilt => \A usr \in Texts : Lookup(usr) = Definition(usr)
  /\ err => slots = [s \in 0 .. size - 1 |-> 0]

(* The functions whose own notes say a capability.                         *)
About(f) ==
  IF Definition(f.callerUsr) # 0 THEN Definition(f.callerUsr) ELSE Fallback(f)
Seeds(c) ==
  {About(facts[n]) : n \in {m \in DOMAIN facts : c \in Says(facts[m])}} \ {0}

Having(c) == {i \in DOMAIN facts : c \in caps[i]}

(* A call between two functions of one repository.                         *)
Calls(n, caller, callee) ==
  /\ facts[n].kind = "CALL" /\ caller # 0 /\ callee # 0
  /\ caller = Definition(facts[n].callerUsr)
  /\ callee = Definition(facts[n].usr)
  /\ <<facts[caller].path, facts[callee].path>> \in SameRepository

(* A set of functions that has, with a callee, its callers.                *)
ClosedUnderCalls(S) ==
  \A n \in DOMAIN facts :
    LET caller == Definition(facts[n].callerUsr)
        callee == Definition(facts[n].usr)
    IN Calls(n, caller, callee) /\ callee \in S => caller \in S

(* The capabilities are the least ones the notes and calls imply.  At no   *)
(* point is a function said to have one it does not get from a note        *)
(* through calls inside its repository: every closed set that contains the *)
(* functions with the note contains it.  And when the loop ends nothing is *)
(* missing: a capability has reached every caller, however long the chain  *)
(* of calls and in whatever order they were read.                          *)
CapabilitiesAreLeast ==
  \A c \in Capabilities :
    /\ TableBuilt =>
         \A S \in SUBSET Bodies :
           Seeds(c) \subseteq S /\ ClosedUnderCalls(S) => Having(c) \subseteq S
    /\ stage = "collected" =>
         Seeds(c) \subseteq Having(c) /\ ClosedUnderCalls(Having(c))

(* The do-while loop comes to an end, recursion among the functions or not.*)
EventuallyCollected == <>(stage \in {"collected", "exit"})
=============================================================================
