------------------------ MODULE ErrorContractProofs -------------------------
(***************************************************************************)
(* Theorems about ErrorContract, for every list of records, table size and *)
(* safe set that satisfies ContractAssumption and JudgeAssumption.         *)
(***************************************************************************)
EXTENDS ErrorContract, FiniteSetTheorems, TLAPS

(* A set of table positions that is not empty has a first one: of the      *)
(* initial segments up to its members one is the smallest.                 *)
LEMMA FirstIsIn ==
  ASSUME NEW positions \in SUBSET Nat, positions # {}
  PROVE  /\ First(positions) \in positions
         /\ \A j \in positions : First(positions) <= j
<1> DEFINE Segments == {0 .. i : i \in positions}
<1>1. Segments \subseteq FiniteSubsetsOf(Nat) /\ Segments # {}
  <2>1. \A i \in Nat : IsFiniteSet(0 .. i) /\ 0 .. i \in SUBSET Nat
    BY FS_Interval
  <2>2. QED
    BY <2>1, Zenon DEF FiniteSubsetsOf
<1>2. PICK T \in Segments :
        \A U \in Segments : ~ (<<U, T>> \in StrictSubsetOrdering(Nat))
  BY <1>1, FS_StrictSubsetOrderingWellFounded, WFMin
<1>3. PICK i \in positions : T = 0 .. i
  OBVIOUS
<1>4. \A j \in positions : i <= j
  <2> SUFFICES ASSUME NEW j \in positions, j < i PROVE FALSE
    OBVIOUS
  <2>1. 0 .. j \subseteq T /\ i \in T /\ i \notin 0 .. j
    BY <1>3
  <2>2. 0 .. j \in Segments /\ 0 .. j \subseteq Nat /\ T \subseteq Nat
    BY <1>3
  <2>3. QED
    BY <1>2, <2>1, <2>2 DEF StrictSubsetOrdering
<1>5. QED
  BY <1>4 DEF First

-----------------------------------------------------------------------------
(* Type correctness.                                                       *)

LEMMA Limits == MaxFunctions \in Nat /\ MaxEvents \in Nat
BY ContractAssumption, Zenon DEF ContractAssumption

LEMMA RecordFields ==
  ASSUME NEW r \in Record
  PROVE  /\ r.kind \in {"FUNCTION", "CALL", "DIAGNOSTIC", "OTHER"} \cup
                         NoteEvents \cup Roles \cup Markers
         /\ r.path \in STRING /\ r.usr \in STRING /\ r.callerUsr \in STRING
         /\ r.line \in Nat /\ r.column \in Nat
         /\ r.start \in Nat /\ r.end \in Nat
         /\ r.env \in BOOLEAN /\ r.error \in BOOLEAN /\ r.fits \in BOOLEAN
         /\ r.long \in BOOLEAN
BY DEF Record

(* The tables after a definition was added.                                *)
LEMMA AddFunctionType ==
  ASSUME NEW r \in Record, AddFunction(r),
         functions \in Seq(Function), Len(functions) <= MaxFunctions,
         err \in BOOLEAN, stage \in Stages
  PROVE  /\ functions' \in Seq(Function) /\ Len(functions') <= MaxFunctions
         /\ Len(functions) <= Len(functions')
         /\ err' \in BOOLEAN /\ stage' \in {stage, "exit"}
<1> DEFINE new == [path |-> r.path, usr |-> r.usr, line |-> r.line,
                   start |-> r.start, end |-> r.end,
                   env |-> FALSE, error |-> FALSE, adapter |-> FALSE]
<1>1. new \in Function
  BY RecordFields DEF Function
<1> DEFINE full == Len(functions) >= MaxFunctions \/ ~r.fits
<1>2. CASE full
  <2>1. functions' = functions /\ err' = TRUE /\ stage' = "exit"
    BY <1>2, Zenon DEF AddFunction, Refuse
  <2> HIDE DEF new, full
  <2>2. QED
    BY <2>1
<1>3. CASE ~full
  <2>1. functions' = Append(functions, new) /\ UNCHANGED <<stage, err>>
    BY <1>3, Zenon DEF AddFunction, Keep
  <2>2. ~ (Len(functions) >= MaxFunctions)
    BY <1>3, Zenon
  <2> HIDE DEF new, full
  <2>3. functions' \in Seq(Function) /\ Len(functions') = Len(functions) + 1
    BY <1>1, <2>1
  <2>4. Len(functions') <= MaxFunctions /\ Len(functions) <= Len(functions')
    <3>1. MaxFunctions \in Nat /\ Len(functions) \in Nat
      BY Limits
    <3>2. Len(functions) < MaxFunctions
      BY <2>2, <3>1
    <3>3. QED
      BY <2>3, <3>1, <3>2
  <2>5. err' \in BOOLEAN /\ stage' = stage
    BY <2>1, Zenon
  <2>6. QED
    BY <2>3, <2>4, <2>5
<1>4. QED
  BY <1>2, <1>3, Zenon

(* The tables after an event was added.                                    *)
LEMMA AddEventType ==
  ASSUME NEW r \in Record, NEW kind \in EventKinds, AddEvent(kind, r),
         events \in Seq(Event), Len(events) <= MaxEvents,
         err \in BOOLEAN, stage \in Stages
  PROVE  /\ events' \in Seq(Event) /\ Len(events') <= MaxEvents
         /\ Len(events) <= Len(events')
         /\ err' \in BOOLEAN /\ stage' \in {stage, "exit"}
<1> DEFINE new == [kind |-> kind, path |-> r.path, usr |-> r.usr,
                   callerUsr |-> r.callerUsr, line |-> r.line,
                   start |-> EventStart(kind, r),
                   env |-> kind = "CALL" /\ r.env,
                   error |-> kind = "CALL" /\ r.error]
<1>1. new \in Event
  <2>1. EventStart(kind, r) \in Nat
    BY RecordFields DEF EventStart
  <2>2. (kind = "CALL" /\ r.env) \in BOOLEAN
        /\ (kind = "CALL" /\ r.error) \in BOOLEAN
    BY Zenon
  <2>3. QED
    BY <2>1, <2>2, RecordFields DEF Event
<1> DEFINE full == Len(events) >= MaxEvents \/ ~r.fits
<1>2. CASE full
  <2>1. events' = events /\ err' = TRUE /\ stage' = "exit"
    BY <1>2, Zenon DEF AddEvent, Refuse
  <2> HIDE DEF new, full
  <2>2. QED
    BY <2>1
<1>3. CASE ~full
  <2>1. events' = Append(events, new) /\ UNCHANGED <<stage, err>>
    BY <1>3, Zenon DEF AddEvent, Keep
  <2>2. ~ (Len(events) >= MaxEvents)
    BY <1>3, Zenon
  <2> HIDE DEF new, full
  <2>3. events' \in Seq(Event) /\ Len(events') = Len(events) + 1
    BY <1>1, <2>1
  <2>4. Len(events') <= MaxEvents /\ Len(events) <= Len(events')
    <3>1. MaxEvents \in Nat /\ Len(events) \in Nat
      BY Limits
    <3>2. Len(events) < MaxEvents
      BY <2>2, <3>1
    <3>3. QED
      BY <2>3, <3>1, <3>2
  <2>5. err' \in BOOLEAN /\ stage' = stage
    BY <2>1, Zenon
  <2>6. QED
    BY <2>3, <2>4, <2>5
<1>4. QED
  BY <1>2, <1>3, Zenon

(* The tables after a marker.                                              *)
LEMMA SetMarkerType ==
  ASSUME NEW r \in Record, SetMarker(r), functions \in Seq(Function)
  PROVE  functions' \in Seq(Function) /\ Len(functions') = Len(functions)
<1>1. CASE Marked(r) = 0
  BY <1>1 DEF SetMarker
<1>2. CASE Marked(r) # 0
  <2> DEFINE here == {i \in DOMAIN functions :
           /\ r.callerUsr # "" /\ functions[i].usr = r.callerUsr
           /\ functions[i].path = r.path}
  <2>1. here \in SUBSET DOMAIN functions /\ DOMAIN functions \in SUBSET Nat
    <3>1. here \in SUBSET DOMAIN functions
      BY Zenon
    <3>2. DOMAIN functions \in SUBSET Nat
      <4>1. DOMAIN functions = 1 .. Len(functions)
        OBVIOUS
      <4>2. QED
        BY <4>1
    <3>3. QED
      BY <3>1, <3>2, Zenon
  <2>2. here # {}
    BY <1>2, Zenon DEF Marked, First
  <2>3. Marked(r) = First(here)
    BY DEF Marked
  <2>4. Marked(r) \in DOMAIN functions
    <3> HIDE DEF here
    <3>1. QED
      BY <2>1, <2>2, <2>3, FirstIsIn
  <2> DEFINE f == functions[Marked(r)]
             g == [f EXCEPT !.env     = @ \/ r.kind = "ENV_CONTRACT",
                            !.error   = @ \/ r.kind = "ERROR_CONTRACT",
                            !.adapter = @ \/ r.kind = "TERMINATION_ADAPTER"]
  <2>5. f \in Function
    BY <2>4
  <2>6. /\ (f.env \/ r.kind = "ENV_CONTRACT") \in BOOLEAN
        /\ (f.error \/ r.kind = "ERROR_CONTRACT") \in BOOLEAN
        /\ (f.adapter \/ r.kind = "TERMINATION_ADAPTER") \in BOOLEAN
    BY Zenon
  <2>7. g \in Function
    BY <2>5, <2>6 DEF Function
  <2>8. functions' = [functions EXCEPT ![Marked(r)] = g]
    BY <1>2 DEF SetMarker
  <2> HIDE DEF g, f, here
  <2>9. QED
    BY <2>4, <2>7, <2>8
<1>3. QED
  BY <1>1, <1>2

(* The ownership files after an acquisition or a release.                  *)
LEMMA RecordOwnershipType ==
  ASSUME NEW r \in Record, r.kind \in Roles, RecordOwnership(r),
         \A p \in DOMAIN owners : p \in STRING /\ owners[p] \in Owner,
         err \in BOOLEAN, stage \in Stages
  PROVE  /\ \A p \in DOMAIN owners' : p \in STRING /\ owners'[p] \in Owner
         /\ err' \in BOOLEAN /\ stage' \in {stage, "exit"}
<1>1. Unowned \in Owner
  BY DEF Unowned, Owner
<1>2. ASSUME NEW o \in Owner PROVE Counting(o, r) \in Owner
  <2>1. o.count[r.kind] + 1 \in Nat /\ o.count \in [Roles -> Nat]
    BY DEF Owner
  <2>2. o.first[r.kind] \in Nat /\ o.first \in [Roles -> Nat] /\ r.line \in Nat
    BY RecordFields DEF Owner
  <2> DEFINE line == IF /\ o.first[r.kind] = 0
                        /\ r.kind \in {"ERROR_ACQUIRE", "ENV_ACQUIRE"}
                     THEN r.line ELSE o.first[r.kind]
  <2>3. line \in Nat
    BY <2>2
  <2>4. Counting(o, r) = [o EXCEPT !.count = [o.count EXCEPT ![r.kind] = @ + 1],
                                   !.first = [o.first EXCEPT ![r.kind] = line]]
    BY <2>1, <2>2 DEF Counting, Owner
  <2> HIDE DEF line
  <2>5. [o.count EXCEPT ![r.kind] = @ + 1] \in [Roles -> Nat]
        /\ [o.first EXCEPT ![r.kind] = line] \in [Roles -> Nat]
    BY <2>1, <2>2, <2>3
  <2>6. QED
    BY <2>4, <2>5 DEF Owner
<1>3. err' \in BOOLEAN /\ stage' \in {stage, "exit"}
  BY Zenon DEF RecordOwnership, Refuse, Keep
<1>4. CASE owners' = owners
  BY <1>3, <1>4
<1>5. CASE owners' # owners
  <2>1. owners' = [p \in DOMAIN owners \cup {r.path} |->
            LET owner == IF p \in DOMAIN owners THEN owners[p] ELSE Unowned IN
              IF p = r.path THEN Counting(owner, r) ELSE owner]
    BY <1>5, Zenon DEF RecordOwnership
  <2> SUFFICES ASSUME NEW p \in DOMAIN owners \cup {r.path}
               PROVE  p \in STRING /\ owners'[p] \in Owner
    BY <1>3, <2>1
  <2> DEFINE owner == IF p \in DOMAIN owners THEN owners[p] ELSE Unowned
  <2>2. owner \in Owner
    BY <1>1
  <2>3. owners'[p] = IF p = r.path THEN Counting(owner, r) ELSE owner
    BY <2>1, Zenon
  <2> HIDE DEF owner
  <2>4. p \in STRING
    BY RecordFields
  <2>5. QED
    BY <1>2, <2>2, <2>3, <2>4
<1>6. QED
  BY <1>4, <1>5

(* An event's position.                                                    *)
LEMMA EventPosition ==
  ASSUME TypeOK, NEW j \in DOMAIN events
  PROVE  /\ j \in Nat /\ 1 <= j /\ j <= Len(events)
         /\ events[j] \in Event
         /\ events[j].path \in STRING /\ events[j].line \in Nat
<1>1. events \in Seq(Event)
  BY DEF TypeOK
<1>2. DOMAIN events = 1 .. Len(events) /\ events[j] \in Event
  BY <1>1
<1>3. QED
  BY <1>1, <1>2 DEF Event

LEMMA AboutType ==
  ASSUME TypeOK, NEW rule \in Rules, NEW i \in Nat, NEW j \in DOMAIN events
  PROVE  About(rule, i, j) \in Finding
BY EventPosition DEF About, Finding

LEMMA ReportType ==
  ASSUME err \in BOOLEAN, findings \subseteq Finding,
         NEW found, found \subseteq Finding, Report(found)
  PROVE  err' \in BOOLEAN /\ findings' \subseteq Finding
<1>1. CASE findings' = findings \cup found /\ UNCHANGED err
  BY <1>1
<1>2. CASE /\ err' = TRUE
           /\ \E some \in (SUBSET found) \ {found} : findings' = findings \cup some
  BY <1>2
<1>3. QED
  BY <1>1, <1>2, Zenon DEF Report

(* The first of a set of event positions, when there is one.               *)
LEMMA FirstEvent ==
  ASSUME TypeOK, NEW positions, positions \subseteq DOMAIN events,
         First(positions) # 0
  PROVE  First(positions) \in DOMAIN events /\ First(positions) \in positions
<1>1. DOMAIN events = 1 .. Len(events)
  BY DEF TypeOK
<1>2. positions \in SUBSET Nat /\ positions # {}
  BY <1>1, FirstIsIn DEF First
<1>3. QED
  BY <1>2, FirstIsIn

(* function_index_by_usr returns a position of the table or none.          *)
LEMMA IndexType ==
  ASSUME TypeOK, NEW usr, IndexOf(usr) # 0
  PROVE  /\ IndexOf(usr) \in DOMAIN functions
         /\ usr # "" /\ functions[IndexOf(usr)].usr = usr
<1> DEFINE here == {i \in DOMAIN functions : usr # "" /\ functions[i].usr = usr}
<1>1. DOMAIN functions = 1 .. Len(functions)
  BY DEF TypeOK
<1>2. here \subseteq DOMAIN functions
  BY Zenon
<1>3. here # {} /\ IndexOf(usr) = First(here)
  BY Zenon DEF IndexOf, First
<1>4. First(here) \in here
  <2> HIDE DEF here
  <2>1. here \in SUBSET Nat
    BY <1>1, <1>2
  <2>2. QED
    BY <2>1, <1>3, FirstIsIn
<1>5. QED
  BY <1>3, <1>4, Zenon

LEMMA HandlersType == TypeOK => Handlers \subseteq DOMAIN functions
BY IndexType, Zenon DEF Handlers

LEMMA SingleExitType ==
  ASSUME TypeOK, NEW i \in DOMAIN functions, i \in Nat
  PROVE  SingleExitFindings(i) \subseteq Finding
<1> DEFINE f == functions[i]
           early == {j \in DOMAIN events :
             events[j].kind = "FUNCTION_EARLY_RETURN" /\ IsIn(events[j], f)}
<1>1. "SINGLE_EXIT" \in Rules
  BY DEF Rules
<1>2. EarlyReturn(f) # 0 => EarlyReturn(f) \in DOMAIN events
  <2>1. early \subseteq DOMAIN events /\ EarlyReturn(f) = First(early)
    BY Zenon DEF EarlyReturn
  <2> HIDE DEF early
  <2>2. QED
    BY <2>1, FirstEvent
<1>3. Cardinality(Exits(f)) > 1 => SecondExit(f) \in DOMAIN events
  <2> DEFINE rest == Exits(f) \ {First(Exits(f))}
  <2>1. Exits(f) \subseteq DOMAIN events
    BY Zenon DEF Exits
  <2>2. DOMAIN events = 1 .. Len(events) /\ Len(events) \in Nat
    BY DEF TypeOK
  <2> HIDE DEF f
  <2>3. IsFiniteSet(Exits(f))
    <3>1. IsFiniteSet(1 .. Len(events)) /\ Exits(f) \in SUBSET (1 .. Len(events))
      BY <2>1, <2>2, FS_Interval
    <3>2. QED
      BY <3>1, FS_Subset
  <2>4. ASSUME rest = {} PROVE ~ (Cardinality(Exits(f)) > 1)
    <3>1. Exits(f) \subseteq {First(Exits(f))}
      BY <2>4
    <3>2. /\ IsFiniteSet({First(Exits(f))})
          /\ Cardinality({First(Exits(f))}) = 1
          /\ Exits(f) \in SUBSET {First(Exits(f))}
      BY <3>1, FS_Singleton
    <3>3. Cardinality(Exits(f)) <= 1
      BY <3>2, FS_Subset
    <3>4. QED
      BY <2>3, <3>3, FS_CardinalityType
  <2>5. ASSUME rest # {} PROVE SecondExit(f) \in DOMAIN events
    <3>1. rest \in SUBSET Nat
      BY <2>1, <2>2
    <3>2. First(rest) \in rest
      BY <2>5, <3>1, FirstIsIn
    <3>3. QED
      BY <2>1, <3>2 DEF SecondExit
  <2>6. QED
    BY <2>4, <2>5
<1>4. QED
  BY <1>1, <1>2, <1>3, AboutType DEF SingleExitFindings

LEMMA BrokenType ==
  ASSUME NEW e, NEW f
  PROVE  Broken(e, f) \subseteq Rules
<1>1. CASE Terminates(e, f)
  BY <1>1 DEF Broken, Rules
<1>2. CASE ~Terminates(e, f) /\ e.kind \in DirectKinds
  BY <1>2 DEF Broken, Rules
<1>3. CASE ~Terminates(e, f) /\ e.kind \notin DirectKinds
  <2>1. Broken(e, f) \subseteq {"ENV_REQUIRED", "ERROR_REQUIRED",
                                "ERROR_DISCARDED", "UNCHECKED_CHAIN"}
    BY <1>3, Zenon DEF Broken
  <2>2. QED
    BY <2>1 DEF Rules
<1>4. QED
  BY <1>1, <1>2, <1>3, Zenon

LEMMA OwnershipType ==
  ASSUME TypeOK
  PROVE  OwnershipFindings \subseteq Finding
<1>1. ASSUME NEW p \in DOMAIN owners
      PROVE  /\ p \in STRING
             /\ owners[p].first["ERROR_ACQUIRE"] \in Nat
             /\ owners[p].first["ENV_ACQUIRE"] \in Nat
  <2>1. p \in STRING /\ owners[p] \in Owner
    BY DEF TypeOK
  <2>2. QED
    BY <2>1 DEF Owner, Roles
<1>2. {"ERROR_OWNERSHIP", "ENV_OWNERSHIP"} \subseteq Rules
  BY DEF Rules
<1>3. ASSUME NEW p \in DOMAIN owners, NEW rule \in Rules, NEW l \in Nat
      PROVE  [rule |-> rule, path |-> p, line |-> l, function |-> 0,
              event |-> 0] \in Finding
  BY <1>1 DEF Finding
<1>4. ASSUME NEW x \in OwnershipFindings PROVE x \in Finding
  <2>1. CASE \E p \in DOMAIN owners :
               x = [rule |-> "ERROR_OWNERSHIP", path |-> p,
                    line |-> owners[p].first["ERROR_ACQUIRE"],
                    function |-> 0, event |-> 0]
    BY <1>1, <1>2, <1>3, <2>1
  <2>2. CASE \E p \in DOMAIN owners :
               x = [rule |-> "ENV_OWNERSHIP", path |-> p,
                    line |-> owners[p].first["ENV_ACQUIRE"],
                    function |-> 0, event |-> 0]
    BY <1>1, <1>2, <1>3, <2>2
  <2>3. QED
    BY <2>1, <2>2, Zenon DEF OwnershipFindings
<1>5. QED
  BY <1>4

LEMMA TypeInit == Init => TypeOK
<1> SUFFICES ASSUME Init PROVE TypeOK
  OBVIOUS
<1>1. records \in Seq(Record) /\ MaxFunctions \in Nat /\ MaxEvents \in Nat
  <2>1. InputRecords \subseteq Seq(Record)
    BY ContractAssumption, Zenon DEF ContractAssumption
  <2>2. QED
    BY <2>1, Limits DEF Init
<1>2. DOMAIN owners = {}
  BY DEF Init
<1>3. /\ functions \in Seq(Function) /\ Len(functions) = 0
      /\ events \in Seq(Event) /\ Len(events) = 0
  BY DEF Init
<1>4. /\ stage \in Stages /\ stage # "functions" /\ err \in BOOLEAN
      /\ changed \in BOOLEAN /\ args \in Arguments
  <2>1. InputArguments \subseteq Arguments
    BY ContractAssumption, Zenon DEF ContractAssumption
  <2>2. QED
    BY <2>1 DEF Init, Stages
<1>5. findings \subseteq Finding /\ covered \subseteq {"env", "error"}
      /\ reachable \subseteq DOMAIN functions
      /\ status \in {"none", "clean", "findings", "trouble"}
  BY DEF Init
<1>6. delivered \in 0 .. Len(records) /\ fn \in Nat /\ ev \in 0 .. Len(events)
  BY <1>1, <1>3 DEF Init
<1>7. QED
  BY <1>1, <1>2, <1>3, <1>4, <1>5, <1>6 DEF TypeOK

(* The variables of the judge, which loading leaves alone.                 *)
LEMMA TypeLoad == TypeOK /\ Load => TypeOK'
<1> SUFFICES ASSUME TypeOK, Load PROVE TypeOK'
  OBVIOUS
<1>1. CASE LoadFails
  BY <1>1, SMTT(30) DEF Load, LoadFails, Refuse, TypeOK, Stages, loadVars, judgeVars
<1>2. CASE Apply
  <2> DEFINE r == records[delivered + 1]
  <2>1. r \in Record /\ delivered' \in 0 .. Len(records')
    BY <1>2 DEF Apply, TypeOK
  <2>2. stage = "load" /\ UNCHANGED <<args, records, judgeVars>>
    BY <1>2, Zenon DEF Apply, Load
  <2>3. "exit" \in Stages /\ stage \in Stages /\ stage # "functions"
    BY <2>2 DEF Stages
  <2>4. /\ functions' \in Seq(Function) /\ Len(functions') <= MaxFunctions
        /\ Len(functions) <= Len(functions')
        /\ events' \in Seq(Event) /\ Len(events') <= MaxEvents
        /\ Len(events) <= Len(events')
        /\ \A p \in DOMAIN owners' : p \in STRING /\ owners'[p] \in Owner
        /\ err' \in BOOLEAN /\ stage' \in {stage, "exit"}
    <3> USE DEF TypeOK
    <3> HIDE DEF r
    <3>1. CASE r.kind = "FUNCTION" /\ AddFunction(r) /\ UNCHANGED <<events, owners>>
      BY <2>1, <3>1, AddFunctionType
    <3>2. CASE r.kind = "CALL" /\ AddEvent(CallKind(r), r)
               /\ UNCHANGED <<functions, owners>>
      <4>1. CallKind(r) \in EventKinds
        BY DEF CallKind, EventKinds
      <4>2. QED
        BY <2>1, <3>2, <4>1, AddEventType
    <3>3. CASE r.kind \in NoteEvents /\ AddEvent(r.kind, r)
               /\ UNCHANGED <<functions, owners>>
      <4>1. r.kind \in EventKinds
        BY <3>3 DEF EventKinds
      <4>2. QED
        BY <2>1, <3>3, <4>1, AddEventType
    <3>4. CASE r.kind \in Roles /\ RecordOwnership(r)
               /\ UNCHANGED <<functions, events>>
      BY <2>1, <3>4, RecordOwnershipType
    <3>5. CASE r.kind \in Markers /\ SetMarker(r) /\ Keep
               /\ UNCHANGED <<events, owners>>
      BY <2>1, <3>5, SetMarkerType DEF Keep
    <3>6. CASE r.kind = "DIAGNOSTIC" /\ Refuse
               /\ UNCHANGED <<functions, events, owners>>
      BY <3>6 DEF Refuse
    <3>7. CASE r.kind = "OTHER" /\ Keep /\ UNCHANGED <<functions, events, owners>>
      BY <3>7 DEF Keep
    <3>8. QED
      BY <1>2, <3>1, <3>2, <3>3, <3>4, <3>5, <3>6, <3>7, Zenon DEF Apply, r
  <2> HIDE DEF r
  <2>5. reachable' \subseteq DOMAIN functions'
    <3>1. DOMAIN functions = 1 .. Len(functions)
          /\ DOMAIN functions' = 1 .. Len(functions')
          /\ Len(functions) \in Nat /\ Len(functions') \in Nat
      BY <2>4 DEF TypeOK
    <3>2. QED
      BY <2>2, <2>4, <3>1 DEF TypeOK, judgeVars
  <2>6. ev' \in 0 .. Len(events')
    BY <2>2, <2>4 DEF TypeOK, judgeVars
  <2>7. changed' \in BOOLEAN
    BY <2>2, Zenon DEF TypeOK, judgeVars
  <2>8. QED
    BY <2>1, <2>2, <2>3, <2>4, <2>5, <2>6, <2>7 DEF TypeOK, judgeVars
<1>3. CASE PassOver
  BY <1>3 DEF Load, PassOver, Keep, TypeOK, judgeVars
<1>4. QED
  BY <1>1, <1>2, <1>3, Zenon DEF Load

LEMMA TypeJudge ==
  ASSUME TypeOK, JudgeFunction \/ JudgeEvent \/ JudgeOwnership \/ JudgeSignalEvent
  PROVE  TypeOK'
<1> USE DEF TypeOK, Stages
<1>0. DOMAIN events = 1 .. Len(events) /\ Len(events) \in Nat
      /\ DOMAIN functions = 1 .. Len(functions) /\ Len(functions) \in Nat
  OBVIOUS
<1>1. CASE JudgeFunction
  <2>1. fn + 1 \in DOMAIN functions /\ fn + 1 \in Nat
    BY <1>0, <1>1 DEF JudgeFunction
  <2>2. SingleExitFindings(fn + 1) \subseteq Finding
    BY <2>1, SingleExitType, Zenon
  <2>3. err' \in BOOLEAN /\ findings' \subseteq Finding
    BY <1>1, <2>2, ReportType DEF JudgeFunction
  <2>4. changed' \in BOOLEAN
    BY <1>1, Zenon DEF JudgeFunction
  <2>5. QED
    BY <1>0, <1>1, <2>1, <2>3, <2>4 DEF JudgeFunction, loadVars
<1>2. CASE JudgeEvent
  <2> DEFINE e == events[ev + 1]
             f == functions[fn]
             rules == IF IsIn(e, f) THEN Broken(e, f) ELSE {}
  <2>1. ev + 1 \in DOMAIN events
    BY <1>0, <1>2 DEF JudgeEvent
  <2>2. rules \subseteq Rules
    BY BrokenType, Zenon
  <2>3. {About(rule, fn, ev + 1) : rule \in rules} \subseteq Finding
    <3> HIDE DEF rules
    <3> SUFFICES ASSUME NEW rule \in rules PROVE About(rule, fn, ev + 1) \in Finding
      OBVIOUS
    <3>1. rule \in Rules /\ fn \in Nat
      BY <2>2
    <3>2. QED
      BY <2>1, <3>1, AboutType, Zenon
  <2>4. Report({About(rule, fn, ev + 1) : rule \in rules})
        /\ covered' = Covered(rules)
    BY <1>2, Zenon DEF JudgeEvent
  <2> HIDE DEF rules
  <2>5. err' \in BOOLEAN /\ findings' \subseteq Finding
    BY <2>3, <2>4, ReportType
  <2>6. covered' \subseteq {"env", "error"}
    BY <2>4 DEF Covered
  <2>7. changed' \in BOOLEAN
    BY <1>2, Zenon DEF JudgeEvent
  <2>8. QED
    BY <1>0, <1>2, <2>1, <2>5, <2>6, <2>7 DEF JudgeEvent, loadVars
<1>3. CASE JudgeOwnership
  <2>1. err' \in BOOLEAN /\ findings' \subseteq Finding
    <3>1. CASE err
      BY <1>3, <3>1, Zenon DEF JudgeOwnership
    <3>2. CASE ~err
      <4>1. Report(OwnershipFindings)
        BY <1>3, <3>2, Zenon DEF JudgeOwnership
      <4>2. QED
        BY <4>1, OwnershipType, ReportType
    <3>3. QED
      BY <3>1, <3>2
  <2>2. changed' \in BOOLEAN
    BY <1>3, Zenon DEF JudgeOwnership
  <2>3. stage' = "handlers"
    BY <1>3, Zenon DEF JudgeOwnership
  <2>4. UNCHANGED <<loadVars, fn, ev, covered, reachable, status>>
    BY <1>3, Zenon DEF JudgeOwnership
  <2>5. QED
    BY <2>1, <2>2, <2>3, <2>4 DEF loadVars
<1>4. CASE JudgeSignalEvent
  <2> DEFINE j == ev + 1
             rules == IF Caller(j) \in reachable THEN SignalRules(j) ELSE {}
  <2>1. j \in DOMAIN events
    BY <1>0, <1>4 DEF JudgeSignalEvent
  <2>2. rules \subseteq Rules
    BY DEF SignalRules, Rules
  <2>3. {About(rule, Caller(j), j) : rule \in rules} \subseteq Finding
    <3> SUFFICES ASSUME NEW rule \in rules PROVE About(rule, Caller(j), j) \in Finding
      OBVIOUS
    <3>1. rule \in Rules /\ Caller(j) \in Nat
      BY <1>0, <2>2
    <3> HIDE DEF j
    <3>2. QED
      BY <2>1, <3>1, AboutType, Zenon
  <2>4. Report({About(rule, Caller(j), j) : rule \in rules})
    BY <1>4, Zenon DEF JudgeSignalEvent
  <2> HIDE DEF rules
  <2>5. err' \in BOOLEAN /\ findings' \subseteq Finding
    BY <2>3, <2>4, ReportType
  <2>6. changed' \in BOOLEAN
    BY <1>4, Zenon DEF JudgeSignalEvent
  <2>7. QED
    BY <1>0, <1>4, <2>1, <2>5, <2>6 DEF JudgeSignalEvent, loadVars
<1>5. QED
  BY <1>1, <1>2, <1>3, <1>4

LEMMA TypeRest ==
  ASSUME TypeOK,
         \/ ParseArguments \/ Begin \/ FunctionsEnd \/ MarkHandlers
         \/ FollowCall \/ PassEnds \/ SignalsEnd \/ ReportEnd \/ Exit
  PROVE  TypeOK'
<1> USE DEF TypeOK, Stages
<1>1. CASE Begin
  BY <1>1, SMTT(30) DEF Begin, loadVars
<1>2. CASE FunctionsEnd
  BY <1>2, SMTT(30) DEF FunctionsEnd, loadVars, judgeVars
<1>3. CASE MarkHandlers
  <2>1. reachable' \subseteq DOMAIN functions /\ ev' = 0
    BY <1>3, HandlersType, Zenon DEF MarkHandlers
  <2>2. err' \in BOOLEAN /\ changed' \in BOOLEAN /\ stage' = "close"
    BY <1>3, Zenon DEF MarkHandlers
  <2>3. UNCHANGED <<loadVars, fn, covered, findings, status>>
    BY <1>3, Zenon DEF MarkHandlers
  <2>4. QED
    BY <2>1, <2>2, <2>3 DEF loadVars
<1>4. CASE FollowCall
  <2>1. reachable' \subseteq DOMAIN functions /\ changed' \in BOOLEAN
    <3>1. CASE Follows(ev + 1)
      <4>1. Callee(ev + 1) \in DOMAIN functions
        BY <3>1, IndexType DEF Follows, Callee
      <4>2. QED
        BY <1>4, <3>1, <4>1 DEF FollowCall
    <3>2. CASE ~Follows(ev + 1)
      <4>1. reachable' = reachable /\ changed' = changed
        BY <1>4, <3>2, Zenon DEF FollowCall
      <4>2. QED
        BY <4>1, Zenon
    <3>3. QED
      BY <3>1, <3>2
  <2>2. ev' \in 0 .. Len(events) /\ stage = "close"
    BY <1>4 DEF FollowCall
  <2>3. UNCHANGED <<stage, err, loadVars, fn, covered, findings, status>>
    BY <1>4, Zenon DEF FollowCall
  <2>4. err' \in BOOLEAN
    BY <2>3, Zenon
  <2>5. QED
    BY <2>1, <2>2, <2>3, <2>4 DEF loadVars
<1>5. CASE PassEnds
  <2>1. stage' \in {"close", "signals"} /\ ev' = 0
    BY <1>5, Zenon DEF PassEnds
  <2>2. err' \in BOOLEAN /\ changed' \in BOOLEAN
    BY <1>5, Zenon DEF PassEnds
  <2>3. UNCHANGED <<loadVars, fn, covered, reachable, findings, status>>
    BY <1>5, Zenon DEF PassEnds
  <2>4. QED
    BY <2>1, <2>2, <2>3 DEF loadVars
<1>6. CASE SignalsEnd
  BY <1>6, SMTT(30) DEF SignalsEnd, loadVars, judgeVars
<1>7. CASE ReportEnd
  BY <1>7, SMTT(30) DEF ReportEnd, loadVars, judgeVars
<1>8. CASE Exit
  BY <1>8, SMTT(30) DEF Exit, loadVars
<1>9. CASE ParseArguments
  <2>1. stage' \in {"load", "exit"}
    BY <1>9, Zenon DEF ParseArguments, Refuse
  <2>2. err' \in BOOLEAN
    BY <1>9, Zenon DEF ParseArguments, Refuse
  <2>3. UNCHANGED <<loadVars, judgeVars>>
    BY <1>9, Zenon DEF ParseArguments
  <2>4. changed' \in BOOLEAN
    BY <2>3, Zenon DEF judgeVars
  <2>5. QED
    BY <2>1, <2>2, <2>3, <2>4 DEF loadVars, judgeVars
<1>10. QED
  BY <1>1, <1>2, <1>3, <1>4, <1>5, <1>6, <1>7, <1>8, <1>9

LEMMA TypeStep == TypeOK /\ [Next]_vars => TypeOK'
<1> SUFFICES ASSUME TypeOK, [Next]_vars PROVE TypeOK'
  OBVIOUS
<1>1. CASE UNCHANGED vars
  <2>1. err' \in BOOLEAN /\ changed' \in BOOLEAN
    BY <1>1, Zenon DEF vars, judgeVars, TypeOK
  <2>2. QED
    BY <1>1, <2>1, SMTT(30) DEF vars, loadVars, judgeVars, TypeOK
<1>2. QED
  BY <1>1, TypeLoad, TypeJudge, TypeRest, Zenon DEF Next, Run, Ended

(* Whatever is recorded, the tables stay within their limits, the function *)
(* and the event that are judged exist, and only functions are reached.    *)
THEOREM TypeCorrect == Spec => []TypeOK
<1>1. QED
  BY TypeInit, TypeStep, PTL DEF Spec

-----------------------------------------------------------------------------
(* What the handlers reach.                                                *)

Closing == stage \in {"close", "signals", "report"}

(* The call keeps within the functions that were reached.                  *)
Inside(j) ==
  IsCall(j) /\ Caller(j) \in reachable /\ Callee(j) # 0 => Callee(j) \in reachable

(* The strengthening: while the loop runs, nothing was reached that did    *)
(* not have to be, and a pass that has changed nothing yet has found       *)
(* every call behind it inside.                                            *)
ClosureInv ==
  /\ Closing =>
       /\ Handlers \subseteq reachable
       /\ \A S \in SUBSET DOMAIN functions :
            Handlers \subseteq S /\ Closed(S) => reachable \subseteq S
  /\ stage = "close" /\ ~changed =>
       \A j \in DOMAIN events : j <= ev => Inside(j)
  /\ stage \in {"signals", "report"} => Closed(reachable)

LEMMA SameModel ==
  ASSUME UNCHANGED <<functions, events>>
  PROVE  /\ Handlers' = Handlers
         /\ \A j : /\ IsCall(j)' <=> IsCall(j)
                   /\ Caller(j)' = Caller(j) /\ Callee(j)' = Callee(j)
         /\ \A S : Closed(S)' <=> Closed(S)
BY DEF Handlers, IsCall, Caller, Callee, IndexOf, Closed

LEMMA ClosedIsInside == Closed(reachable) <=> \A j \in DOMAIN events : Inside(j)
BY DEF Closed, Inside

LEMMA ClosureInit == Init => ClosureInv
BY DEF Init, ClosureInv, Closing

LEMMA ClosureLoop ==
  ASSUME TypeOK, ClosureInv, FollowCall \/ PassEnds
  PROVE  ClosureInv'
<1>1. UNCHANGED <<functions, events>> /\ stage = "close"
  BY Zenon DEF FollowCall, PassEnds, loadVars
<1>2. /\ Handlers \subseteq reachable
      /\ \A S \in SUBSET DOMAIN functions :
           Handlers \subseteq S /\ Closed(S) => reachable \subseteq S
  BY <1>1 DEF ClosureInv, Closing
<1>3. DOMAIN events = 1 .. Len(events) /\ Len(events) \in Nat /\ ev \in Nat
  BY DEF TypeOK
<1>4. CASE FollowCall /\ Follows(ev + 1)
  <2> DEFINE j == ev + 1
  <2>1. reachable' = reachable \cup {Callee(j)} /\ changed' = TRUE
        /\ stage' = "close"
    BY <1>1, <1>4, Zenon DEF FollowCall
  <2>2. IsCall(j) /\ Caller(j) \in reachable /\ Callee(j) # 0
    BY <1>4, Zenon DEF Follows
  <2>3. j \in DOMAIN events
    BY <1>3, <1>4 DEF FollowCall
  <2>4. ASSUME NEW S \in SUBSET DOMAIN functions,
               Handlers \subseteq S, Closed(S)
        PROVE  reachable' \subseteq S
    <3> HIDE DEF j
    <3>1. reachable \subseteq S
      BY <1>2, <2>4, Zenon
    <3>2. Callee(j) \in S
      BY <2>2, <2>3, <2>4, <3>1, Zenon DEF Closed
    <3>3. QED
      BY <2>1, <3>1, <3>2
  <2> HIDE DEF j
  <2>5. Handlers' \subseteq reachable'
    BY <1>1, <1>2, <2>1, SameModel
  <2>6. \A S \in SUBSET DOMAIN functions' :
          Handlers' \subseteq S /\ Closed(S)' => reachable' \subseteq S
    <3>1. functions' = functions /\ Handlers' = Handlers
          /\ \A S : Closed(S)' <=> Closed(S)
      BY <1>1, SameModel, Zenon
    <3>2. QED
      BY <2>4, <3>1, Zenon
  <2>7. QED
    BY <2>1, <2>5, <2>6 DEF ClosureInv, Closing
<1>5. CASE FollowCall /\ ~Follows(ev + 1)
  <2>1. UNCHANGED <<stage, reachable, changed, functions, events>>
        /\ ev' = ev + 1
    BY <1>1, <1>5, Zenon DEF FollowCall
  <2>2. Inside(ev + 1)
    BY <1>5 DEF Inside, Follows
  <2>3. \A j : Inside(j)' <=> Inside(j)
    BY <2>1, SameModel DEF Inside
  <2>4. ASSUME ~changed, NEW j \in DOMAIN events, j <= ev + 1
        PROVE  Inside(j)
    <3>1. CASE j = ev + 1
      BY <2>2, <3>1
    <3>2. CASE j # ev + 1
      <4>1. j <= ev
        BY <1>3, <2>4, <3>2
      <4>2. QED
        BY <1>1, <2>4, <4>1 DEF ClosureInv
    <3>3. QED
      BY <3>1, <3>2
  <2>5. stage' = "close" /\ ~changed' =>
          \A j \in DOMAIN events' : j <= ev' => Inside(j)'
    BY <2>1, <2>3, <2>4
  <2>6. /\ Handlers' \subseteq reachable'
        /\ \A S \in SUBSET DOMAIN functions' :
             Handlers' \subseteq S /\ Closed(S)' => reachable' \subseteq S
    BY <1>2, <2>1, SameModel
  <2>7. QED
    BY <1>1, <2>1, <2>5, <2>6 DEF ClosureInv, Closing
<1>6. CASE PassEnds
  <2>1. UNCHANGED <<reachable, functions, events>> /\ ev = Len(events) /\ ev' = 0
        /\ stage' = IF changed THEN "close" ELSE "signals"
    BY <1>6, Zenon DEF PassEnds, loadVars
  <2>2. /\ Handlers' \subseteq reachable'
        /\ \A S \in SUBSET DOMAIN functions' :
             Handlers' \subseteq S /\ Closed(S)' => reachable' \subseteq S
    BY <1>2, <2>1, SameModel
  <2>3. \A j \in DOMAIN events' : ~ (j <= ev')
    BY <1>3, <2>1
  <2>4. CASE changed
    BY <2>1, <2>2, <2>3, <2>4 DEF ClosureInv, Closing
  <2>5. CASE ~changed
    <3>1. \A j \in DOMAIN events : j <= ev
      BY <1>3, <2>1
    <3>2. Closed(reachable)
      BY <1>1, <2>5, <3>1, ClosedIsInside DEF ClosureInv
    <3>3. Closed(reachable)'
      BY <2>1, <3>2, SameModel DEF Closed
    <3>4. QED
      BY <2>1, <2>2, <2>5, <3>3 DEF ClosureInv, Closing
  <2>6. QED
    BY <2>4, <2>5
<1>7. QED
  BY <1>4, <1>5, <1>6

LEMMA ClosureStep == TypeOK /\ ClosureInv /\ [Next]_vars => ClosureInv'
<1> SUFFICES ASSUME TypeOK, ClosureInv, [Next]_vars PROVE ClosureInv'
  OBVIOUS
<1>1. CASE Load
  <2>1. stage' \in {"load", "exit"}
    <3>1. stage = "load"
      BY <1>1, Zenon DEF Load, Apply, PassOver, LoadFails
    <3>2. stage' = stage \/ stage' = "exit"
      BY <1>1, Zenon DEF Load, Apply, PassOver, LoadFails, Refuse, Keep, AddFunction,
         AddEvent, RecordOwnership
    <3>3. QED
      BY <3>1, <3>2
  <2>2. QED
    BY <2>1 DEF ClosureInv, Closing
<1>2. CASE Begin \/ JudgeFunction \/ JudgeEvent \/ FunctionsEnd \/ JudgeOwnership
  <2>1. stage' \in {"functions", "ownership", "handlers"}
    BY <1>2 DEF Begin, JudgeFunction, JudgeEvent, FunctionsEnd, JudgeOwnership
  <2>2. QED
    BY <2>1 DEF ClosureInv, Closing
<1>3. CASE MarkHandlers
  <2>1. UNCHANGED <<functions, events>> /\ stage' = "close" /\ ev' = 0
        /\ reachable' = Handlers
    BY <1>3, Zenon DEF MarkHandlers, loadVars
  <2>2. \A j \in DOMAIN events' : ~ (j <= ev')
    BY <2>1 DEF TypeOK
  <2>3. QED
    BY <2>1, <2>2, SameModel DEF ClosureInv, Closing
<1>4. CASE FollowCall \/ PassEnds
  BY <1>4, ClosureLoop
<1>5. CASE JudgeSignalEvent
  <2>1. UNCHANGED <<stage, functions, events, reachable>> /\ stage = "signals"
    BY <1>5, Zenon DEF JudgeSignalEvent, loadVars
  <2>2. QED
    BY <2>1, SameModel DEF ClosureInv, Closing, Closed
<1>6. CASE SignalsEnd
  <2>1. UNCHANGED <<functions, events, reachable>> /\ stage = "signals"
        /\ stage' \in {"report", "exit"}
    BY <1>6, Zenon DEF SignalsEnd, loadVars, judgeVars
  <2>2. QED
    BY <2>1, SameModel DEF ClosureInv, Closing, Closed
<1>7. CASE ReportEnd \/ Exit
  BY <1>7 DEF ReportEnd, Exit, ClosureInv, Closing
<1>8. CASE UNCHANGED vars
  <2>1. UNCHANGED <<stage, functions, events, reachable, ev, changed>>
    BY <1>8, Zenon DEF vars, loadVars, judgeVars
  <2>2. \A j : Inside(j)' <=> Inside(j)
    BY <2>1, SameModel DEF Inside
  <2>3. QED
    BY <2>1, <2>2, SameModel DEF ClosureInv, Closing, Closed
<1>9. CASE ParseArguments
  <2>1. stage' \in {"load", "exit"}
    BY <1>9 DEF ParseArguments, Refuse
  <2>2. QED
    BY <2>1 DEF ClosureInv, Closing
<1>10. QED
  BY <1>1, <1>2, <1>3, <1>4, <1>5, <1>6, <1>7, <1>8, <1>9, Zenon
     DEF Next, Run, Ended

(* In whatever order the calls were recorded, and however they form        *)
(* cycles, analyze_signal_handlers judges exactly the functions that a     *)
(* handler reaches: the least closed set that holds the handlers.          *)
THEOREM ClosureIsLeast == Spec => []ReachableIsLeast
<1>1. ClosureInv => ReachableIsLeast
  BY DEF ClosureInv, Closing, ReachableIsLeast
<1>2. Spec => []ClosureInv
  BY TypeCorrect, ClosureInit, ClosureStep, PTL DEF Spec
<1>3. QED
  BY <1>1, <1>2, PTL

-----------------------------------------------------------------------------
(* What is reported of them.                                               *)

Unsafe == "SIGNAL_UNSAFE_CALL"
ToldUnsafe(j) == \E x \in findings : x.rule = Unsafe /\ x.event = j
MustTell(j) == Caller(j) \in reachable /\ Unsafe \in SignalRules(j)

(* The strengthening: a reached function is the first record of its name,  *)
(* and as long as every report succeeded, exactly the unsafe calls behind  *)
(* the loop were told of.                                                  *)
SignalInv ==
  /\ Closing => \A i \in reachable :
       functions[i].usr # "" /\ IndexOf(functions[i].usr) = i
  /\ stage \notin {"signals", "report", "exit", "ended"} =>
       \A x \in findings : x.rule # Unsafe
  /\ stage = "report" => ~err /\ ev = Len(events)
  /\ stage = "report" \/ (stage = "signals" /\ ~err) =>
       \A j \in DOMAIN events : ToldUnsafe(j) <=> j <= ev /\ MustTell(j)

LEMMA IndexZero ==
  ASSUME TypeOK, NEW usr
  PROVE  IndexOf(usr) = 0 <=>
           ~ \E i \in DOMAIN functions : usr # "" /\ functions[i].usr = usr
<1> DEFINE here == {i \in DOMAIN functions : usr # "" /\ functions[i].usr = usr}
<1>1. DOMAIN functions = 1 .. Len(functions)
  BY DEF TypeOK
<1>2. here \subseteq DOMAIN functions /\ IndexOf(usr) = First(here)
  BY Zenon DEF IndexOf
<1>3. here = {} <=> First(here) = 0
  <2> HIDE DEF here
  <2>1. here \in SUBSET Nat /\ 0 \notin here
    BY <1>1, <1>2
  <2>2. QED
    BY <2>1, FirstIsIn DEF First
<1>4. here = {} <=>
        ~ \E i \in DOMAIN functions : usr # "" /\ functions[i].usr = usr
  BY Zenon
<1>5. QED
  BY <1>2, <1>3, <1>4, Zenon

LEMMA IndexIsFirst ==
  ASSUME TypeOK, NEW usr, IndexOf(usr) # 0
  PROVE  LET i == IndexOf(usr) IN
           functions[i].usr # "" /\ IndexOf(functions[i].usr) = i
BY IndexType

(* A report adds findings of the rules it is given, and all of them when   *)
(* no error is set.                                                        *)
LEMMA Reported ==
  ASSUME NEW found, Report(found), err \in BOOLEAN
  PROVE  /\ findings \subseteq findings' /\ findings' \subseteq findings \cup found
         /\ ~err' => ~err /\ findings' = findings \cup found
<1>1. CASE findings' = findings \cup found /\ UNCHANGED err
  <2>1. findings \subseteq findings' /\ findings' \subseteq findings \cup found
    BY <1>1
  <2>2. ~err' => ~err /\ findings' = findings \cup found
    BY <1>1, Zenon
  <2>3. QED
    BY <2>1, <2>2
<1>2. CASE /\ err' = TRUE
           /\ \E some \in (SUBSET found) \ {found} : findings' = findings \cup some
  BY <1>2
<1>3. QED
  BY <1>1, <1>2, Zenon DEF Report

LEMMA BrokenIsNotUnsafe ==
  ASSUME NEW e, NEW f
  PROVE  Unsafe \notin Broken(e, f)
<1>1. CASE Terminates(e, f)
  BY <1>1 DEF Broken, Unsafe
<1>2. CASE ~Terminates(e, f) /\ e.kind \in DirectKinds
  BY <1>2 DEF Broken, Unsafe, DirectKinds
<1>3. CASE ~Terminates(e, f) /\ e.kind \notin DirectKinds
  BY <1>3 DEF Broken, Unsafe
<1>4. QED
  BY <1>1, <1>2, <1>3, Zenon

LEMMA QuietStep ==
  ASSUME TypeOK, \A x \in findings : x.rule # Unsafe,
         JudgeFunction \/ JudgeEvent \/ JudgeOwnership
  PROVE  \A x \in findings' : x.rule # Unsafe
<1> DEFINE Quiet(found) == \A x \in found : x.rule # Unsafe
<1>1. ASSUME NEW found, Quiet(found), Report(found) PROVE Quiet(findings')
  BY <1>1, Reported DEF TypeOK
<1>2. CASE JudgeFunction
  <2>1. Quiet(SingleExitFindings(fn + 1))
    BY DEF SingleExitFindings, About, Unsafe
  <2>2. QED
    BY <1>1, <1>2, <2>1, Zenon DEF JudgeFunction
<1>3. CASE JudgeEvent
  <2> DEFINE e == events[ev + 1]
             f == functions[fn]
             rules == IF IsIn(e, f) THEN Broken(e, f) ELSE {}
  <2>1. Unsafe \notin rules
    BY BrokenIsNotUnsafe, Zenon
  <2>2. Report({About(rule, fn, ev + 1) : rule \in rules})
    BY <1>3, Zenon DEF JudgeEvent
  <2> HIDE DEF rules
  <2>3. Quiet({About(rule, fn, ev + 1) : rule \in rules})
    BY <2>1 DEF About
  <2>4. QED
    BY <1>1, <2>2, <2>3, Zenon
<1>4. CASE JudgeOwnership
  <2>1. Quiet(OwnershipFindings)
    <3>1. ASSUME NEW x \in OwnershipFindings
          PROVE  x.rule = "ERROR_OWNERSHIP" \/ x.rule = "ENV_OWNERSHIP"
      BY DEF OwnershipFindings
    <3>2. QED
      BY <3>1 DEF Unsafe
  <2>2. CASE err
    BY <1>4, <2>2, Zenon DEF JudgeOwnership
  <2>3. CASE ~err
    BY <1>1, <1>4, <2>1, <2>3, Zenon DEF JudgeOwnership
  <2>4. QED
    BY <2>2, <2>3
<1>5. QED
  BY <1>2, <1>3, <1>4

LEMMA ToldStep ==
  ASSUME TypeOK, SignalInv, JudgeSignalEvent, ~err'
  PROVE  /\ ~err
         /\ \A j \in DOMAIN events : ToldUnsafe(j)' <=> j <= ev + 1 /\ MustTell(j)
<1> DEFINE k == ev + 1
           rules == IF Caller(k) \in reachable THEN SignalRules(k) ELSE {}
           found == {About(rule, Caller(k), k) : rule \in rules}
<1>1. DOMAIN events = 1 .. Len(events) /\ Len(events) \in Nat /\ ev \in Nat
  BY DEF TypeOK
<1>2. stage = "signals" /\ Report(found)
  BY Zenon DEF JudgeSignalEvent
<1>3. Unsafe \in rules <=> MustTell(k)
  BY Zenon DEF MustTell
<1> HIDE DEF rules
<1>4. (\E x \in found : x.rule = Unsafe /\ x.event = k) <=> MustTell(k)
  <2>1. \A rule : About(rule, Caller(k), k).rule = rule
                  /\ About(rule, Caller(k), k).event = k
    BY DEF About
  <2>2. ASSUME NEW x \in found, x.rule = Unsafe PROVE Unsafe \in rules
    BY <2>1, <2>2
  <2>3. ASSUME Unsafe \in rules
        PROVE  About(Unsafe, Caller(k), k) \in found
    BY <2>3
  <2>4. QED
    BY <1>3, <2>1, <2>2, <2>3, Zenon
<1>5. \A x \in found : x.event = k
  BY DEF About
<1> HIDE DEF found
<1>6. ~err /\ findings' = findings \cup found
  BY <1>2, Reported DEF TypeOK
<1>7. ASSUME NEW j \in DOMAIN events
      PROVE  ToldUnsafe(j)' <=> j <= ev + 1 /\ MustTell(j)
  <2>1. ToldUnsafe(j) <=> j <= ev /\ MustTell(j)
    BY <1>2, <1>6 DEF SignalInv
  <2>2. ToldUnsafe(j)' <=>
          ToldUnsafe(j) \/ \E x \in found : x.rule = Unsafe /\ x.event = j
    BY <1>6 DEF ToldUnsafe
  <2>3. CASE j = k
    BY <1>1, <1>4, <2>1, <2>2, <2>3
  <2>4. CASE j # k
    BY <1>1, <1>5, <2>1, <2>2, <2>4
  <2>5. QED
    BY <2>3, <2>4
<1>8. QED
  BY <1>6, <1>7

LEMMA SignalInit == Init => SignalInv
BY DEF Init, SignalInv, Closing

LEMMA SignalStep == TypeOK /\ SignalInv /\ [Next]_vars => SignalInv'
<1> SUFFICES ASSUME TypeOK, SignalInv, [Next]_vars PROVE SignalInv'
  OBVIOUS
<1> DEFINE Early == {"load", "functions", "ownership", "handlers", "close"}
           Quiet == \A x \in findings : x.rule # Unsafe
           Firsts == \A i \in reachable :
                       functions[i].usr # "" /\ IndexOf(functions[i].usr) = i
<1>1. CASE Load
  <2>1. stage = "load" /\ UNCHANGED findings
    BY <1>1, Zenon DEF Load, Apply, PassOver, LoadFails, judgeVars
  <2>2. stage' = stage \/ stage' = "exit"
    BY <1>1, Zenon DEF Load, Apply, PassOver, LoadFails, Refuse, Keep, AddFunction,
       AddEvent, RecordOwnership
  <2>3. QED
    BY <2>1, <2>2 DEF SignalInv, Closing
<1>2. CASE Begin \/ FunctionsEnd
  <2>1. /\ stage \in Early /\ stage' \in Early /\ stage' # "close"
        /\ UNCHANGED findings
    BY <1>2 DEF Begin, FunctionsEnd, judgeVars
  <2>2. QED
    BY <2>1 DEF SignalInv, Closing
<1>3. CASE JudgeFunction \/ JudgeEvent \/ JudgeOwnership
  <2>1. stage \in Early /\ stage' \in Early /\ stage' # "close"
    BY <1>3 DEF JudgeFunction, JudgeEvent, JudgeOwnership
  <2>2. Quiet'
    BY <1>3, <2>1, QuietStep DEF SignalInv
  <2>3. QED
    BY <2>1, <2>2 DEF SignalInv, Closing
<1>4. CASE MarkHandlers
  <2>1. /\ stage = "handlers" /\ stage' = "close" /\ reachable' = Handlers
        /\ UNCHANGED <<findings, functions>>
    BY <1>4, Zenon DEF MarkHandlers, loadVars
  <2>2. \A i \in Handlers :
          functions[i].usr # "" /\ IndexOf(functions[i].usr) = i
    <3> SUFFICES ASSUME NEW i \in Handlers
                 PROVE  functions[i].usr # "" /\ IndexOf(functions[i].usr) = i
      OBVIOUS
    <3>1. PICK usr : i = IndexOf(usr) /\ IndexOf(usr) # 0
      BY Zenon DEF Handlers
    <3>2. QED
      BY <3>1, IndexIsFirst
  <2>3. Firsts'
    BY <2>1, <2>2 DEF IndexOf
  <2>4. QED
    BY <2>1, <2>3 DEF SignalInv, Closing
<1>5. CASE FollowCall
  <2>1. /\ stage = "close" /\ stage' = "close"
        /\ UNCHANGED <<findings, functions>>
        /\ \/ reachable' = reachable
           \/ Callee(ev + 1) # 0 /\ reachable' = reachable \cup {Callee(ev + 1)}
    BY <1>5, Zenon DEF FollowCall, Follows, loadVars
  <2>2. Firsts
    BY <2>1 DEF SignalInv, Closing
  <2>3. \A i \in reachable' :
          functions[i].usr # "" /\ IndexOf(functions[i].usr) = i
    BY <2>1, <2>2, IndexIsFirst DEF Callee
  <2>4. Firsts'
    BY <2>1, <2>3 DEF IndexOf
  <2>5. QED
    BY <2>1, <2>4 DEF SignalInv, Closing
<1>6. CASE PassEnds
  <2>1. /\ stage = "close" /\ stage' \in {"close", "signals"} /\ ev' = 0
        /\ UNCHANGED <<findings, functions, events, reachable>>
    BY <1>6 DEF PassEnds, loadVars
  <2>2. Firsts'
    BY <2>1 DEF SignalInv, Closing, IndexOf
  <2>3. Quiet'
    BY <2>1 DEF SignalInv
  <2>4. \A j \in DOMAIN events' : ~ (j <= ev') /\ ~ ToldUnsafe(j)'
    BY <2>1, <2>3 DEF TypeOK, ToldUnsafe
  <2>5. QED
    BY <2>1, <2>2, <2>3, <2>4 DEF SignalInv, Closing
<1>7. CASE JudgeSignalEvent
  <2>1. /\ stage = "signals" /\ stage' = "signals" /\ ev' = ev + 1
        /\ UNCHANGED <<functions, events, reachable>>
    BY <1>7, Zenon DEF JudgeSignalEvent, loadVars
  <2>2. Firsts'
    BY <2>1 DEF SignalInv, Closing, IndexOf
  <2>3. \A j : MustTell(j)' <=> MustTell(j)
    BY <2>1, SameModel DEF MustTell, SignalRules
  <2>4. ~err' =>
          \A j \in DOMAIN events' : ToldUnsafe(j)' <=> j <= ev' /\ MustTell(j)'
    BY <1>7, <2>1, <2>3, ToldStep
  <2>5. QED
    BY <2>1, <2>2, <2>4 DEF SignalInv, Closing
<1>8. CASE SignalsEnd
  <2>1. /\ stage = "signals" /\ ev = Len(events)
        /\ stage' \in {"report", "exit"} /\ (stage' = "report" => ~err)
        /\ UNCHANGED <<err, functions, events, reachable, findings, ev>>
    BY <1>8, Zenon DEF SignalsEnd, loadVars, judgeVars
  <2>2. Firsts'
    BY <2>1 DEF SignalInv, Closing, IndexOf
  <2>3. \A j : /\ MustTell(j)' <=> MustTell(j)
               /\ ToldUnsafe(j)' <=> ToldUnsafe(j)
    BY <2>1, SameModel DEF MustTell, SignalRules, ToldUnsafe
  <2>4. QED
    BY <2>1, <2>2, <2>3 DEF SignalInv, Closing
<1>9. CASE ReportEnd \/ Exit
  BY <1>9 DEF ReportEnd, Exit, SignalInv, Closing
<1>10. CASE UNCHANGED vars
  <2>1. UNCHANGED <<stage, err, functions, events, reachable, ev, findings>>
    BY <1>10, Zenon DEF vars, loadVars, judgeVars
  <2>2. Closing => Firsts'
    BY <2>1 DEF SignalInv, IndexOf
  <2>3. \A j : /\ MustTell(j)' <=> MustTell(j)
               /\ ToldUnsafe(j)' <=> ToldUnsafe(j)
    BY <2>1, SameModel DEF MustTell, SignalRules, ToldUnsafe
  <2>4. QED
    BY <2>1, <2>2, <2>3 DEF SignalInv, Closing
<1>11. CASE ParseArguments
  <2>1. /\ stage = "arguments" /\ stage' \in {"load", "exit"}
        /\ UNCHANGED findings
    BY <1>11 DEF ParseArguments, Refuse, judgeVars
  <2>2. QED
    BY <2>1 DEF SignalInv, Closing
<1>12. QED
  BY <1>1, <1>2, <1>3, <1>4, <1>5, <1>6, <1>7, <1>8, <1>9, <1>10, <1>11, Zenon
     DEF Next, Run, Ended

(* When analyze_signal_handlers has gone through the calls without an      *)
(* error, it has reported each call that a handler reaches and that leaves *)
(* the program outside the safe set, and no other.                         *)
THEOREM UnsafeCallsTold == Spec => []UnsafeCallsReported
<1>1. TypeOK /\ SignalInv => UnsafeCallsReported
  <2> SUFFICES ASSUME TypeOK, SignalInv, stage = "report",
                      NEW j \in DOMAIN events
               PROVE  (\E x \in findings :
                         x.rule = "SIGNAL_UNSAFE_CALL" /\ x.event = j)
                      <=> /\ IsCall(j) /\ events[j].usr \notin Safe
                          /\ \E i \in reachable :
                               functions[i].usr = events[j].callerUsr
                          /\ ~ \E i \in DOMAIN functions :
                                events[j].usr # ""
                                /\ functions[i].usr = events[j].usr
    BY DEF UnsafeCallsReported
  <2>1. ToldUnsafe(j) <=> MustTell(j)
    BY EventPosition DEF SignalInv
  <2>2. MustTell(j) <=> /\ Caller(j) \in reachable /\ IsCall(j)
                        /\ Callee(j) = 0 /\ events[j].usr \notin Safe
    BY DEF MustTell, SignalRules, SignalSafe, IsCall, Unsafe
  <2>3. Caller(j) \in reachable <=>
          \E i \in reachable : functions[i].usr = events[j].callerUsr
    <3>1. \A i \in reachable : i # 0 /\ IndexOf(functions[i].usr) = i
      <4>1. DOMAIN functions = 1 .. Len(functions)
            /\ reachable \subseteq DOMAIN functions
        BY DEF TypeOK
      <4>2. \A i \in reachable : i # 0
        BY <4>1
      <4>3. \A i \in reachable : IndexOf(functions[i].usr) = i
        BY Zenon DEF SignalInv, Closing
      <4>4. QED
        BY <4>2, <4>3
    <3>2. ASSUME Caller(j) \in reachable
          PROVE  functions[Caller(j)].usr = events[j].callerUsr
      BY <3>1, <3>2, IndexType DEF Caller
    <3>3. QED
      BY <3>1, <3>2 DEF Caller
  <2>4. Callee(j) = 0 <=>
          ~ \E i \in DOMAIN functions :
              events[j].usr # "" /\ functions[i].usr = events[j].usr
    BY IndexZero DEF Callee
  <2>5. QED
    BY <2>1, <2>2, <2>3, <2>4 DEF ToldUnsafe, Unsafe
<1>2. Spec => []SignalInv
  BY TypeCorrect, SignalInit, SignalStep, PTL DEF Spec
<1>3. QED
  BY TypeCorrect, <1>1, <1>2, PTL
-----------------------------------------------------------------------------
(* What a clean run has seen.                                              *)

(* What was applied so far.                                                *)
Applied == {n \in 1 .. delivered : ~Lost(records[n])}
Kept(kinds) == {n \in Applied : records[n].kind \in kinds}
KeptAt(path, role) ==
  {n \in Applied : records[n].kind = role /\ records[n].path = path}

(* The tables hold one entry for each record that has one.                 *)
TablesMatch ==
  /\ Acceptable(args)
  /\ Len(functions) = Cardinality(Kept({"FUNCTION"}))
  /\ Len(events) = Cardinality(Kept(NoteEvents \cup {"CALL"}))
  /\ Kept({"DIAGNOSTIC"}) = {}
  /\ \A p \in DOMAIN owners, k \in Roles :
       owners[p].count[k] = Cardinality(KeptAt(p, k))
  /\ \A n \in Kept(Roles) : records[n].path \in DOMAIN owners
AllKept == delivered = Len(records) /\ (args.facts => Taken # {})

Owned == {"handlers", "close", "signals", "report", "exit", "ended"}

(* The strengthening: as long as no error is set, the tables match what    *)
(* was applied, and after the load that is everything.                     *)
CleanInv ==
  /\ stage = "arguments" =>
       /\ delivered = 0 /\ functions = <<>> /\ events = <<>>
       /\ DOMAIN owners = {}
  /\ stage \in {"arguments", "load"} => ~err /\ findings = {}
  /\ stage = "report" => ~err
  /\ stage \notin {"arguments", "exit", "ended"} => ~args.help
  /\ stage # "arguments" /\ ~err /\ ~args.help => TablesMatch
  /\ stage \notin {"arguments", "load"} /\ ~err /\ ~args.help => AllKept
  /\ stage \in Owned /\ ~err /\ ~args.help /\ findings = {} =>
       OwnershipFindings = {}
  /\ status # "none" => stage = "ended"
  /\ status = "clean" => ~err /\ findings = {}

(* A set of positions that have been applied grows by the next or not.     *)
LEMMA CountNext ==
  ASSUME NEW d \in Nat, NEW S \in SUBSET (1 .. d)
  PROVE  /\ IsFiniteSet(S) /\ Cardinality(S) \in Nat
         /\ Cardinality(S \cup {d + 1}) = Cardinality(S) + 1
<1>1. IsFiniteSet(S)
  <2>1. IsFiniteSet(1 .. d)
    BY FS_Interval
  <2>2. QED
    BY <2>1, FS_Subset
<1>2. d + 1 \notin S
  OBVIOUS
<1>3. QED
  BY <1>1, <1>2, FS_AddElement, FS_CardinalityType

LEMMA KeptNext ==
  ASSUME TypeOK, Apply
  PROVE  /\ \A kinds :
              /\ Kept(kinds)' = IF records[delivered + 1].kind \in kinds
                                THEN Kept(kinds) \cup {delivered + 1}
                                ELSE Kept(kinds)
              /\ Cardinality(Kept(kinds)) \in Nat
              /\ Cardinality(Kept(kinds) \cup {delivered + 1})
                   = Cardinality(Kept(kinds)) + 1
         /\ \A p, k :
              /\ KeptAt(p, k)' = IF /\ records[delivered + 1].kind = k
                                    /\ records[delivered + 1].path = p
                                 THEN KeptAt(p, k) \cup {delivered + 1}
                                 ELSE KeptAt(p, k)
              /\ Cardinality(KeptAt(p, k)) \in Nat
              /\ Cardinality(KeptAt(p, k) \cup {delivered + 1})
                   = Cardinality(KeptAt(p, k)) + 1
<1>1. delivered \in Nat /\ delivered' = delivered + 1 /\ records' = records
      /\ args' = args
  <2>1. delivered \in 0 .. Len(records) /\ Len(records) \in Nat
    BY DEF TypeOK
  <2>2. delivered' = delivered + 1 /\ UNCHANGED <<args, records>>
    BY Zenon DEF Apply
  <2>3. QED
    BY <2>1, <2>2
<1>2. Applied' = Applied \cup {delivered + 1} /\ Applied \subseteq 1 .. delivered
  <2>1. ~Lost(records[delivered + 1])
    BY Zenon DEF Apply
  <2>2. 1 .. delivered + 1 = (1 .. delivered) \cup {delivered + 1}
    BY <1>1
  <2>3. QED
    BY <1>1, <2>1, <2>2 DEF Applied, Lost
<1>3. ASSUME NEW kinds
      PROVE  /\ Kept(kinds) \in SUBSET (1 .. delivered)
             /\ Kept(kinds)' = IF records[delivered + 1].kind \in kinds
                               THEN Kept(kinds) \cup {delivered + 1}
                               ELSE Kept(kinds)
  BY <1>1, <1>2 DEF Kept
<1>4. ASSUME NEW p, NEW k
      PROVE  /\ KeptAt(p, k) \in SUBSET (1 .. delivered)
             /\ KeptAt(p, k)' = IF /\ records[delivered + 1].kind = k
                                   /\ records[delivered + 1].path = p
                                THEN KeptAt(p, k) \cup {delivered + 1}
                                ELSE KeptAt(p, k)
  BY <1>1, <1>2 DEF KeptAt
<1>5. QED
  BY <1>1, <1>3, <1>4, CountNext

LEMMA SameTables ==
  ASSUME UNCHANGED loadVars
  PROVE  /\ TablesMatch' <=> TablesMatch
         /\ AllKept' <=> AllKept
         /\ OwnershipFindings' = OwnershipFindings
BY DEF loadVars, TablesMatch, AllKept, OwnershipFindings, Unreleased, Kept,
   KeptAt, Applied, Taken, Lost

(* A line that is passed over adds nothing to what was applied.            *)
LEMMA PassedOver ==
  ASSUME TypeOK, TablesMatch, PassOver
  PROVE  TablesMatch'
<1>1. /\ delivered \in Nat /\ delivered' = delivered + 1
      /\ UNCHANGED <<args, records, functions, events, owners>>
      /\ Lost(records[delivered + 1])
  <2>1. delivered \in 0 .. Len(records) /\ Len(records) \in Nat
    BY DEF TypeOK
  <2>2. QED
    BY <2>1 DEF PassOver
<1>2. Applied' = Applied
  <2>1. 1 .. delivered + 1 = (1 .. delivered) \cup {delivered + 1}
    BY <1>1
  <2>2. QED
    BY <1>1, <2>1 DEF Applied, Lost
<1>3. /\ \A kinds : Kept(kinds)' = Kept(kinds)
      /\ \A p, k : KeptAt(p, k)' = KeptAt(p, k)
  BY <1>1, <1>2 DEF Kept, KeptAt
<1>4. QED
  BY <1>1, <1>3 DEF TablesMatch, Acceptable

(* What one record adds to the table of the ownership files.               *)
LEMMA OwnersNext ==
  ASSUME TypeOK, TablesMatch, Apply, ~err',
         records[delivered + 1].kind \in Roles
  PROVE  /\ \A p \in DOMAIN owners', k \in Roles :
              owners'[p].count[k] = Cardinality(KeptAt(p, k)')
         /\ DOMAIN owners' = DOMAIN owners \cup {records[delivered + 1].path}
<1> DEFINE r == records[delivered + 1]
<1>1. RecordOwnership(r) /\ r.kind \in Roles
  BY DEF Apply, Roles, NoteEvents, DirectKinds, Markers
<1>2. owners' = [p \in DOMAIN owners \cup {r.path} |->
            LET owner == IF p \in DOMAIN owners THEN owners[p] ELSE Unowned IN
              IF p = r.path THEN Counting(owner, r) ELSE owner]
  BY <1>1, Zenon DEF RecordOwnership, Refuse
<1>3. DOMAIN owners' = DOMAIN owners \cup {r.path}
  BY <1>2
<1>4. ASSUME NEW p \in DOMAIN owners', NEW k \in Roles
      PROVE  owners'[p].count[k] = Cardinality(KeptAt(p, k)')
  <2> DEFINE owner == IF p \in DOMAIN owners THEN owners[p] ELSE Unowned
  <2>1. owner.count[k] = Cardinality(KeptAt(p, k)) /\ owner \in Owner
    <3>1. CASE p \in DOMAIN owners
      BY <3>1 DEF TablesMatch, TypeOK
    <3>2. CASE p \notin DOMAIN owners
      <4>1. KeptAt(p, k) = {}
        BY <3>2 DEF TablesMatch, Kept, KeptAt
      <4>2. QED
        BY <3>2, <4>1, FS_EmptySet DEF Unowned, Owner
    <3>3. QED
      BY <3>1, <3>2
  <2>2. owners'[p] = IF p = r.path THEN Counting(owner, r) ELSE owner
    BY <1>2, <1>3, Zenon
  <2> HIDE DEF owner
  <2>3. Counting(owner, r).count[k] =
          IF k = r.kind THEN owner.count[k] + 1 ELSE owner.count[k]
    BY <1>1, <2>1 DEF Counting, Owner
  <2> HIDE DEF r
  <2>4. owners'[p].count[k] =
          IF p = r.path /\ k = r.kind
          THEN Cardinality(KeptAt(p, k)) + 1 ELSE Cardinality(KeptAt(p, k))
    BY <2>1, <2>2, <2>3
  <2>5. QED
    BY <2>4, KeptNext DEF r
<1>5. QED
  BY <1>3, <1>4

LEMMA TablesNext ==
  ASSUME TypeOK, TablesMatch, Apply, ~err'
  PROVE  TablesMatch'
<1> DEFINE r == records[delivered + 1]
           Pages == {"ERROR_ACQUIRE", "ERROR_RELEASE", "ENV_ACQUIRE",
                     "ENV_RELEASE"}
<1>1. UNCHANGED <<args, records>>
  BY Zenon DEF Apply
<1>2. r.kind # "DIAGNOSTIC"
  BY DEF Apply, Refuse, NoteEvents, DirectKinds, Roles, Markers
<1>3. Kept({"DIAGNOSTIC"})' = {}
  BY <1>2, KeptNext DEF TablesMatch
<1>4. Len(functions') = Cardinality(Kept({"FUNCTION"})')
  <2>1. CASE r.kind = "FUNCTION"
    <3>1. AddFunction(r)
      BY <2>1 DEF Apply, NoteEvents, DirectKinds, Roles, Markers
    <3>2. Len(functions') = Len(functions) + 1
      BY <3>1 DEF AddFunction, Refuse, TypeOK
    <3>3. QED
      BY <2>1, <3>2, KeptNext DEF TablesMatch
  <2>2. CASE r.kind # "FUNCTION"
    <3>1. Len(functions') = Len(functions)
      <4>1. functions' = functions \/ SetMarker(r)
        BY <2>2, Zenon DEF Apply
      <4>2. DOMAIN records = 1 .. Len(records) /\ r \in Record
        BY DEF Apply, TypeOK
      <4>3. QED
        BY <4>1, <4>2, SetMarkerType DEF TypeOK
    <3>2. QED
      BY <2>2, <3>1, KeptNext DEF TablesMatch
  <2>3. QED
    BY <2>1, <2>2
<1>5. Len(events') = Cardinality(Kept(NoteEvents \cup {"CALL"})')
  <2>1. CASE r.kind \in NoteEvents \cup {"CALL"}
    <3>1. \E kind : AddEvent(kind, r)
      BY <2>1 DEF Apply, NoteEvents, DirectKinds, Roles, Markers
    <3>2. Len(events') = Len(events) + 1
      BY <3>1 DEF AddEvent, Refuse, TypeOK
    <3>3. QED
      BY <2>1, <3>2, KeptNext DEF TablesMatch
  <2>2. CASE r.kind \notin NoteEvents \cup {"CALL"}
    <3>1. events' = events
      BY <2>2, Zenon DEF Apply
    <3>2. QED
      BY <2>2, <3>1, KeptNext DEF TablesMatch
  <2>3. QED
    BY <2>1, <2>2
<1>6. /\ \A p \in DOMAIN owners', k \in Roles :
           owners'[p].count[k] = Cardinality(KeptAt(p, k)')
      /\ \A n \in Kept(Roles)' : records[n].path \in DOMAIN owners'
  <2>1. CASE r.kind \in Roles
    <3>1. DOMAIN owners' = DOMAIN owners \cup {r.path}
      BY <2>1, OwnersNext
    <3>2. Kept(Roles)' = Kept(Roles) \cup {delivered + 1}
      BY <2>1, KeptNext
    <3>3. \A n \in Kept(Roles)' : records[n].path \in DOMAIN owners'
      BY <3>1, <3>2 DEF TablesMatch
    <3>4. QED
      BY <2>1, <3>3, OwnersNext
  <2>2. CASE r.kind \notin Roles
    <3>1. owners' = owners
      BY <2>2, Zenon DEF Apply
    <3>2. \A p : \A k \in Roles : KeptAt(p, k)' = KeptAt(p, k)
      BY <2>2, KeptNext
    <3>3. Kept(Roles)' = Kept(Roles)
      BY <2>2, KeptNext
    <3>4. QED
      BY <3>1, <3>2, <3>3 DEF TablesMatch
  <2>3. QED
    BY <2>1, <2>2
<1>7. QED
  BY <1>1, <1>3, <1>4, <1>5, <1>6 DEF TablesMatch, Acceptable

LEMMA CleanInit == Init => CleanInv
BY DEF Init, CleanInv, Owned

LEMMA CleanStep == TypeOK /\ CleanInv /\ [Next]_vars => CleanInv'
<1> SUFFICES ASSUME TypeOK, CleanInv, [Next]_vars PROVE CleanInv'
  OBVIOUS
<1> USE DEF Owned
<1>1. CASE ParseArguments
  <2>1. /\ stage = "arguments" /\ stage' \in {"load", "exit"}
        /\ UNCHANGED <<loadVars, judgeVars>>
        /\ stage' = "load" => ~args.help /\ Acceptable(args) /\ err' = err
        /\ stage' = "exit" => err' \/ args.help
    BY <1>1, Zenon DEF ParseArguments, Refuse
  <2>2. UNCHANGED <<args, records, delivered, functions, events, owners,
                    findings, status>>
    BY <2>1 DEF loadVars, judgeVars
  <2>3. Acceptable(args) => TablesMatch
    <3>1. \A kinds : Kept(kinds) = {}
      BY <2>1 DEF CleanInv, Kept, Applied
    <3>2. QED
      BY <2>1, <3>1, FS_EmptySet DEF CleanInv, TablesMatch
  <2>4. TablesMatch' <=> TablesMatch
    BY <2>1, SameTables
  <2>5. QED
    BY <2>1, <2>2, <2>3, <2>4 DEF CleanInv
<1>2. CASE Load
  <2>1. stage = "load" /\ UNCHANGED <<args, findings, status>>
    BY <1>2, Zenon DEF Load, Apply, PassOver, LoadFails, loadVars, judgeVars
  <2>2. stage' \in {"load", "exit"} /\ (err' <=> stage' = "exit")
    <3>1. ~err
      BY <2>1 DEF CleanInv
    <3>2. (stage' = "exit" /\ err') \/ UNCHANGED <<stage, err>>
      BY <1>2, Zenon
      DEF Load, Apply, PassOver, LoadFails, Refuse, Keep, AddFunction, AddEvent,
          RecordOwnership
    <3>3. QED
      BY <2>1, <3>1, <3>2
  <2>3. ~err' => TablesMatch'
    <3>1. ~err' => Apply \/ PassOver
      BY <1>2, Zenon DEF Load, LoadFails, Refuse
    <3>2. QED
      BY <2>1, <3>1, TablesNext, PassedOver DEF CleanInv
  <2>4. QED
    BY <2>1, <2>2, <2>3 DEF CleanInv
<1>3. CASE UNCHANGED loadVars /\ ~UNCHANGED vars
  <2>1. /\ TablesMatch' <=> TablesMatch
        /\ AllKept' <=> AllKept
        /\ OwnershipFindings' = OwnershipFindings
        /\ args' = args
    BY <1>3, SameTables DEF loadVars
  <2> DEFINE Late == {"functions", "ownership", "handlers", "close",
                      "signals", "report", "exit", "ended"}
  <2>2. ASSUME stage \in Late, stage' \in Late,
               err => err', findings \subseteq findings',
               stage' \in Owned => stage \in Owned,
               stage' \notin {"exit", "ended"} => stage \notin {"exit", "ended"},
               stage' = "report" => ~err',
               stage # "ended", status' = status
        PROVE  CleanInv'
    BY <2>1, <2>2 DEF CleanInv
  <2>3. CASE Begin
    <3>1. AllKept /\ UNCHANGED <<err, findings, status>> /\ stage = "load"
          /\ stage' = "functions"
      BY <2>3, Zenon DEF Begin, AllKept
    <3>2. QED
      BY <2>1, <3>1 DEF CleanInv
  <2>4. CASE JudgeFunction \/ JudgeEvent \/ JudgeSignalEvent
    <3>1. (err => err') /\ findings \subseteq findings'
      BY <2>4, Reported, Zenon
      DEF JudgeFunction, JudgeEvent, JudgeSignalEvent, TypeOK
    <3>2. /\ stage \in {"functions", "signals"} /\ stage' = stage
          /\ status' = status
      BY <2>4, Zenon DEF JudgeFunction, JudgeEvent, JudgeSignalEvent
    <3>3. QED
      BY <2>2, <3>1, <3>2
  <2>5. CASE FunctionsEnd \/ MarkHandlers \/ FollowCall \/ PassEnds
             \/ SignalsEnd
    BY <2>2, <2>5
    DEF FunctionsEnd, MarkHandlers, FollowCall, PassEnds, SignalsEnd,
        judgeVars
  <2>6. CASE ReportEnd
    <3>1. /\ stage = "report" /\ stage' = "exit"
          /\ UNCHANGED <<findings, status>>
      BY <2>6 DEF ReportEnd, judgeVars
    <3>2. /\ ~err /\ ~args.help /\ TablesMatch /\ AllKept /\ status = "none"
          /\ findings = {} => OwnershipFindings = {}
      BY <3>1 DEF CleanInv
    <3>3. QED
      BY <2>1, <3>1, <3>2 DEF CleanInv
  <2>7. CASE JudgeOwnership
    <3>1. stage = "ownership" /\ stage' = "handlers" /\ status' = status
      BY <2>7, Zenon DEF JudgeOwnership
    <3>2. /\ err => err'
          /\ ~err' => findings' = findings \cup OwnershipFindings
      BY <2>7, Reported, Zenon DEF JudgeOwnership, TypeOK
    <3>3. QED
      BY <2>1, <3>1, <3>2 DEF CleanInv
  <2>8. CASE Exit
    <3>1. /\ stage = "exit" /\ stage' = "ended" /\ UNCHANGED <<err, findings>>
          /\ status' = "clean" => ~err /\ findings = {}
      BY <2>8 DEF Exit
    <3>2. QED
      BY <2>1, <3>1 DEF CleanInv
  <2>9. QED
    BY <1>1, <1>2, <1>3, <2>3, <2>4, <2>5, <2>6, <2>7, <2>8, Zenon
    DEF Next, Run, Ended
<1>4. CASE UNCHANGED vars
  <2>1. UNCHANGED loadVars
    BY <1>4 DEF vars
  <2>2. QED
    BY <2>1, <1>4, SameTables DEF vars, loadVars, judgeVars, CleanInv
<1>5. QED
  BY <1>1, <1>2, <1>3, <1>4, Zenon
  DEF Next, Run, Ended, Begin, JudgeFunction, JudgeEvent, FunctionsEnd,
      JudgeOwnership, MarkHandlers, FollowCall, PassEnds, JudgeSignalEvent,
      SignalsEnd, ReportEnd, Exit

(* A clean run has judged every record that reached it, whatever the size  *)
(* of its tables, and no file of it keeps more objects than it gives back; *)
(* what it does not reach are the saved lines longer than the read buffer. *)
THEOREM CleanEarned == Spec => []CleanIsEarned
<1>1. TypeOK /\ CleanInv => CleanIsEarned
  <2> SUFFICES ASSUME TypeOK, CleanInv, status = "clean", ~args.help
               PROVE  /\ Acceptable(args) /\ (args.facts => Taken # {})
                      /\ RecordsOf({"DIAGNOSTIC"}) = {}
                      /\ Len(functions) = Cardinality(RecordsOf({"FUNCTION"}))
                      /\ Len(events)
                           = Cardinality(RecordsOf(NoteEvents \cup {"CALL"}))
                      /\ \A n \in Taken : LET p == records[n].path IN
                           /\ Acquired(p, "ERROR_ACQUIRE")
                                <= Acquired(p, "ERROR_RELEASE")
                           /\ Acquired(p, "ENV_ACQUIRE")
                                <= Acquired(p, "ENV_RELEASE")
    BY DEF CleanIsEarned
  <2>1. /\ stage = "ended" /\ ~err /\ findings = {}
        /\ TablesMatch /\ AllKept /\ OwnershipFindings = {}
    BY DEF CleanInv, Owned
  <2>2. Taken = Applied
    <3>1. DOMAIN records = 1 .. delivered
      BY <2>1 DEF AllKept, TypeOK
    <3>2. QED
      BY <3>1 DEF Taken, Applied
  <2>3. /\ \A kinds : RecordsOf(kinds) = Kept(kinds)
        /\ \A p, k : Acquired(p, k) = Cardinality(KeptAt(p, k))
    <3>1. \A p, k : {n \in RecordsOf({k}) : records[n].path = p} = KeptAt(p, k)
      BY <2>2 DEF RecordsOf, KeptAt
    <3>2. QED
      BY <2>2, <3>1 DEF RecordsOf, Kept, Acquired
  <2>4. \A p \in DOMAIN owners :
          ~Unreleased(p, "error") /\ ~Unreleased(p, "env")
    BY <2>1 DEF OwnershipFindings
  <2>5. ASSUME NEW p
        PROVE  /\ Acquired(p, "ERROR_ACQUIRE") <= Acquired(p, "ERROR_RELEASE")
               /\ Acquired(p, "ENV_ACQUIRE") <= Acquired(p, "ENV_RELEASE")
    <3>1. CASE p \in DOMAIN owners
      <4>1. owners[p] \in Owner
        BY <3>1 DEF TypeOK
      <4>2. \A k \in Roles : Acquired(p, k) = owners[p].count[k]
                             /\ owners[p].count[k] \in Nat
        BY <2>1, <2>3, <3>1, <4>1 DEF TablesMatch, Owner
      <4>3. QED
        BY <2>4, <3>1, <4>2 DEF Unreleased, Roles
    <3>2. CASE p \notin DOMAIN owners
      <4>1. \A k \in Roles : KeptAt(p, k) = {}
        BY <2>1, <3>2 DEF TablesMatch, Kept, KeptAt
      <4>2. \A k \in Roles : Acquired(p, k) = 0
        BY <2>3, <4>1, FS_EmptySet
      <4>3. QED
        BY <4>2 DEF Roles
    <3>3. QED
      BY <3>1, <3>2
  <2>6. args.facts => Taken # {}
    BY <2>1 DEF AllKept
  <2>7. QED
    BY <2>1, <2>3, <2>5, <2>6 DEF TablesMatch
<1>2. Spec => []CleanInv
  BY TypeCorrect, CleanInit, CleanStep, PTL DEF Spec
<1>3. QED
  BY TypeCorrect, <1>1, <1>2, PTL
-----------------------------------------------------------------------------
(* How often a function is told.                                           *)

(* Being the same exit is an equivalence, and the same exits lie in the    *)
(* same functions.                                                         *)
LEMMA SameExitIsEquivalence ==
  ASSUME NEW a, NEW b, NEW c
  PROVE  /\ SameExit(a, a)
         /\ SameExit(a, b) => SameExit(b, a)
         /\ SameExit(a, b) /\ SameExit(b, c) => SameExit(a, c)
BY DEF SameExit

LEMMA SameExitSameFunction ==
  ASSUME NEW a, NEW b, NEW f, SameExit(a, b)
  PROVE  (IsExit(a) <=> IsExit(b)) /\ (IsIn(a, f) <=> IsIn(b, f))
BY DEF SameExit, IsExit, IsIn

(* Every exit of a function has a first record, which counts.              *)
LEMMA FirstRecord ==
  ASSUME TypeOK, NEW f, NEW j \in DOMAIN events,
         IsExit(events[j]), IsIn(events[j], f)
  PROVE  \E i \in Exits(f) : SameExit(events[i], events[j])
<1> DEFINE same == {i \in DOMAIN events : SameExit(events[i], events[j])}
           i == First(same)
<1>1. DOMAIN events = 1 .. Len(events) /\ Len(events) \in Nat
  BY DEF TypeOK
<1>2. same \in SUBSET Nat /\ j \in same
  BY <1>1, SameExitIsEquivalence
<1> HIDE DEF i
<1>3. i \in same /\ \A k \in same : i <= k
  BY <1>2, FirstIsIn DEF i
<1>4. i \in DOMAIN events /\ SameExit(events[i], events[j])
  BY <1>3
<1>5. IsExit(events[i]) /\ IsIn(events[i], f)
  BY <1>4, SameExitSameFunction
<1>6. ~ \E k \in 1 .. i - 1 : SameExit(events[k], events[i])
  <2> SUFFICES ASSUME NEW k \in 1 .. i - 1, SameExit(events[k], events[i])
               PROVE  FALSE
    OBVIOUS
  <2>1. k \in DOMAIN events /\ k < i
    BY <1>1, <1>4
  <2>2. SameExit(events[k], events[j])
    BY <1>4, SameExitIsEquivalence
  <2>3. k \in same
    BY <2>1, <2>2
  <2>4. i <= k
    BY <1>3, <2>3
  <2>5. i \in Nat /\ k \in Nat
    BY <1>1, <1>4, <2>1
  <2>6. QED
    BY <2>1, <2>4, <2>5
<1>7. QED
  BY <1>4, <1>5, <1>6 DEF Exits

(* function_exit_count is above one exactly when there are two different   *)
(* exits.                                                                  *)
LEMMA TwoExits ==
  ASSUME TypeOK, NEW f
  PROVE  Cardinality(Exits(f)) > 1 <=>
           \E j, k \in {n \in DOMAIN events :
                          IsIn(events[n], f) /\ IsExit(events[n])} :
             ~SameExit(events[j], events[k])
<1>1. DOMAIN events = 1 .. Len(events) /\ Len(events) \in Nat
  BY DEF TypeOK
<1>2. Exits(f) \subseteq DOMAIN events
  BY Zenon DEF Exits
<1>3. IsFiniteSet(Exits(f)) /\ Cardinality(Exits(f)) \in Nat
  <2>1. IsFiniteSet(1 .. Len(events))
    BY <1>1, FS_Interval
  <2>2. QED
    BY <1>1, <1>2, <2>1, FS_Subset, FS_CardinalityType
<1>4. ASSUME Cardinality(Exits(f)) > 1
      PROVE  \E j, k \in Exits(f) : j < k
  <2>1. Exits(f) # {}
    BY <1>4, FS_EmptySet
  <2>2. PICK j : j \in Exits(f)
    BY <2>1
  <2>3. Exits(f) # {j}
    <3>1. Cardinality({j}) = 1 /\ ~ (1 > 1)
      BY FS_Singleton
    <3>2. QED
      BY <1>4, <3>1
  <2>4. PICK k \in Exits(f) : k # j
    BY <2>2, <2>3
  <2>5. j \in Nat /\ k \in Nat
    BY <1>1, <1>2, <2>2, <2>4
  <2>6. j < k \/ k < j
    BY <2>4, <2>5
  <2>7. QED
    BY <2>2, <2>4, <2>6
<1>5. ASSUME NEW j \in Exits(f), NEW k \in Exits(f), j < k
      PROVE  ~SameExit(events[j], events[k])
  <2>1. j \in 1 .. k - 1
    BY <1>1, <1>2, <1>5
  <2>2. QED
    BY <2>1 DEF Exits
<1>6. ASSUME NEW j \in DOMAIN events, NEW k \in DOMAIN events,
             IsIn(events[j], f), IsExit(events[j]),
             IsIn(events[k], f), IsExit(events[k]),
             ~SameExit(events[j], events[k])
      PROVE  Cardinality(Exits(f)) > 1
  <2>1. PICK a \in Exits(f) : SameExit(events[a], events[j])
    BY <1>6, FirstRecord
  <2>2. PICK b \in Exits(f) : SameExit(events[b], events[k])
    BY <1>6, FirstRecord
  <2>3. a # b
    BY <1>6, <2>1, <2>2, SameExitIsEquivalence
  <2>4. IsFiniteSet({a, b}) /\ Cardinality({a, b}) = 2
    <3>1. {a, b} = {a} \cup {b} /\ b \notin {a}
      BY <2>3
    <3>2. IsFiniteSet({a}) /\ Cardinality({a}) = 1
      BY FS_Singleton
    <3>3. QED
      BY <3>1, <3>2, FS_AddElement
  <2>5. Cardinality({a, b}) <= Cardinality(Exits(f))
    BY <1>3, FS_Subset
  <2>6. QED
    BY <1>3, <2>4, <2>5
<1>7. QED
  BY <1>4, <1>5, <1>6 DEF Exits

Required == {"ENV_REQUIRED", "ERROR_REQUIRED"}
Contract(rule) == IF rule = "ENV_REQUIRED" THEN "env" ELSE "error"

(* The event breaks the rule in this function, whatever was told before.   *)
Needs(rule, i, j) ==
  LET f == functions[i]
      e == events[j]
  IN /\ IsIn(e, f)
     /\ IF rule = "ENV_REQUIRED" THEN NeedsEnv(e) /\ ~VisibleEnv(e, f)
        ELSE NeedsError(e) /\ ~VisibleError(e, f) /\ ~Optional(e, f)

(* The events that were judged in a function so far.                       *)
UpTo(i) ==
  IF stage \in {"arguments", "load"} THEN 0
  ELSE IF stage # "functions" \/ i < fn THEN Len(events)
  ELSE IF i = fn THEN ev ELSE 0

Needed(rule, i) == \E j \in DOMAIN events : j <= UpTo(i) /\ Needs(rule, i, j)
ToldAsNeeded(rule, i) ==
  IF Needed(rule, i)
  THEN \E j \in DOMAIN events : Told(rule, i) = {About(rule, i, j)}
  ELSE Told(rule, i) = {}
ToldOfExits(i) ==
  Told("SINGLE_EXIT", i) =
    IF stage \in {"arguments", "load"} \/ (stage = "functions" /\ i > fn)
    THEN {} ELSE SingleExitFindings(i)

(* The strengthening: what was told of the functions and events judged so  *)
(* far, and that the flags say what was told of the one under judgement.   *)
ToldInv ==
  /\ stage = "arguments" => functions = <<>>
  /\ stage \in {"arguments", "load"} => findings = {}
  /\ stage = "functions" /\ fn = 0 => ev = Len(events)
  /\ ~err => \A i \in DOMAIN functions :
       ToldOfExits(i) /\ \A rule \in Required : ToldAsNeeded(rule, i)
  /\ stage = "functions" /\ fn # 0 => \A rule \in Required :
       Contract(rule) \in covered <=> Needed(rule, fn)

LEMMA BreaksOnce ==
  ASSUME NEW rule \in Required, NEW i, NEW j
  PROVE  /\ IsIn(events[j], functions[i]) /\ rule \in Broken(events[j], functions[i])
              <=> Needs(rule, i, j) /\ Contract(rule) \notin covered
<1> DEFINE e == events[j]
           f == functions[i]
           R == {"ENV_REQUIRED", "ERROR_REQUIRED", "ERROR_DISCARDED",
                 "UNCHECKED_CHAIN"}
           B == {r \in R :
                   CASE r = "ENV_REQUIRED" -> EnvMissing(e, f)
                     [] r = "ERROR_REQUIRED" -> ErrorMissing(e, f)
                     [] r = "ERROR_DISCARDED" ->
                          e.kind = "ERROR_DISCARD" /\ ~Optional(e, f)
                     [] r = "UNCHECKED_CHAIN" ->
                          /\ args.strict /\ e.kind = "ERROR_UNCHECKED_CHAIN"
                          /\ ~Optional(e, f)}
<1>1. /\ "ENV_REQUIRED" \in B <=> EnvMissing(e, f)
      /\ "ERROR_REQUIRED" \in B <=> ErrorMissing(e, f)
  OBVIOUS
<1>2. CASE Terminates(e, f)
  <2>1. rule \notin Broken(e, f)
    BY <1>2 DEF Broken, Required
  <2>2. ~NeedsEnv(e) /\ ~NeedsError(e)
    BY <1>2 DEF Terminates, NeedsEnv, NeedsError
  <2>3. QED
    BY <2>1, <2>2 DEF Needs
<1>3. CASE ~Terminates(e, f) /\ e.kind \in DirectKinds
  <2>1. rule \notin Broken(e, f)
    BY <1>3 DEF Broken, Required, DirectKinds
  <2>2. ~NeedsEnv(e) /\ ~NeedsError(e)
    BY <1>3 DEF DirectKinds, NeedsEnv, NeedsError
  <2>3. QED
    BY <2>1, <2>2 DEF Needs
<1>4. CASE ~Terminates(e, f) /\ e.kind \notin DirectKinds
  <2>1. Broken(e, f) = B
    BY <1>4, Zenon DEF Broken
  <2>2. QED
    BY <1>1, <2>1
    DEF Required, Contract, Needs, EnvMissing, ErrorMissing
<1>5. QED
  BY <1>2, <1>3, <1>4
LEMMA SameNeeds ==
  ASSUME UNCHANGED <<functions, events>>
  PROVE  /\ \A rule, i, j : /\ Needs(rule, i, j)' <=> Needs(rule, i, j)
                            /\ About(rule, i, j)' = About(rule, i, j)
         /\ \A i : SingleExitFindings(i)' = SingleExitFindings(i)
BY DEF Needs, IsIn, Passed, VisibleEnv, VisibleError, UsedBefore, Optional,
   About, SingleExitFindings, EarlyReturn, SecondExit, Exits

TellingRules == Required \cup {"SINGLE_EXIT"}
Late == {"ownership", "handlers", "close", "signals", "report", "exit",
         "ended"}

(* After the functions nothing is told by these rules.                     *)
LEMMA LaterSteps ==
  ASSUME ToldInv, UNCHANGED <<functions, events>>,
         stage \in Late, stage' \in Late, ~err' => ~err,
         findings \subseteq findings',
         \A x \in findings' \ findings : x.rule \notin TellingRules
  PROVE  ToldInv'
<1>1. ASSUME NEW rule \in TellingRules, NEW i
      PROVE  Told(rule, i)' = Told(rule, i)
  BY DEF Told
<1>2. ASSUME NEW rule, NEW i PROVE Needed(rule, i)' <=> Needed(rule, i)
  BY SameNeeds DEF Needed, UpTo, Late
<1>3. ASSUME ~err', NEW i \in DOMAIN functions', NEW rule \in Required
      PROVE  ToldOfExits(i)' /\ ToldAsNeeded(rule, i)'
  <2>1. ToldOfExits(i) /\ ToldAsNeeded(rule, i)
    BY <1>3 DEF ToldInv
  <2>2. ToldOfExits(i)'
    BY <1>1, <2>1, SameNeeds DEF ToldOfExits, Late, TellingRules
  <2>3. ToldAsNeeded(rule, i)'
    BY <1>1, <1>2, <2>1, SameNeeds DEF ToldAsNeeded, TellingRules
  <2>4. QED
    BY <2>2, <2>3
<1>4. QED
  BY <1>3 DEF ToldInv, Late, Required

(* The exits of the next function are judged, and no other event.          *)
LEMMA NextFunctionTold ==
  ASSUME TypeOK, ToldInv, JudgeFunction
  PROVE  ToldInv'
<1>1. /\ stage = "functions" /\ stage' = "functions" /\ ~err
      /\ ev = Len(events) /\ fn' = fn + 1 /\ ev' = 0 /\ covered' = {}
      /\ UNCHANGED <<functions, events>>
      /\ Report(SingleExitFindings(fn + 1))
  BY Zenon DEF JudgeFunction, loadVars
<1>2. /\ fn \in Nat /\ fn <= Len(functions)
      /\ DOMAIN events = 1 .. Len(events) /\ Len(events) \in Nat
      /\ DOMAIN functions = 1 .. Len(functions) /\ Len(functions) \in Nat
  BY <1>1 DEF TypeOK
<1>3. \A x \in SingleExitFindings(fn + 1) :
        x.rule = "SINGLE_EXIT" /\ x.function = fn + 1
  BY DEF SingleExitFindings, About
<1>4. ASSUME ~err'
      PROVE  /\ \A rule \in Required : \A i : Told(rule, i)' = Told(rule, i)
             /\ \A i : Told("SINGLE_EXIT", i)' =
                  IF i = fn + 1
                  THEN Told("SINGLE_EXIT", i) \cup SingleExitFindings(fn + 1)
                  ELSE Told("SINGLE_EXIT", i)
  <2>1. findings' = findings \cup SingleExitFindings(fn + 1)
    BY <1>1, <1>4, Reported DEF TypeOK
  <2>2. QED
    BY <1>3, <2>1 DEF Told, Required
<1>5. ASSUME NEW rule, NEW i \in DOMAIN functions
      PROVE  Needed(rule, i)' <=> Needed(rule, i)
  <2>1. \A j \in DOMAIN events : j <= UpTo(i)' <=> j <= UpTo(i)
    BY <1>1, <1>2 DEF UpTo
  <2>2. QED
    BY <1>1, <2>1, SameNeeds DEF Needed
<1>6. ASSUME NEW rule PROVE ~Needed(rule, fn)'
  BY <1>1, <1>2 DEF Needed, UpTo
<1>7. ASSUME ~err', NEW i \in DOMAIN functions'
      PROVE  ToldOfExits(i)' /\ \A rule \in Required : ToldAsNeeded(rule, i)'
  <2>1. ToldOfExits(i) /\ \A rule \in Required : ToldAsNeeded(rule, i)
    BY <1>1, <1>7 DEF ToldInv
  <2>2. ToldOfExits(i)'
    <3>1. SingleExitFindings(i)' = SingleExitFindings(i) /\ i \in Nat
      BY <1>1, <1>2, <1>7, SameNeeds
    <3>2. CASE i = fn + 1
      <4>1. Told("SINGLE_EXIT", i) = {}
        BY <1>1, <1>2, <2>1, <3>2 DEF ToldOfExits
      <4>2. Told("SINGLE_EXIT", i)' = SingleExitFindings(i)
        BY <1>4, <1>7, <3>2, <4>1
      <4>3. ~ (i > fn')
        BY <1>1, <1>2, <3>2
      <4>4. QED
        BY <1>1, <3>1, <4>2, <4>3 DEF ToldOfExits
    <3>3. CASE i # fn + 1
      <4>1. Told("SINGLE_EXIT", i)' = Told("SINGLE_EXIT", i)
        BY <1>4, <1>7, <3>3
      <4>2. i > fn' <=> i > fn
        BY <1>1, <1>2, <3>1, <3>3
      <4>3. QED
        BY <1>1, <2>1, <3>1, <4>1, <4>2 DEF ToldOfExits
    <3>4. QED
      BY <3>2, <3>3
  <2>3. \A rule \in Required : ToldAsNeeded(rule, i)'
    BY <1>1, <1>4, <1>5, <1>7, <2>1, SameNeeds DEF ToldAsNeeded
  <2>4. QED
    BY <2>2, <2>3
<1>8. QED
  BY <1>1, <1>2, <1>6, <1>7 DEF ToldInv

(* An event of a function is judged.                                       *)
LEMMA NextEventTold ==
  ASSUME TypeOK, ToldInv, JudgeEvent
  PROVE  ToldInv'
<1> DEFINE k == ev + 1
           rules == IF IsIn(events[k], functions[fn])
                    THEN Broken(events[k], functions[fn]) ELSE {}
           found == {About(rule, fn, k) : rule \in rules}
<1>1. /\ stage = "functions" /\ stage' = "functions" /\ ~err
      /\ ev < Len(events) /\ fn' = fn /\ ev' = k
      /\ UNCHANGED <<functions, events>>
      /\ Report(found) /\ covered' = Covered(rules)
  BY Zenon DEF JudgeEvent, loadVars
<1>2. /\ fn \in Nat /\ fn <= Len(functions) /\ ev \in Nat
      /\ DOMAIN events = 1 .. Len(events) /\ Len(events) \in Nat
      /\ DOMAIN functions = 1 .. Len(functions) /\ Len(functions) \in Nat
  BY <1>1 DEF TypeOK
<1>3. fn # 0 /\ k \in DOMAIN events
  <2>1. fn = 0 => ev = Len(events)
    BY <1>1, Zenon DEF ToldInv
  <2>2. ev < Len(events) /\ ev \in Nat /\ Len(events) \in Nat
    BY <1>1, <1>2
  <2>3. fn # 0
    BY <2>1, <2>2
  <2>4. ev + 1 \in 1 .. Len(events)
    BY <2>2
  <2>5. QED
    BY <1>2, <2>3, <2>4, Zenon
<1>4. \A rule \in Required :
        rule \in rules <=> Needs(rule, fn, k) /\ ~Needed(rule, fn)
  <2>1. \A rule \in Required :
          rule \in rules <=> Needs(rule, fn, k) /\ Contract(rule) \notin covered
    BY BreaksOnce
  <2>2. QED
    BY <1>1, <1>3, <2>1 DEF ToldInv
<1>5. "SINGLE_EXIT" \notin rules
  <2>1. CASE Terminates(events[k], functions[fn])
    BY <2>1 DEF Broken
  <2>2. CASE /\ ~Terminates(events[k], functions[fn])
             /\ events[k].kind \in DirectKinds
    BY <2>2 DEF Broken, DirectKinds
  <2>3. CASE /\ ~Terminates(events[k], functions[fn])
             /\ events[k].kind \notin DirectKinds
    <3>1. Broken(events[k], functions[fn]) \subseteq
            {"ENV_REQUIRED", "ERROR_REQUIRED", "ERROR_DISCARDED",
             "UNCHECKED_CHAIN"}
      BY <2>3, Zenon DEF Broken
    <3>2. QED
      BY <3>1
  <2>4. QED
    BY <2>1, <2>2, <2>3
<1> HIDE DEF rules
<1>6. ASSUME NEW rule, NEW i \in DOMAIN functions
      PROVE  Needed(rule, i)' <=>
               Needed(rule, i) \/ (i = fn /\ Needs(rule, fn, k))
  <2>1. \A j \in DOMAIN events :
          j <= UpTo(i)' <=> j <= UpTo(i) \/ (i = fn /\ j = k)
    BY <1>1, <1>2, <1>3 DEF UpTo
  <2>2. QED
    BY <1>1, <1>3, <2>1, SameNeeds DEF Needed
<1>7. \A rule \in Required :
        Contract(rule) \in covered' <=> Contract(rule) \in covered \/ rule \in rules
  BY <1>1 DEF Covered, Contract, Required
<1>8. ASSUME ~err'
      PROVE  /\ \A i : Told("SINGLE_EXIT", i)' = Told("SINGLE_EXIT", i)
             /\ \A rule, i :
                  Told(rule, i)' = IF i = fn /\ rule \in rules
                                   THEN Told(rule, i) \cup {About(rule, fn, k)}
                                   ELSE Told(rule, i)
  <2>1. findings' = findings \cup found
    <3> HIDE DEF found
    <3>1. QED
      BY <1>1, <1>8, Reported DEF TypeOK
  <2>2. ASSUME NEW rule, NEW i
        PROVE  {x \in found : x.rule = rule /\ x.function = i} =
                 IF i = fn /\ rule \in rules THEN {About(rule, fn, k)} ELSE {}
    BY DEF About
  <2>3. ASSUME NEW rule, NEW i
        PROVE  Told(rule, i)' =
                 Told(rule, i) \cup {x \in found : x.rule = rule /\ x.function = i}
    BY <2>1 DEF Told
  <2>4. QED
    BY <1>5, <2>2, <2>3
<1>9. ASSUME ~err', NEW i \in DOMAIN functions'
      PROVE  ToldOfExits(i)' /\ \A rule \in Required : ToldAsNeeded(rule, i)'
  <2>1. ToldOfExits(i) /\ \A rule \in Required : ToldAsNeeded(rule, i)
    BY <1>1, <1>9 DEF ToldInv
  <2>2. ToldOfExits(i)'
    BY <1>1, <1>8, <1>9, <2>1, SameNeeds DEF ToldOfExits
  <2>3. ASSUME NEW rule \in Required PROVE ToldAsNeeded(rule, i)'
    <3>0. ToldAsNeeded(rule, i) /\ i \in DOMAIN functions
      BY <1>1, <1>9, <2>1
    <3>1. CASE i = fn /\ rule \in rules
      <4>1. ~Needed(rule, i) /\ Needs(rule, i, k)
        BY <1>4, <3>1
      <4>2. Told(rule, i)' = {About(rule, i, k)}
        BY <1>8, <1>9, <3>0, <3>1, <4>1 DEF ToldAsNeeded
      <4>3. Needed(rule, i)'
        BY <1>6, <3>0, <3>1, <4>1
      <4>4. QED
        BY <1>1, <1>3, <4>2, <4>3, SameNeeds DEF ToldAsNeeded
    <3>2. CASE ~ (i = fn /\ rule \in rules)
      <4>1. Told(rule, i)' = Told(rule, i)
        BY <1>8, <1>9, <3>2
      <4>2. Needed(rule, i)' <=> Needed(rule, i)
        BY <1>4, <1>6, <3>0, <3>2
      <4>3. QED
        BY <1>1, <3>0, <4>1, <4>2, SameNeeds DEF ToldAsNeeded
    <3>3. QED
      BY <3>1, <3>2
  <2>4. QED
    BY <2>2, <2>3
<1>10. \A rule \in Required : Contract(rule) \in covered' <=> Needed(rule, fn)'
  <2>1. fn \in DOMAIN functions
    BY <1>2, <1>3
  <2>2. QED
    BY <1>1, <1>3, <1>4, <1>6, <1>7, <2>1 DEF ToldInv
<1>11. QED
  BY <1>1, <1>3, <1>9, <1>10 DEF ToldInv

LEMMA ToldInit == Init => ToldInv
BY DEF Init, ToldInv

LEMMA TellingStep == TypeOK /\ CleanInv /\ ToldInv /\ [Next]_vars /\ TypeOK' => ToldInv'
<1> SUFFICES ASSUME TypeOK, CleanInv, ToldInv, [Next]_vars, TypeOK'
             PROVE  ToldInv'
  OBVIOUS
<1>1. CASE ParseArguments
  <2>1. /\ stage = "arguments" /\ stage' \in {"load", "exit"}
        /\ UNCHANGED <<functions, findings>>
    BY <1>1 DEF ParseArguments, Refuse, loadVars, judgeVars
  <2>2. functions' = <<>> /\ findings' = {}
    BY <2>1 DEF ToldInv
  <2>3. QED
    BY <2>1, <2>2 DEF ToldInv
<1>2. CASE Load
  <2>1. /\ stage = "load" /\ findings' = {}
        /\ stage' = "load" \/ (stage' = "exit" /\ err')
    <3>1. stage = "load" /\ UNCHANGED findings
      BY <1>2, Zenon DEF Load, Apply, PassOver, LoadFails, judgeVars
    <3>2. (stage' = "exit" /\ err') \/ stage' = stage
      BY <1>2, Zenon
      DEF Load, Apply, PassOver, LoadFails, Refuse, Keep, AddFunction, AddEvent,
          RecordOwnership
    <3>3. QED
      BY <3>1, <3>2 DEF ToldInv
  <2>2. \A j \in DOMAIN events' : j >= 1
    <3>1. DOMAIN events' = 1 .. Len(events')
      BY DEF TypeOK
    <3>2. QED
      BY <3>1
  <2>3. ASSUME stage' = "load", NEW rule, NEW i
        PROVE  ~Needed(rule, i)' /\ Told(rule, i)' = {}
    <3>1. \A j \in DOMAIN events' : j \in Nat /\ ~ (j <= UpTo(i)')
      <4>1. DOMAIN events' = 1 .. Len(events') /\ UpTo(i)' = 0
        BY <2>3 DEF TypeOK, UpTo
      <4>2. QED
        BY <4>1
    <3>2. QED
      BY <2>1, <3>1 DEF Needed, Told
  <2>4. QED
    BY <2>1, <2>3 DEF ToldInv, ToldOfExits, ToldAsNeeded
<1>3. CASE Begin
  <2>1. /\ stage = "load" /\ stage' = "functions" /\ fn' = 0
        /\ ev' = Len(events) /\ UNCHANGED <<functions, events>>
        /\ findings' = {}
    BY <1>3 DEF Begin, loadVars, ToldInv
  <2>2. /\ \A j \in DOMAIN events' : j >= 1
        /\ \A i \in DOMAIN functions' : i > 0
    <3>1. DOMAIN events' = 1 .. Len(events')
          /\ DOMAIN functions' = 1 .. Len(functions')
      BY DEF TypeOK
    <3>2. QED
      BY <3>1
  <2>3. \A rule : \A i \in DOMAIN functions' :
          ~Needed(rule, i)' /\ Told(rule, i)' = {}
    BY <2>1, <2>2 DEF Needed, UpTo, Told
  <2>4. QED
    BY <2>1, <2>2, <2>3 DEF ToldInv, ToldOfExits, ToldAsNeeded
<1>4. CASE FunctionsEnd
  <2>1. /\ stage = "functions" /\ stage' = "ownership"
        /\ ~err' => ~err /\ fn = Len(functions) /\ ev = Len(events)
        /\ UNCHANGED <<functions, events, findings>>
    BY <1>4, Zenon DEF FunctionsEnd, loadVars, judgeVars
  <2>2. ASSUME ~err', NEW i \in DOMAIN functions'
        PROVE  ToldOfExits(i)' /\ \A rule \in Required : ToldAsNeeded(rule, i)'
    <3>1. /\ i \in Nat /\ i <= fn /\ ~err /\ fn \in Nat /\ i \in DOMAIN functions
          /\ ev = Len(events) /\ fn = Len(functions)
      BY <2>1, <2>2 DEF TypeOK
    <3>2. UpTo(i)' = UpTo(i)
      BY <2>1, <3>1 DEF UpTo
    <3>3. \A rule : /\ Needed(rule, i)' <=> Needed(rule, i)
                    /\ Told(rule, i)' = Told(rule, i)
      BY <2>1, <3>2, SameNeeds DEF Needed, Told
    <3>4. ToldOfExits(i) /\ \A rule \in Required : ToldAsNeeded(rule, i)
      BY <3>1 DEF ToldInv
    <3>5. ToldOfExits(i)'
      BY <2>1, <3>1, <3>3, <3>4, SameNeeds DEF ToldOfExits
    <3>6. QED
      BY <2>1, <3>3, <3>4, <3>5, SameNeeds DEF ToldAsNeeded
  <2>3. QED
    BY <2>1, <2>2 DEF ToldInv
<1>5. CASE JudgeOwnership \/ JudgeSignalEvent
  <2>1. /\ stage \in Late /\ stage' \in Late
        /\ UNCHANGED <<functions, events>>
    BY <1>5, Zenon DEF JudgeOwnership, JudgeSignalEvent, loadVars, Late
  <2> DEFINE Others(found) == \A x \in found : x.rule \notin TellingRules
  <2>2. Others(OwnershipFindings)
    <3>1. ASSUME NEW x \in OwnershipFindings
          PROVE  x.rule = "ERROR_OWNERSHIP" \/ x.rule = "ENV_OWNERSHIP"
      BY DEF OwnershipFindings
    <3>2. QED
      BY <3>1 DEF TellingRules, Required
  <2>3. ASSUME NEW i, NEW j, NEW rules, rules \subseteq SignalRules(j)
        PROVE  Others({About(rule, i, j) : rule \in rules})
    <3>1. SignalRules(j) \subseteq {"SIGNAL_SHARED_OBJECT_ACCESS",
                                    "SIGNAL_UNSAFE_CALL"}
      BY DEF SignalRules
    <3>2. \A rule : About(rule, i, j).rule = rule
      BY DEF About
    <3>3. QED
      BY <2>3, <3>1, <3>2 DEF TellingRules, Required
  <2>4. ASSUME NEW found, Others(found), Report(found)
        PROVE  ToldInv'
    <3>1. findings \subseteq findings' /\ findings' \subseteq findings \cup found
          /\ (~err' => ~err)
      BY <2>4, Reported DEF TypeOK
    <3>2. \A x \in findings' \ findings : x.rule \notin TellingRules
      BY <2>4, <3>1
    <3>3. QED
      BY <2>1, <3>1, <3>2, LaterSteps
  <2>5. CASE JudgeSignalEvent
    <3> DEFINE rules == IF Caller(ev + 1) \in reachable
                        THEN SignalRules(ev + 1) ELSE {}
    <3>1. Report({About(rule, Caller(ev + 1), ev + 1) : rule \in rules})
      BY <2>5, Zenon DEF JudgeSignalEvent
    <3>2. rules \subseteq SignalRules(ev + 1)
      OBVIOUS
    <3> HIDE DEF rules, Others
    <3>3. QED
      BY <2>3, <2>4, <3>1, <3>2
  <2>6. CASE JudgeOwnership /\ err
    <3>1. err' = err /\ findings' = findings
      BY <2>6 DEF JudgeOwnership
    <3>2. QED
      BY <2>1, <3>1, LaterSteps
  <2>7. CASE JudgeOwnership /\ ~err
    <3>1. Report(OwnershipFindings)
      BY <2>7, Zenon DEF JudgeOwnership
    <3> HIDE DEF Others
    <3>2. QED
      BY <2>2, <2>4, <3>1
  <2>8. QED
    BY <1>5, <2>5, <2>6, <2>7
<1>6. CASE \/ MarkHandlers \/ FollowCall \/ PassEnds \/ SignalsEnd
           \/ ReportEnd \/ Exit
  <2>1. /\ stage \in Late /\ stage' \in Late
        /\ UNCHANGED <<functions, events, findings>>
    BY <1>6
    DEF MarkHandlers, FollowCall, PassEnds, SignalsEnd, ReportEnd, Exit,
        loadVars, judgeVars, Late
  <2>2. ~err' => ~err
    <3>1. CASE ReportEnd
      BY <3>1 DEF ReportEnd, CleanInv
    <3>2. CASE ~ReportEnd
      BY <1>6, <3>2, Zenon
      DEF MarkHandlers, FollowCall, PassEnds, SignalsEnd, Exit
    <3>3. QED
      BY <3>1, <3>2
  <2>3. QED
    BY <2>1, <2>2, LaterSteps
<1>7. CASE UNCHANGED vars
  <2>1. /\ UNCHANGED <<stage, functions, events, findings, fn, ev, covered>>
        /\ err' <=> err
    BY <1>7, Zenon DEF vars, loadVars, judgeVars
  <2>2. \A rule, i : /\ Needed(rule, i)' <=> Needed(rule, i)
                     /\ Told(rule, i)' = Told(rule, i)
    BY <2>1, SameNeeds DEF Needed, UpTo, Told
  <2>3. \A i : /\ ToldOfExits(i)' <=> ToldOfExits(i)
               /\ \A rule : ToldAsNeeded(rule, i)' <=> ToldAsNeeded(rule, i)
    BY <2>1, <2>2, SameNeeds DEF ToldOfExits, ToldAsNeeded
  <2>4. QED
    BY <2>1, <2>2, <2>3 DEF ToldInv
<1>8. QED
  BY <1>1, <1>2, <1>3, <1>4, <1>5, <1>6, <1>7, NextFunctionTold,
     NextEventTold, Zenon DEF Next, Run, Ended

(* A function is told once of its exits, and once of each object it needs  *)
(* and does not see, whatever the number of its calls and however often    *)
(* the translation units recorded them.                                    *)
THEOREM ToldOnlyOnce == Spec => []ToldOnce
<1>1. TypeOK /\ ToldInv => ToldOnce
  <2> DEFINE exits(i) == {j \in {n \in DOMAIN events :
                                   IsIn(events[n], functions[i])} :
                            IsExit(events[j])}
  <2> SUFFICES ASSUME TypeOK, ToldInv, Judged, NEW i \in DOMAIN functions
               PROVE  /\ Cardinality(Told("SINGLE_EXIT", i)) =
                           IF \/ EarlyReturn(functions[i]) # 0
                              \/ \E j, k \in exits(i) :
                                   ~SameExit(events[j], events[k])
                           THEN 1 ELSE 0
                      /\ Cardinality(Told("ENV_REQUIRED", i)) =
                           IF Needed("ENV_REQUIRED", i) THEN 1 ELSE 0
                      /\ Cardinality(Told("ERROR_REQUIRED", i)) =
                           IF Needed("ERROR_REQUIRED", i) THEN 1 ELSE 0
    <3>1. ASSUME Judged, NEW i \in DOMAIN functions
          PROVE  /\ Needed("ENV_REQUIRED", i) <=>
                      \E j \in {n \in DOMAIN events :
                                  IsIn(events[n], functions[i])} :
                        /\ NeedsEnv(events[j])
                        /\ ~VisibleEnv(events[j], functions[i])
                 /\ Needed("ERROR_REQUIRED", i) <=>
                      \E j \in {n \in DOMAIN events :
                                  IsIn(events[n], functions[i])} :
                        /\ NeedsError(events[j])
                        /\ ~VisibleError(events[j], functions[i])
                        /\ ~Optional(events[j], functions[i])
      <4>1. \A j \in DOMAIN events : j <= UpTo(i)
        BY <3>1, EventPosition DEF Judged, UpTo
      <4>2. QED
        BY <4>1 DEF Needed, Needs
    <3>2. QED
      BY <3>1, Zenon DEF ToldOnce
  <2>1. ToldOfExits(i) /\ \A rule \in Required : ToldAsNeeded(rule, i)
    BY DEF ToldInv, Judged
  <2>2. ASSUME NEW rule \in Required
        PROVE  Cardinality(Told(rule, i)) = IF Needed(rule, i) THEN 1 ELSE 0
    <3>1. \A j : Cardinality({About(rule, i, j)}) = 1
      BY FS_Singleton
    <3>2. QED
      BY <2>1, <3>1, FS_EmptySet DEF ToldAsNeeded
  <2>3. Told("SINGLE_EXIT", i) = SingleExitFindings(i)
    BY <2>1 DEF ToldOfExits, Judged
  <2>4. Cardinality(SingleExitFindings(i)) =
          IF \/ EarlyReturn(functions[i]) # 0
             \/ Cardinality(Exits(functions[i])) > 1
          THEN 1 ELSE 0
    <3>1. \A j : Cardinality({About("SINGLE_EXIT", i, j)}) = 1
      BY FS_Singleton
    <3>2. QED
      BY <3>1, FS_EmptySet DEF SingleExitFindings
  <2>5. Cardinality(Exits(functions[i])) > 1 <=>
          \E j, k \in exits(i) : ~SameExit(events[j], events[k])
    <3>1. exits(i) = {n \in DOMAIN events :
                        IsIn(events[n], functions[i]) /\ IsExit(events[n])}
      OBVIOUS
    <3>2. QED
      BY <3>1, TwoExits, Zenon
  <2>6. QED
    BY <2>2, <2>3, <2>4, <2>5 DEF Required
<1>2. Spec => []ToldInv
  <2>1. Spec => []CleanInv
    BY TypeCorrect, CleanInit, CleanStep, PTL DEF Spec
  <2>2. QED
    BY <2>1, TypeCorrect, ToldInit, TellingStep, PTL DEF Spec
<1>3. QED
  BY TypeCorrect, <1>1, <1>2, PTL
=============================================================================
