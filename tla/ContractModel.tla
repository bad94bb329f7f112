--------------------------- MODULE ContractModel ----------------------------
(***************************************************************************)
(* What audit-errors judges: struct contract_model, filled record by       *)
(* record from a native scan or from a saved fact stream                   *)
(* (components/error-contract/src/contract_builder.c, contract_model.c,    *)
(* native_analysis.c).  Its tables have a fixed size.                      *)
(*                                                                         *)
(* The path of a record, the USRs and the note kinds are strings compared  *)
(* for equality only; "" is the empty text.                                *)
(***************************************************************************)
EXTENDS Integers, Sequences, FiniteSets

CONSTANTS
  InputArguments, \* command lines, as parsed
  InputRecords,   \* the record lists a scan or a stream can deliver
  Terminating,    \* termination_function_usrs
  MaxFunctions,   \* MAX_FACT_FUNCTIONS, also of the ownership files
  MaxEvents       \* MAX_FACT_EVENTS

(* Notes that are reported wherever they occur inside a function: each has *)
(* a rule of its own.                                                      *)
DirectKinds ==
  {"CALL_NOT_ISOLATED", "ERROR_OUTPUT_UNCHECKED",
   "MUST_CHECK_RESULT_DISCARDED", "ERROR_CLEANUP_SHADOW",
   "PARTIAL_RESULT_DISCARDED", "UNCERTAIN_PROGRESS_RETRIED",
   "CONDITION_WAIT_OUTSIDE_LOOP", "POST_FORK_UNSAFE_CALL",
   "ZERO_SIZE_ALLOCATION", "OVERLAPPING_RESTRICTED_COPY",
   "THREAD_AUTOMATIC_STORAGE_ESCAPE", "ENV_BORROWED_POINTER_INVALIDATED",
   "PATH_TOCTOU", "RECURSIVE_CALL"}

(* p101_contract_event_kind_from_note: the notes that become events.       *)
NoteEvents ==
  DirectKinds \cup
  {"ENV_USE", "ERROR_USE", "TRACE_USE", "ERROR_CHECK", "ERROR_OPTIONAL",
   "ERROR_DISCARD", "ERROR_PROPAGATED", "ERROR_UNCHECKED_CHAIN",
   "FUNCTION_RETURN", "FUNCTION_EARLY_RETURN",
   "SIGNAL_HANDLER_REGISTERED", "SIGNAL_SHARED_OBJECT_ACCESS"}
EventKinds == NoteEvents \cup {"CALL", "PROCESS_TERMINATION"}

(* p101_contract_ownership_kind_from_role.                                 *)
Roles == {"ERROR_ACQUIRE", "ERROR_RELEASE", "ENV_ACQUIRE", "ENV_RELEASE"}
Markers == {"TERMINATION_ADAPTER", "ENV_CONTRACT", "ERROR_CONTRACT"}

(* A record, as far as the model keeps it: what it is ("FUNCTION" is a     *)
(* definition, "OTHER" a kind nothing is done with), where it is, whom it  *)
(* is about.  fits: its identities fit the fields of the model.  long: as  *)
(* a line of a saved stream it does not fit the read buffer.               *)
Record ==
  [kind : {"FUNCTION", "CALL", "DIAGNOSTIC", "OTHER"} \cup
          NoteEvents \cup Roles \cup Markers,
   path : STRING, usr : STRING, callerUsr : STRING,
   line : Nat, column : Nat, start : Nat, end : Nat,
   env : BOOLEAN, error : BOOLEAN, fits : BOOLEAN, long : BOOLEAN]

(* struct arguments: help was asked for; an option was not understood, or  *)
(* a table of paths not large enough; a path is empty; saved facts (-i), a *)
(* compile database (-C), strict sequencing (-S) were asked for.           *)
Arguments ==
  [help : BOOLEAN, malformed : BOOLEAN, empty : BOOLEAN, facts : BOOLEAN,
   database : BOOLEAN, strict : BOOLEAN]

ASSUME ContractAssumption ==
  /\ InputArguments \subseteq Arguments
  /\ InputRecords \subseteq Seq(Record)
  /\ Terminating \subseteq STRING \ {""}
  /\ MaxFunctions \in Nat \ {0} /\ MaxEvents \in Nat \ {0}

Function == [path : STRING, usr : STRING, line : Nat, start : Nat, end : Nat,
             env : BOOLEAN, error : BOOLEAN, adapter : BOOLEAN]
Event == [kind : EventKinds, path : STRING, usr : STRING, callerUsr : STRING,
          line : Nat, start : Nat, env : BOOLEAN, error : BOOLEAN]
(* struct contract_ownership_file: how often each role occurred, and the   *)
(* lines the two acquisitions were first seen on.                          *)
Owner == [count : [Roles -> Nat], first : [Roles -> Nat]]

VARIABLES
  stage,      \* how far main and p101_error_contract_run have come
  err,        \* the sticky p101_error
  args,       \* struct arguments
  records,    \* what is delivered in this run
  delivered,  \* how many records were applied
  functions, events,   \* the model's tables
  owners      \* path -> Owner, for the ownership files

loadVars == <<args, records, delivered, functions, events, owners>>

-----------------------------------------------------------------------------
(* The first of a set of table positions; 0 when there is none.            *)
First(positions) ==
  IF positions = {} THEN 0
  ELSE CHOOSE i \in positions : \A j \in positions : i <= j

Refuse == err' = TRUE /\ stage' = "exit"
Keep == UNCHANGED <<stage, err>>

(* Mutant of AddFunction: the last function is written past the table.     *)
AddFunctionPastEnd(r) ==
  IF Len(functions) > MaxFunctions \/ ~r.fits
  THEN Refuse /\ UNCHANGED functions
  ELSE /\ functions' = Append(functions,
            [path |-> r.path, usr |-> r.usr, line |-> r.line,
             start |-> r.start, end |-> r.end,
             env |-> FALSE, error |-> FALSE, adapter |-> FALSE])
       /\ Keep
(* p101_contract_model_add_function.                                       *)
AddFunction(r) ==
  IF Len(functions) >= MaxFunctions \/ ~r.fits
  THEN Refuse /\ UNCHANGED functions
  ELSE /\ functions' = Append(functions,
            [path |-> r.path, usr |-> r.usr, line |-> r.line,
             start |-> r.start, end |-> r.end,
             env |-> FALSE, error |-> FALSE, adapter |-> FALSE])
       /\ Keep

(* A return without an offset is told apart by its column.                 *)
EventStart(kind, r) ==
  IF kind \in {"FUNCTION_RETURN", "FUNCTION_EARLY_RETURN"} /\ r.start = 0
  THEN r.column ELSE r.start

(* Mutant of AddEvent: an event that finds no room is dropped.             *)
AddEventIfRoom(kind, r) ==
  /\ events' = IF Len(events) >= MaxEvents THEN events ELSE
       Append(events,
         [kind |-> kind, path |-> r.path, usr |-> r.usr,
          callerUsr |-> r.callerUsr, line |-> r.line,
          start |-> EventStart(kind, r),
          env |-> kind = "CALL" /\ r.env, error |-> kind = "CALL" /\ r.error])
  /\ Keep
(* p101_contract_model_add_event; only a plain call keeps its parameters.  *)
AddEvent(kind, r) ==
  IF Len(events) >= MaxEvents \/ ~r.fits
  THEN Refuse /\ UNCHANGED events
  ELSE /\ events' = Append(events,
            [kind |-> kind, path |-> r.path, usr |-> r.usr,
             callerUsr |-> r.callerUsr, line |-> r.line,
             start |-> EventStart(kind, r),
             env |-> kind = "CALL" /\ r.env, error |-> kind = "CALL" /\ r.error])
       /\ Keep

CallKind(r) == IF r.usr \in Terminating THEN "PROCESS_TERMINATION" ELSE "CALL"

(* The function a marker is about: the first record of it in this file; a  *)
(* marker that comes before that record is lost.                           *)
Marked(r) ==
  First({i \in DOMAIN functions :
           /\ r.callerUsr # "" /\ functions[i].usr = r.callerUsr
           /\ functions[i].path = r.path})

(* p101_contract_model_set_contract and _set_termination_adapter.          *)
SetMarker(r) ==
  LET i == Marked(r) IN
    functions' = IF i = 0 THEN functions ELSE
      [functions EXCEPT ![i].env     = @ \/ r.kind = "ENV_CONTRACT",
                        ![i].error   = @ \/ r.kind = "ERROR_CONTRACT",
                        ![i].adapter = @ \/ r.kind = "TERMINATION_ADAPTER"]

Unowned == [count |-> [k \in Roles |-> 0], first |-> [k \in Roles |-> 0]]

Counting(owner, r) ==
  [owner EXCEPT
     !.count[r.kind] = @ + 1,
     !.first[r.kind] =
       IF @ = 0 /\ r.kind \in {"ERROR_ACQUIRE", "ENV_ACQUIRE"} THEN r.line ELSE @]

(* p101_contract_model_record_ownership.                                   *)
RecordOwnership(r) ==
  IF r.path \notin DOMAIN owners /\ Cardinality(DOMAIN owners) >= MaxFunctions
  THEN Refuse /\ UNCHANGED owners
  ELSE /\ owners' = [p \in DOMAIN owners \cup {r.path} |->
            LET owner == IF p \in DOMAIN owners THEN owners[p] ELSE Unowned IN
              IF p = r.path THEN Counting(owner, r) ELSE owner]
       /\ Keep

(* fact_line_is_complete: of a stream that is read, a line that is too     *)
(* long for the buffer is no record.                                       *)
Lost(r) == args.facts /\ r.long

(* Such a line is read to its end and left; nothing is said of it.         *)
PassOver ==
  /\ stage = "load" /\ delivered < Len(records)
  /\ Lost(records[delivered + 1])
  /\ delivered' = delivered + 1
  /\ Keep
  /\ UNCHANGED <<args, records, functions, events, owners>>

(* apply_record and apply_fact.                                            *)
Apply ==
  /\ stage = "load" /\ delivered < Len(records)
  /\ ~Lost(records[delivered + 1])
  /\ delivered' = delivered + 1
  /\ LET r == records[delivered + 1] IN
       \/ /\ r.kind = "FUNCTION"
          /\ AddFunction(r) /\ UNCHANGED <<events, owners>>
       \/ /\ r.kind = "CALL"
          /\ AddEvent(CallKind(r), r) /\ UNCHANGED <<functions, owners>>
       \/ /\ r.kind \in NoteEvents
          /\ AddEvent(r.kind, r) /\ UNCHANGED <<functions, owners>>
       \/ /\ r.kind \in Roles
          /\ RecordOwnership(r) /\ UNCHANGED <<functions, events>>
       \/ /\ r.kind \in Markers
          /\ SetMarker(r) /\ Keep /\ UNCHANGED <<events, owners>>
       \/ /\ r.kind = "DIAGNOSTIC"
          /\ Refuse /\ UNCHANGED <<functions, events, owners>>
       \/ /\ r.kind = "OTHER"
          /\ Keep /\ UNCHANGED <<functions, events, owners>>
  /\ UNCHANGED <<args, records>>

(* The report cannot be begun; the scan fails, or the stream cannot be     *)
(* read, holds an invalid record or no fact at all.                        *)
LoadFails ==
  /\ stage = "load"
  /\ Refuse
  /\ UNCHANGED loadVars
=============================================================================
