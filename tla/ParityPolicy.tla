---------------------------- MODULE ParityPolicy ---------------------------
(***************************************************************************)
(* The policy native-wrapper-parity: for each row of the contract some     *)
(* test function calls both the wrapper and its native counterpart.  A row *)
(* is [library, wrapper, native, name, source, listed, long]: the two      *)
(* identities, the native name, the test source, whether the unit-test     *)
(* manifest of the library has the wrapper, and whether messages about it  *)
(* are too long.                                                           *)
(***************************************************************************)
EXTENDS WorkspaceResult

CONSTANT RowCapacity   \* PARITY_MAX_ROWS

ASSUME RowCapacityAssumption == RowCapacity \in Nat

VARIABLE rows   \* the rows of the contract that were taken

Contract == workspace.contract

-----------------------------------------------------------------------------
ParityInit == rows = <<>>

ParityStart ==
  /\ stage = "native-wrapper-parity"
  /\ \/ /\ Contract.is = "rows"
        /\ stage' = "contract" /\ UNCHANGED <<findings, err>>
     \/ /\ Contract.is = "empty"            \* not even a header line
        /\ Add(Finding("header", "contract")) /\ stage' = "close"
     \/ GiveUp /\ UNCHANGED findings
  /\ UNCHANGED <<options, workspace, checks, position, rows>>

Reading ==
  stage = "contract" /\ Len(rows) < RowCapacity /\ position < Len(Contract.rows)
ContractRow == Contract.rows[position + 1]
NextRow ==
  /\ position' = position + 1
  /\ UNCHANGED <<options, workspace, checks>>

(* The contract is only looked at for its shape.                           *)
RefusedRow ==
  /\ Reading
  /\ \/ ContractRow.is = "incomplete" /\ Add(Finding("incomplete", "contract"))
     \/ /\ ContractRow.is = "row" /\ ContractRow.wrapper = ContractRow.native
        /\ Add(Finding("same", "contract"))
  /\ NextRow /\ UNCHANGED <<stage, rows>>

Proper == Reading /\ ContractRow.is = "row" /\ ContractRow.wrapper # ContractRow.native

(* A field that does not fit, and a source that is not there, are errors;  *)
(* a source path that does not fit ends the reading without one.           *)
UnusableRow ==
  /\ Proper
  /\ \/ ContractRow.source.is \in {"missing", "overlong"} /\ err' = TRUE
     \/ ContractRow.source.is = "truncated" /\ UNCHANGED err
  /\ stage' = "close" /\ NextRow /\ UNCHANGED <<findings, rows>>

Usable == Proper /\ ContractRow.source.is \in {"there", "vanishing"}
Taken == \E i \in DOMAIN rows :
           rows[i].library = ContractRow.library /\ rows[i].wrapper = ContractRow.wrapper

(* A source may be gone, or out of reach, at the second look at it.        *)
RepeatedRow ==
  /\ Usable
  /\ \/ Taken /\ Add(Finding("duplicate", "contract"))
     \/ /\ ~Taken /\ ContractRow.source.is = "vanishing"
        /\ TellMissing(Finding("missing", ContractRow.wrapper), ~ContractRow.long)
  /\ NextRow /\ UNCHANGED <<stage, rows>>

(* The identity is looked up in the manifest, which may be unreadable; the *)
(* row is taken in any case.                                               *)
TakeRow ==
  /\ Usable /\ ~Taken /\ ContractRow.source.is = "there"
  /\ \/ ContractRow.listed /\ UNCHANGED <<findings, err>>
     \/ /\ ~ContractRow.listed
        /\ \/ err /\ UNCHANGED <<findings, err>>
           \/ ~err /\ Tell(Finding("unlisted", ContractRow.wrapper), ~ContractRow.long)
     \/ err' = TRUE /\ UNCHANGED findings
  /\ rows' = Append(rows, ContractRow)
  /\ NextRow /\ UNCHANGED stage

(* A full table is an error, whether or not more rows follow.              *)
ContractEnds ==
  /\ stage = "contract"
  /\ Len(rows) = RowCapacity \/ position = Len(Contract.rows)
  /\ err' = (err \/ Len(rows) = RowCapacity)
  /\ stage' = "close"
  /\ UNCHANGED <<options, workspace, findings, checks, position, rows>>

(* Mutant of CloseContract: an error so far does not matter.               *)
CloseContractAnyway ==
  /\ stage = "close"
  /\ Loads(workspace.source) /\ stage' = "pairs" /\ err' = FALSE
  /\ position' = 0
  /\ UNCHANGED <<options, workspace, findings, checks, rows>>
(* The stream is closed, and the facts are loaded or scanned.              *)
CloseContract ==
  /\ stage = "close"
  /\ \/ ~err /\ Loads(workspace.source) /\ stage' = "pairs" /\ UNCHANGED err
     \/ GiveUp
  /\ position' = 0
  /\ UNCHANGED <<options, workspace, findings, checks, rows>>

-----------------------------------------------------------------------------
(* row_has_lowered_pair: the test calls, on the line of the wrapper's call *)
(* c, what the wrapper itself calls.                                       *)
LoweredPair(row, c) ==
  \E w, t \in Calls :
    /\ w.caller = row.wrapper
    /\ t.line = c.line /\ t.caller = c.caller
    /\ t.usr = w.usr /\ t.usr # row.wrapper
(* The native function is called, or reached as a macro, by the caller of  *)
(* c.                                                                      *)
NativeSeen(row, c) ==
  \E n \in workspace.source.facts :
    /\ n.caller = c.caller
    /\ \/ n.kind = "CALL" /\ n.usr = row.native
       \/ n.kind = "MACRO" /\ n.name = row.name
(* Mutant of HasPair: the wrapper and its counterpart may be in two tests. *)
HasPairApart(row) ==
  \E c, n \in Calls :
    c.path = row.source.path /\ c.usr = row.wrapper /\ n.usr = row.native
HasPair(row) ==
  \E c \in Calls :
    /\ c.caller # "" /\ c.path = row.source.path /\ c.usr = row.wrapper
    /\ NativeSeen(row, c) \/ LoweredPair(row, c)

JudgePair ==
  /\ stage = "pairs" /\ position < Len(rows)
  /\ checks' = checks + 1
  /\ LET row == rows[position + 1] IN
     IF HasPair(row) THEN UNCHANGED <<findings, err>>
     ELSE Tell(Finding("no-pair", row.wrapper), ~row.long)
  /\ position' = position + 1
  /\ UNCHANGED <<stage, options, workspace, rows>>

ParityEnds ==
  /\ stage = "pairs" /\ position = Len(rows)
  /\ PolicyEnds
  /\ UNCHANGED <<options, workspace, checks, position, rows>>

Parity ==
  \/ ParityStart \/ RefusedRow \/ UnusableRow \/ RepeatedRow \/ TakeRow
  \/ ContractEnds \/ CloseContract \/ JudgePair \/ ParityEnds

-----------------------------------------------------------------------------
(* What the policy is there to see, said of the workspace.                 *)

(* The test functions of a source that call something.                     *)
Callers(path, usr) == {c.caller : c \in {d \in Calls : d.path = path /\ d.usr = usr}}
NativeUsers(row) ==
  {c.caller : c \in {d \in Calls : d.usr = row.native}}
  \cup {m.caller : m \in {f \in workspace.source.facts :
                             f.kind = "MACRO" /\ f.name = row.name}}
(* Where the native function is a macro, its expansion is what shows.      *)
Expansions(row) ==
  {c.caller : c \in {d \in Calls :
     \E w, t \in Calls :
       /\ d.path = row.source.path /\ d.usr = row.wrapper
       /\ w.caller = row.wrapper /\ w.usr = t.usr /\ t.usr # row.wrapper
       /\ t.caller = d.caller /\ t.line = d.line}}
Paired(row) ==
  ((Callers(row.source.path, row.wrapper) \cap NativeUsers(row)) \cup Expansions(row))
    \ {""} # {}
InParity ==
  /\ Contract.is = "rows"
  /\ \A i \in DOMAIN Contract.rows :
       LET row == Contract.rows[i] IN
       /\ row.is = "row" /\ row.wrapper # row.native
       /\ row.source.is = "there" /\ row.listed /\ Paired(row)
       /\ \A j \in DOMAIN Contract.rows :
            Contract.rows[j].is = "row" =>
              (<<Contract.rows[j].library, Contract.rows[j].wrapper>>
                 = <<row.library, row.wrapper>> => i = j)
(* No path and no message about a row is too long.                         *)
NoRowLong ==
  Contract.is = "rows" =>
    \A r \in ToSet(Contract.rows) :
      r.is = "row" => ~r.long /\ r.source.is # "truncated"
(* A contract that can be read is a list of rows.                          *)
ContractTyped(w) == w.contract.is = "rows" => IsList(w.contract.rows)
=============================================================================
