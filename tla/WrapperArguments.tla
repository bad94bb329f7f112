-------------------------- MODULE WrapperArguments --------------------------
(***************************************************************************)
(* The command line of audit-wrappers and audit-facts (src/src/cli.c): the *)
(* options are taken one by one into fixed tables and switches, an allow   *)
(* file is read when it is met, and the first thing that cannot be taken   *)
(* ends the parse.                                                         *)
(***************************************************************************)
EXTENDS WrapperInventory

CONSTANTS
  Paths,             \* of WrapperJudge
  MaxPaths,          \* P101_WRAPPER_MAX_PATHS
  MaxNames,          \* P101_WRAPPER_MAX_NAMES
  InputLines         \* the command lines

VARIABLES
  factsOnly,              \* the parse is that of audit-facts
  argv,                   \* what follows the program's name
  parsed,                 \* how many options of it have been looked at
  valid,                  \* the local of that name
  arguments, next, uses   \* of WrapperJudge

argumentVars == <<factsOnly, argv, parsed, valid>>
judgeVars == <<arguments, next, uses>>

Judgement == INSTANCE WrapperJudge
               WITH InputFacts <- {}, InputInventories <- {}, InputArguments <- {}

(* The optional outputs, in the order they are written.                    *)
Files == <<"facts", "manifest", "mutations", "instrumentation">>
FileNames == {Files[n] : n \in DOMAIN Files}

(* A row of an allow file; a bad one is over-long or lacks a field.        *)
RuleRow == [is : {"rule"}, rule : Judgement!Rule] \cup [is : {"blank", "bad"}]
Switches == {"strict", "portability", "show", "emit", "databaseOnly"}
Tables == {"path", "cflag", "file"}

(* An option with its value.  "neutral" is one that changes only how a     *)
(* scan or a report is done (-d:, --keep-going, --active-headers-only);    *)
(* "unknown" is any other text with a dash, an option whose value is       *)
(* missing, and an empty path, root, flag or USR or a too long USR;        *)
(* "format" is a bad -d:.                                                  *)
Option ==
       [is : {"help", "neutral", "unknown", "format", "database",
              "path", "cflag"}]
  \cup [is : {"switch"}, switch : Switches]
  \cup [is : {"output"}, file : FileNames]
  \cup [is : {"usr"}, usr : Texts \ {""}]
  \cup [is : {"file"}, rows : Seq(RuleRow)]
  \cup [is : {"root"}, root : Root]

(* struct p101_wrapper_arguments, as far as the program tells it apart.    *)
Arguments ==
  [allowedUsrs : Seq(Texts \ {""}), rules : Seq(Judgement!Rule),
   files : SUBSET FileNames, counts : [Tables -> Nat], database : BOOLEAN,
   strict : BOOLEAN, portability : BOOLEAN, show : BOOLEAN, emit : BOOLEAN,
   databaseOnly : BOOLEAN]

ASSUME ArgumentsAssumption ==
  /\ MaxPaths \in Nat \ {0} /\ MaxNames \in Nat \ {0}
  /\ InputLines \subseteq Seq(Option)

Limit(table) == IF table = "cflag" THEN MaxNames ELSE MaxPaths

ArgumentsInit ==
  /\ factsOnly \in BOOLEAN
  /\ argv \in InputLines /\ parsed = 0 /\ valid = TRUE
  /\ roots = <<>>
  /\ arguments =
       [allowedUsrs |-> <<>>, rules |-> <<>>, files |-> {},
        counts |-> [t \in Tables |-> 0], database |-> FALSE,
        strict |-> FALSE, portability |-> FALSE, show |-> FALSE,
        emit |-> FALSE, databaseOnly |-> FALSE]
  /\ next = 1 /\ uses = <<>>

-----------------------------------------------------------------------------
(* Each of these is one way an option can be taken, or not.                *)

Refuse == valid' = FALSE /\ UNCHANGED <<err, arguments, roots, uses>>
RefuseWithError ==
  valid' = FALSE /\ err' = TRUE /\ UNCHANGED <<arguments, roots, uses>>

Becomes(changed) ==
  arguments' = changed /\ UNCHANGED <<err, valid, roots, uses>>

TakeSwitch(o) ==
  \/ o.is = "neutral"  /\ UNCHANGED <<err, valid, arguments, roots, uses>>
  \/ o.is = "switch"   /\ Becomes([arguments EXCEPT ![o.switch] = TRUE])
  \/ o.is = "output"   /\ Becomes([arguments EXCEPT !.files = @ \cup {o.file}])
  \/ o.is = "database" /\ Becomes([arguments EXCEPT !.database = TRUE])

(* add_value, add_allowed_copy: a full table refuses.                      *)
HasRoom(table) == arguments.counts[table] < Limit(table)
OneMore(table) == [arguments EXCEPT !.counts[table] = @ + 1]

TakeValue(o) ==
  \/ /\ o.is \in {"path", "cflag"}
     /\ IF HasRoom(o.is) THEN Becomes(OneMore(o.is)) ELSE Refuse
  \/ /\ o.is = "usr"
     /\ IF Len(arguments.allowedUsrs) < MaxNames
        THEN Becomes([arguments EXCEPT !.allowedUsrs = Append(@, o.usr)])
        ELSE Refuse
  \/ /\ o.is = "root"
     /\ IF Len(roots) < MaxPaths
        THEN roots' = Append(roots, o.root)
             /\ UNCHANGED <<err, valid, arguments, uses>>
        ELSE Refuse

(* The rows of an allow file that are not blank, and the nth of them.      *)
Filled(rows) == {k \in DOMAIN rows : rows[k].is # "blank"}
NthRow(rows, n) ==
  rows[CHOOSE k \in Filled(rows) : Cardinality({j \in Filled(rows) : j < k}) = n - 1]

(* Mutant of TakeAllowFile: what the table has no room for is left out.    *)
TakeAllowFileSilently(o) ==
  /\ o.is = "file"
  /\ LET given == SelectSeq(o.rows, LAMBDA w : w.is = "rule")
         all == arguments.rules \o [k \in DOMAIN given |-> given[k].rule]
     IN /\ arguments' =
             [OneMore("file") EXCEPT
                !.rules = SubSeq(all, 1, IF Len(all) < MaxNames THEN Len(all)
                                         ELSE MaxNames)]
        /\ uses' = [r \in DOMAIN arguments'.rules |-> 0]
  /\ UNCHANGED <<err, valid, roots>>
(* load_allow_file reads row after row and skips the blank ones.  It stops *)
(* with an error at a bad row, at a rule the table has no room for, and    *)
(* wherever reading or closing the file fails; the rules before stay.      *)
TakeAllowFile(o) ==
  /\ o.is = "file"
  /\ \/ ~HasRoom("file") /\ Refuse
     \/ /\ HasRoom("file")
        /\ \E n \in 0 .. Cardinality(Filled(o.rows)) :
             /\ \A k \in 1 .. n : NthRow(o.rows, k).is = "rule"
             /\ Len(arguments.rules) + n <= MaxNames
             /\ arguments' =
                  [OneMore("file") EXCEPT
                     !.rules = @ \o [k \in 1 .. n |-> NthRow(o.rows, k).rule]]
             /\ uses' = uses \o [k \in 1 .. n |-> 0]
             /\ \/ n = Cardinality(Filled(o.rows)) /\ UNCHANGED <<err, valid>>
                \/ valid' = FALSE /\ err' = TRUE
  /\ UNCHANGED roots

(* -h ends the parse without an error, and so does what nothing knows.     *)
TakeNone(o) ==
  \/ o.is \in {"help", "unknown"} /\ Refuse
  \/ o.is = "format" /\ RefuseWithError

ParseOption ==
  /\ stage = "arguments" /\ valid /\ parsed < Len(argv)
  /\ LET o == argv[parsed + 1] IN
       \/ TakeSwitch(o) \/ TakeValue(o) \/ TakeAllowFile(o) \/ TakeNone(o)
  /\ parsed' = parsed + 1
  /\ UNCHANGED <<stage, modelVars, observerVars, manifests, manifest, row,
                 root, at, first, factsOnly, argv, next>>

(* After the loop: "." is the path when none was given, a database may be  *)
(* found nearby when none was given, and --compile-db-only needs one.      *)
(* audit-facts needs no inventory.                                         *)
ParseEnd ==
  /\ stage = "arguments" /\ (valid => parsed = Len(argv))
  /\ \E found \in BOOLEAN :
       LET database == arguments.database \/ (valid /\ found)
           unmet == valid /\ arguments.databaseOnly /\ ~database
       IN /\ arguments' =
               [arguments EXCEPT
                  !.counts["path"] = IF valid /\ @ = 0 THEN 1 ELSE @,
                  !.database = database,
                  !.emit = @ \/ factsOnly]
          /\ valid' = (valid /\ ~unmet)
          /\ err' = (err \/ unmet)
          /\ stage' = IF ~valid \/ unmet THEN "exit"
                      ELSE IF factsOnly THEN "loaded" ELSE "manifests"
  /\ UNCHANGED <<modelVars, observerVars, inventoryVars, factsOnly, argv,
                 parsed, next, uses>>

-----------------------------------------------------------------------------
(* The line has been taken as it stands: every option of it is in force.   *)
InForce(o) ==
  \/ o.is = "neutral"
  \/ o.is = "switch" /\ arguments[o.switch]
  \/ o.is = "output" /\ o.file \in arguments.files
  \/ o.is = "database" /\ arguments.database
  \/ o.is \in {"path", "cflag"} /\ arguments.counts[o.is] > 0
  \/ /\ o.is = "usr"
     /\ \E n \in DOMAIN arguments.allowedUsrs : arguments.allowedUsrs[n] = o.usr
  \/ o.is = "root" /\ \E n \in DOMAIN roots : roots[n] = o.root
  \/ /\ o.is = "file"
     /\ \A k \in DOMAIN o.rows :
          \/ o.rows[k].is = "blank"
          \/ /\ o.rows[k].is = "rule"
             /\ \E r \in DOMAIN arguments.rules :
                  arguments.rules[r] = o.rows[k].rule

LineInForce == \A k \in DOMAIN argv : InForce(argv[k])
=============================================================================
