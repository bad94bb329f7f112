----------------------------- MODULE AuditTool ------------------------------
(***************************************************************************)
(* What whoever runs an audit command may rely on (commands.md: 0 means    *)
(* nothing was missed, 1 means findings, 2 means setup or parser trouble), *)
(* with every stage left out: the tool meets trouble or findings, writes   *)
(* what it was asked for, and says with one status which of these it was.  *)
(***************************************************************************)
CONSTANT Artifacts   \* what a tool can be asked to write

VARIABLES
  wanted,    \* what this run was asked for
  written,   \* what it has written as a whole
  trouble,   \* something went wrong
  status     \* "none" while the tool runs

toolVars == <<wanted, written, trouble, status>>

ToolInit ==
  /\ wanted = {}
  /\ written = {}
  /\ trouble \in BOOLEAN
  /\ status = "none"

Running == status = "none"

(* What it is asked for is settled once, before anything is written.       *)
Ask ==
  /\ Running /\ wanted = {} /\ written = {}
  /\ wanted' \in SUBSET Artifacts
  /\ UNCHANGED <<written, trouble, status>>

(* Trouble is never forgotten, and what is written stays written.          *)
MeetTrouble ==
  /\ Running /\ trouble' = TRUE
  /\ UNCHANGED <<wanted, written, status>>

Write(a) ==
  /\ Running
  /\ written' = written \cup {a}
  /\ UNCHANGED <<wanted, trouble, status>>

(* A tool that met no trouble has written all it was asked for.            *)
Conclude ==
  /\ Running
  /\ status' \in IF trouble THEN {"trouble"} ELSE {"clean", "findings"}
  /\ ~trouble => wanted \subseteq written
  /\ UNCHANGED <<wanted, written, trouble>>

ToolNext == Ask \/ MeetTrouble \/ (\E a \in Artifacts : Write(a)) \/ Conclude

ToolSpec == ToolInit /\ [][ToolNext]_toolVars
=============================================================================
