-------------------------- MODULE InventoryPolicy --------------------------
(***************************************************************************)
(* The policy test-inventory: every verification script is either run by   *)
(* the graph of checks or excluded for a reason, every entry point has a   *)
(* contract, and every repository of the list is there and can be built.   *)
(* A text of the inventory is "there", "absent" (or empty), or "long".     *)
(***************************************************************************)
EXTENDS WorkspaceResult

CONSTANT PathLimit   \* INVENTORY_PATH_LIMIT

ASSUME PathLimitAssumption == PathLimit \in Nat

VARIABLE lists   \* the lists of paths: governed, entries, exclusions, ...

Inventory == workspace.inventory
Nodes == IF workspace.graph.is = "nodes" THEN workspace.graph.nodes ELSE <<>>
Checker == "checks/p101-check-graph.py"
Languages == {"c", "cxx", "c-reference", "python", "c-bootstrap"}
Built == {"c", "cxx"}
Directories == <<"", "checks", "workspace", "tests">>

InventoryInit ==
  lists = [l \in {"governed", "entries", "exclusions", "discovered", "repositories"} |-> {}]

(* path_list_add asks for room before it looks whether the path is known.  *)
Room(list) == Cardinality(lists[list]) < PathLimit
WithPath(list, path) ==
  IF Room(list) THEN [lists EXCEPT ![list] = @ \cup {path}] ELSE lists

(* require_string: a missing text is told, unless one before is too long.  *)
TooLong(texts) == "long" \in ToSet(texts)
Untold(texts) ==
  LET short == SelectInSeq(Append(texts, "long"), LAMBDA t : t = "long")
      missing == SelectSeq(SubSeq(texts, 1, short - 1), LAMBDA t : t = "absent")
  IN  [i \in DOMAIN missing |-> Finding("text", "inventory")]

Entries == Inventory.entries
Entry == Entries[position + 1]
Exclusions == Inventory.exclusions
Exclusion == Exclusions.rows[position + 1]
Repositories == workspace.repositories.rows
Repository == Repositories[position + 1]

AllOf(what, paths) == [n \in 1 .. Cardinality(paths) |-> Finding(what, SetToSeq(paths)[n])]
Verdicts ==
  <<AllOf("not-executable", lists.governed \ workspace.executables),
    AllOf("not-discovered", lists.exclusions \ lists.discovered),
    AllOf("ungoverned", lists.discovered \ (lists.governed \cup lists.exclusions))>>

-----------------------------------------------------------------------------
InventoryRead ==
  /\ stage = "test-inventory"
  /\ \/ /\ Inventory.is = "valid" /\ ToSet(Inventory.texts) = {"there"}
        /\ stage' = "graph" /\ UNCHANGED <<findings, err>>
     \/ /\ Inventory.is = "invalid" /\ Add(Finding("schema", "inventory"))
        /\ stage' = IF err' THEN "end" ELSE "write"
     \/ /\ Inventory.is = "valid" /\ ToSet(Inventory.texts) # {"there"}
        /\ AddAmid(Untold(Inventory.texts), TooLong(Inventory.texts))
        /\ stage' = IF err' THEN "end" ELSE "write"
     \/ GiveUp /\ UNCHANGED findings
  /\ UNCHANGED <<options, workspace, checks, position, lists>>

(* collect_graph_entries: a graph without nodes is an error that is not    *)
(* acted on here.                                                          *)
GraphRead ==
  /\ stage = "graph"
  /\ stage' = "nodes" /\ err' = (workspace.graph.is # "nodes")
  /\ UNCHANGED <<options, workspace, findings, checks, position, lists>>
(* A command that is no text ends the collection, without an error; only   *)
(* a command in the directory itself is a script.                          *)
GovernNode ==
  /\ stage = "nodes" /\ ~err /\ position < Len(Nodes)
  /\ LET node == Nodes[position + 1] IN
     \/ /\ node.is = "script" /\ Room("governed")
        /\ lists' = WithPath("governed", node.path) /\ UNCHANGED <<stage, err>>
     \/ node.is = "script" /\ ~Room("governed") /\ GiveUp /\ UNCHANGED lists
     \/ node.is = "other" /\ UNCHANGED <<stage, err, lists>>
     \/ /\ node.is \in {"odd", "long"} /\ stage' = "checker"
        /\ err' = (node.is = "long") /\ UNCHANGED lists
  /\ position' = position + 1
  /\ UNCHANGED <<options, workspace, findings, checks>>
GraphEnds ==
  /\ stage = "checker" \/ (stage = "nodes" /\ (err \/ position = Len(Nodes)))
  /\ \/ Room("governed") /\ stage' = "entries" /\ UNCHANGED err
     \/ ~Room("governed") /\ GiveUp
  /\ lists' = WithPath("governed", Checker) /\ position' = 0
  /\ UNCHANGED <<options, workspace, findings, checks>>

-----------------------------------------------------------------------------
(* validate_entry_contracts                                                *)
EntryTexts(e) == <<e.owner, e.oracle, e.runner>>
EntryFaults(e) ==
  IF e.is = "odd" THEN <<Finding("not-object", e.name)>>
  ELSE Untold(EntryTexts(e))
       \o If(e.runner = "there" /\ ~e.runs, Finding("runner", e.name))
JudgeEntry ==
  /\ stage = "entries" /\ position < Len(Entries) /\ Room("entries")
  /\ AddAmid(EntryFaults(Entry), Entry.is = "object" /\ TooLong(EntryTexts(Entry)))
  /\ lists' = WithPath("entries", Entry.name) /\ position' = position + 1
  /\ UNCHANGED <<stage, options, workspace, checks>>
(* A path that is too long, for its buffer or after the root, or an entry  *)
(* too many: what was found by then goes with the rest.                    *)
RefusePath ==
  /\ \/ stage = "entries" /\ position < Len(Entries)
     \/ stage = "exclusions" /\ Exclusions.is = "rows" /\ position < Len(Exclusions.rows)
     \/ stage = "repositories" /\ position < Len(Repositories)
     \/ stage = "inventoried" /\ position # 1 /\ position < Len(Verdicts)
  /\ GiveUp
  /\ UNCHANGED <<options, workspace, findings, checks, position, lists>>
EntriesEnd ==
  /\ stage = "entries" /\ position = Len(Entries)
  /\ AddAll(If(Entries = <<>>, Finding("no-entries", "inventory")))
  /\ stage' = (IF err' THEN "end" ELSE "exclusions") /\ position' = 0
  /\ UNCHANGED <<options, workspace, checks, lists>>

(* collect_exclusions: with no list the policy is over, without an error.  *)
NoExclusions ==
  /\ stage = "exclusions" /\ Exclusions.is = "missing"
  /\ Add(Finding("no-exclusions", "inventory")) /\ stage' = "end"
  /\ UNCHANGED <<options, workspace, checks, position, lists>>
JudgeExclusion ==
  /\ stage = "exclusions" /\ Exclusions.is = "rows" /\ position < Len(Exclusions.rows)
  /\ LET row == Exclusion  known == row.path \in lists.exclusions IN
     IF row.text # "there" \/ known
     THEN /\ AddAmid(IF row.text = "there" THEN <<Finding("duplicate", row.path)>>
                     ELSE Untold(<<row.text>>), row.text = "long")
          /\ UNCHANGED lists
     ELSE /\ LET full == ~Room("exclusions") IN
             AddAmid(If(~row.exists, Finding("stale", row.path))
                     \o (IF err \/ full THEN <<>> ELSE Untold(row.texts)),
                     full \/ TooLong(row.texts))
          /\ lists' = WithPath("exclusions", row.path)
  /\ position' = position + 1
  /\ UNCHANGED <<stage, options, workspace, checks>>
ExclusionsEnd ==
  /\ stage = "exclusions" /\ Exclusions.is = "rows" /\ position = Len(Exclusions.rows)
  /\ stage' = (IF err THEN "end" ELSE "scripts") /\ position' = 0
  /\ UNCHANGED <<options, workspace, resultVars, lists>>

-----------------------------------------------------------------------------
(* collect_scripts: the directory itself, not beneath it, where a          *)
(* directory with such a name counts too; three directories with all that  *)
(* is beneath them.                                                        *)
Directory == Directories[position + 1]
(* Mutant of FoundIn: what is deeper in a directory is not found.          *)
FoundInShallow(top) ==
  {f.path : f \in {g \in workspace.tree : g.top = top /\ g.named /\ ~g.deep}}
FoundIn(top) ==
  {f.path : f \in {g \in workspace.tree :
                     g.top = top /\ g.named /\ (top # "" => ~g.directory)}}
Fits(found) == Cardinality(lists.discovered \cup found) <= PathLimit

CollectScripts ==
  /\ stage = "scripts" /\ position < Len(Directories)
  /\ Fits(FoundIn(Directory))
  /\ lists' = [lists EXCEPT !.discovered = @ \cup FoundIn(Directory)]
  /\ position' = position + 1
  /\ UNCHANGED <<stage, options, workspace, resultVars>>
(* A directory that cannot be opened, a script too many; or a directory    *)
(* that cannot be closed, which is no error.                               *)
LoseScripts ==
  /\ stage = "scripts" /\ position < Len(Directories)
  /\ stage' = "end" /\ err' \in {err, TRUE}
  /\ UNCHANGED <<options, workspace, findings, checks, position, lists>>
(* Reading a directory ends early, which is found out later.               *)
MissScripts ==
  /\ stage = "scripts" /\ position < Len(Directories)
  /\ \E found \in SUBSET FoundIn(Directory) :
       Fits(found) /\ lists' = [lists EXCEPT !.discovered = @ \cup found]
  /\ err' = TRUE /\ position' = position + 1
  /\ UNCHANGED <<stage, options, workspace, findings, checks>>
ScriptsEnd ==
  /\ stage = "scripts" /\ position = Len(Directories)
  /\ \/ workspace.repositories.is = "rows" /\ stage' = "repositories" /\ UNCHANGED err
     \/ GiveUp
  /\ position' = 0
  /\ UNCHANGED <<options, workspace, findings, checks, lists>>

(* validate_repository_entries                                             *)
RepositoryRow(is) ==
  /\ stage = "repositories" /\ position < Len(Repositories) /\ Repository.is = is
  /\ UNCHANGED <<options, workspace>>
SkipRepository ==
  /\ RepositoryRow("comment") /\ position' = position + 1
  /\ UNCHANGED <<stage, resultVars, lists>>
MalformedRepository ==
  /\ RepositoryRow("malformed") /\ position' = position + 1
  /\ Add(Finding("malformed", "repositories"))
  /\ UNCHANGED <<stage, checks, lists>>
JudgeRepository ==
  /\ RepositoryRow("row") /\ position' = position + 1
  /\ LET r == Repository
         spoken == If(r.language \notin Languages, Finding("language", r.path))
         known == r.path \in lists.repositories
     IN  IF ~r.exists \/ known
         THEN /\ AddAll(spoken \o <<Finding(IF r.exists THEN "twice" ELSE "missing", r.path)>>)
              /\ UNCHANGED <<checks, lists>>
         ELSE /\ AddAmid(spoken \o If(r.language \in Built /\ ~r.buildable,
                                      Finding("build", r.path)), ~Room("repositories"))
              /\ lists' = WithPath("repositories", r.path) /\ checks' = checks + 1
  /\ UNCHANGED stage
(* The file may fail to close, which is no error.                          *)
RepositoriesEnd ==
  /\ stage = "repositories" /\ position = Len(Repositories)
  /\ stage' \in (IF err THEN {"end"} ELSE {"end", "inventoried"}) /\ position' = 0
  /\ UNCHANGED <<options, workspace, resultVars, lists>>

-----------------------------------------------------------------------------
JudgeInventory ==
  /\ stage = "inventoried" /\ position < Len(Verdicts)
  /\ AddAll(Verdicts[position + 1]) /\ position' = position + 1
  /\ UNCHANGED <<stage, options, workspace, checks, lists>>
InventoryEnds ==
  /\ stage = "inventoried" /\ position = Len(Verdicts)
  /\ checks' = checks + Cardinality(lists.governed) + Cardinality(lists.exclusions)
                      + Cardinality(lists.discovered)
  /\ PolicyEnds
  /\ UNCHANGED <<options, workspace, position, lists>>

TestInventory ==
  \/ InventoryRead \/ GraphRead \/ GovernNode \/ GraphEnds
  \/ JudgeEntry \/ RefusePath \/ EntriesEnd \/ NoExclusions \/ JudgeExclusion \/ ExclusionsEnd
  \/ CollectScripts \/ LoseScripts \/ MissScripts \/ ScriptsEnd
  \/ SkipRepository \/ MalformedRepository \/ JudgeRepository \/ RepositoriesEnd
  \/ JudgeInventory \/ InventoryEnds

-----------------------------------------------------------------------------
(* What the inventory promises, said of the workspace.                     *)

Governed == {n.path : n \in {m \in ToSet(Nodes) : m.is = "script"}} \cup {Checker}
Verifications ==
  {f.path : f \in {g \in workspace.tree : g.named /\ (g.top # "" => ~g.directory)}}
Excluded == {row.path : row \in ToSet(Exclusions.rows)}
InventoryKept ==
  /\ Inventory.is = "valid" /\ ToSet(Inventory.texts) = {"there"}
  /\ Governed \subseteq workspace.executables
  /\ Entries # <<>>
  /\ \A e \in ToSet(Entries) :
       e.is = "object" /\ e.runs /\ {e.owner, e.oracle, e.runner} = {"there"}
  /\ \A row \in ToSet(Exclusions.rows) :
       row.exists /\ {row.text} \cup ToSet(row.texts) = {"there"}
  /\ \A i, j \in DOMAIN Exclusions.rows :
       Exclusions.rows[i].path = Exclusions.rows[j].path => i = j
  /\ Excluded \subseteq Verifications
  /\ Verifications \subseteq Governed \cup Excluded
  /\ \A i \in DOMAIN Repositories :
       LET r == Repositories[i] IN
       r.is # "comment" =>
         /\ r.is = "row" /\ r.language \in Languages /\ r.exists
         /\ r.language \in Built => r.buildable
         /\ \A j \in DOMAIN Repositories :
              Repositories[j].is = "row" /\ Repositories[j].path = r.path => j = i
(* Each node's command is a text; after another its scripts are not seen.  *)
GraphReadable == \A node \in ToSet(Nodes) : node.is # "odd"
=============================================================================
