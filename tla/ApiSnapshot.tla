---------------------------- MODULE ApiSnapshot ----------------------------
(***************************************************************************)
(* audit-api (components/api): "snapshot" turns the manifests of a         *)
(* workspace and a stream of facts into a file of records, "compare" says  *)
(* what two such files have lost.  A script of commands runs here, each in *)
(* a process of its own, because a comparison is worth what the snapshots  *)
(* before it were worth.                                                   *)
(*                                                                         *)
(* Identities are numbers, so that they can be sorted; a record is         *)
(* [usr, library, header, platforms, signature, ownership, kind].          *)
(***************************************************************************)
EXTENDS Integers, Sequences, FiniteSets, SequencesExt

CONSTANTS
  InputScripts,   \* sequences of commands
  InputFiles,     \* what the files hold before the first command
  NoText          \* an empty field

VARIABLES
  script,     \* the commands still to come; its head runs
  stage,      \* where the process stands, "start" and "ended" around it
  position,   \* manifests read, or old records compared, so far
  pending,    \* the facts still to come
  records,    \* struct api_snapshot: of the snapshot, or the old one
  current,    \* the new one
  err,        \* the sticky error
  findings,   \* what the comparison has reported
  status,     \* of the process
  files,      \* the snapshot files
  made        \* which workspace a file is known to be a snapshot of

process == <<position, pending, records, current, findings>>
vars == <<script, stage, process, err, status, files, made>>

Success == 0
Findings == 1
Trouble == 2

NoFile == [is |-> "none"]
Unknown == [is |-> "unknown"]
Platforms == {"linux", "macos", "freebsd"}
Command == Head(script)

(* A file: its version (0 without a header line), its records, and whether *)
(* it has a line that does not parse.                                      *)
File(version, rs, torn) ==
  [is |-> "file", version |-> version, records |-> rs, torn |-> torn]

-----------------------------------------------------------------------------
(* What a script may say.  A type and a role are never empty texts, and    *)
(* the kind of a value is not that of a function.  What a role is said of  *)
(* is a function and no value, and neither is what has a type and an empty *)
(* value at once.                                                          *)
IsList(s) == s \in Seq(ToSet(s))
IsWorkspace(w) ==
  /\ IsList(w.manifests)
  /\ \A m \in ToSet(w.manifests) :
       /\ IsList(m.rows)
       /\ \A row \in ToSet(m.rows) : row.is = "api" => row.usr \in Int
  /\ \A f \in w.facts :
       /\ f.is \in {"function", "role", "value", "invalid"}
       /\ f.is = "function" => f.text # NoText
       /\ f.is = "role" => f.text # "-"
       /\ f.is = "value" => f.usr \in Int /\ f.kind # "function"
  /\ \A f, g \in w.facts :
       g.is = "value" /\ f.usr = g.usr =>
         /\ f.is # "role"
         /\ f.is = "function" => g.text # NoText
IsCommand(c, names) ==
  /\ c.is \in {"snapshot", "compare", "help", "usage"}
  /\ c.is = "snapshot" => IsWorkspace(c.workspace) /\ c.output \in names
  /\ c.is = "compare" => {c.old, c.new} \subseteq names

ASSUME ScriptAssumption ==
  \A s \in InputScripts, fs \in InputFiles :
    /\ IsList(s) /\ s # <<>>
    /\ \A n \in DOMAIN s : IsCommand(s[n], DOMAIN fs)

-----------------------------------------------------------------------------
Init ==
  /\ script \in InputScripts
  /\ files \in InputFiles
  /\ made = [f \in DOMAIN files |-> Unknown]
  /\ stage = "start"
  /\ position = 0 /\ pending = {}
  /\ records = <<>> /\ current = <<>> /\ findings = {}
  /\ err = FALSE /\ status = Trouble

(* The process ends early, with the error set.                             *)
Fails == err' = TRUE /\ stage' = "end"
FailsHere ==
  Fails /\ UNCHANGED <<script, process, status, files, made>>

(* main.                                                                   *)
Start ==
  /\ stage = "start"
  /\ stage' = CASE Command.is = "snapshot" -> "manifests"
                [] Command.is = "compare"  -> "load"
                [] OTHER                   -> "end"
  /\ status' = IF Command.is = "help" THEN Success ELSE Trouble
  /\ pending' = IF Command.is = "snapshot" THEN Command.workspace.facts ELSE {}
  /\ position' = 0 /\ records' = <<>> /\ current' = <<>> /\ findings' = {}
  /\ err' = FALSE
  /\ UNCHANGED <<script, files, made>>

-----------------------------------------------------------------------------
(* snapshot.                                                               *)

Manifests == Command.workspace.manifests

(* A row without a function or an identity is passed over.                 *)
FromRow(manifest, row) ==
  [usr |-> row.usr, library |-> manifest.library, header |-> row.header,
   platforms |-> row.platforms, signature |-> NoText, ownership |-> "-",
   kind |-> "function"]
Apis(manifest) == {i \in DOMAIN manifest.rows : manifest.rows[i].is = "api"}
Nth(positions, n) ==
  CHOOSE i \in positions : Cardinality({j \in positions : j <= i}) = n
RowsOf(manifest) ==
  [n \in 1 .. Cardinality(Apis(manifest)) |->
     FromRow(manifest, manifest.rows[Nth(Apis(manifest), n)])]
(* The required columns are there and every row has the header's columns.  *)
Legible(manifest) ==
  manifest.columns /\ \A i \in DOMAIN manifest.rows : manifest.rows[i].is # "ragged"

(* load_manifest; a field may also be too long, or memory short.           *)
LoadManifest ==
  /\ stage = "manifests" /\ position < Len(Manifests)
  /\ Legible(Manifests[position + 1])
  /\ position' = position + 1
  /\ records' = records \o RowsOf(Manifests[position + 1])
  /\ UNCHANGED <<script, stage, pending, current, findings, err, status, files, made>>

ManifestsEnd ==
  /\ stage = "manifests" /\ position = Len(Manifests) /\ records # <<>>
  /\ stage' = "semantics"
  /\ UNCHANGED <<script, process, err, status, files, made>>

SnapshotFails == stage \in {"manifests", "semantics"} /\ FailsHere

(* find_record: the first record of an identity.                           *)
Known(rs, usr) == \E i \in DOMAIN rs : rs[i].usr = usr
Found(rs, usr) ==
  CHOOSE i \in DOMAIN rs :
    rs[i].usr = usr /\ \A j \in DOMAIN rs : rs[j].usr = usr => i <= j

FromNote(f) ==
  [usr |-> f.usr, library |-> f.library, header |-> f.header, platforms |-> {},
   signature |-> f.text, ownership |-> "-", kind |-> f.kind]

(* A function's type: the first one read is its signature.                 *)
Signed(rs, f) ==
  LET i == Found(rs, f.usr)
  IN  IF rs[i].signature # NoText THEN rs
      ELSE [rs EXCEPT ![i].signature = f.text]
(* Mutant of SignedBadly: the first type stands without a word.            *)
SignedBadlyNever(rs, f) == FALSE
SignedBadly(rs, f) ==
  rs[Found(rs, f.usr)].signature \notin {NoText, f.text}
Owned(rs, f) ==
  LET i == Found(rs, f.usr)
  IN  IF rs[i].ownership # "-" THEN rs ELSE [rs EXCEPT ![i].ownership = f.text]
OwnedBadly(rs, f) == rs[Found(rs, f.usr)].ownership \notin {"-", f.text}

(* load_semantics, one record of the stream.  Only what headers say counts *)
(* (f.public), and nothing is said about an unknown identity but by the    *)
(* notes that introduce one.  A contradiction about a signature or a role  *)
(* is noted and the stream read on; one about a value ends it.             *)
ReadFact ==
  /\ stage = "semantics"
  /\ \E f \in pending :
       LET at == Known(records, f.usr)
           same == records[Found(records, f.usr)] IN
       /\ pending' = pending \ {f}
       /\ \/ /\ f.is = "function" /\ f.public /\ at
             /\ records' = Signed(records, f)
             /\ err' = (err \/ SignedBadly(records, f)) /\ UNCHANGED stage
          \/ /\ f.is = "value" /\ f.public /\ at
             /\ IF same.signature = f.text /\ same.kind = f.kind
                THEN UNCHANGED <<stage, err>> ELSE Fails
             /\ UNCHANGED records
          \/ /\ f.is = "value" /\ f.public /\ ~at
             /\ records' = Append(records, FromNote(f))
             /\ UNCHANGED <<stage, err>>
          \/ /\ f.is = "role" /\ f.public /\ at
             /\ records' = Owned(records, f)
             /\ err' = (err \/ OwnedBadly(records, f)) /\ UNCHANGED stage
          \/ /\ f.is \in {"function", "role"} /\ (f.public => ~at)
             /\ UNCHANGED <<records, stage, err>>
          \/ /\ f.is = "value" /\ ~f.public
             /\ UNCHANGED <<records, stage, err>>
          \/ f.is = "invalid" /\ Fails /\ UNCHANGED records
  /\ UNCHANGED <<script, position, current, findings, status, files, made>>

(* Mutant of Complete: a record without a type is left as it is.           *)
CompleteAnyway(rs) == TRUE
Complete(rs) == \A i \in DOMAIN rs : rs[i].signature # NoText

(* sort_records: where the insertion sort, which is stable, puts a record. *)
Place(rs, i) ==
  Cardinality({j \in DOMAIN rs :
                 \/ rs[j].usr < rs[i].usr
                 \/ rs[j].usr = rs[i].usr /\ j <= i})
SortRecords(rs) ==
  [n \in DOMAIN rs |-> rs[CHOOSE i \in DOMAIN rs : Place(rs, i) = n]]
Repeats(rs) == \E i \in 1 .. Len(rs) - 1 : rs[i].usr = rs[i + 1].usr

(* The end of load_semantics, the sort and the check for repetitions.      *)
SemanticsEnd ==
  /\ stage = "semantics" /\ pending = {}
  /\ records' = SortRecords(records)
  /\ IF ~err /\ Complete(records) /\ ~Repeats(SortRecords(records))
     THEN stage' = "open" /\ UNCHANGED err
     ELSE Fails
  /\ UNCHANGED <<script, position, pending, current, findings, status, files, made>>

(* Opening for writing empties the file.                                   *)
OpenOutput ==
  /\ stage = "open"
  /\ \/ /\ stage' = "write" /\ UNCHANGED err
        /\ files' = [files EXCEPT ![Command.output] = File(0, <<>>, FALSE)]
        /\ made' = [made EXCEPT ![Command.output] = Unknown]
     \/ Fails /\ UNCHANGED <<files, made>>
  /\ UNCHANGED <<script, process, status>>

(* Where a write fails the file may end anywhere.                          *)
WriteRecords ==
  /\ stage = "write" /\ stage' = "end"
  /\ \/ /\ files' = [files EXCEPT ![Command.output] = File(4, records, FALSE)]
        /\ \/ UNCHANGED err /\ status' = Success
              /\ made' = [made EXCEPT ![Command.output] = Command.workspace]
           \/ err' = TRUE /\ UNCHANGED made               \* closing, or stdout
              /\ status' \in {status, Success}
     \/ /\ \E n \in 0 .. Len(records) - 1, torn \in BOOLEAN :
             files' = [files EXCEPT ![Command.output] =
                         File(4, SubSeq(records, 1, n), torn)]
        /\ err' = TRUE /\ UNCHANGED <<status, made>>
  /\ UNCHANGED <<script, process>>

-----------------------------------------------------------------------------
(* compare.                                                                *)

(* What a version does not have is filled in.                              *)
Loaded(file) ==
  [i \in DOMAIN file.records |->
     LET r == file.records[i] IN
     [r EXCEPT !.signature = IF file.version >= 2 THEN @ ELSE NoText,
               !.ownership = IF file.version >= 3 THEN @ ELSE "-",
               !.kind = IF file.version = 4 THEN @ ELSE "function"]]
Readable(file) ==
  file.is = "file" /\ file.version \in 1 .. 4 /\ ~file.torn

(* load_snapshot, twice.                                                   *)
LoadSnapshots ==
  /\ stage = "load"
  /\ Readable(files[Command.old]) /\ Readable(files[Command.new])
  /\ records' = Loaded(files[Command.old])
  /\ current' = Loaded(files[Command.new])
  /\ stage' = "compare"
  /\ UNCHANGED <<script, position, pending, findings, err, status, files, made>>

LoadFails == stage = "load" /\ FailsHere

(* Which rules a record breaks that was one and is another.                *)
SignatureRule(kind) ==
  CASE kind = "type-layout" -> "API-007"
    [] kind = "enum-value"  -> "API-008"
    [] kind = "macro-value" -> "API-009"
    [] OTHER                -> "API-005"
(* Mutant of Changes: any difference of the platforms is a loss.           *)
ChangesAnyPlatform(old, new) ==
  (IF old.library # new.library THEN {<<"API-002", "">>} ELSE {})
  \cup {<<"API-004", p>> : p \in (old.platforms \cup new.platforms)
                                    \ (old.platforms \cap new.platforms)}
Changes(old, new) ==
  (IF old.library # new.library THEN {<<"API-002", "">>}
   ELSE IF old.header \notin {NoText, new.header} THEN {<<"API-003", "">>} ELSE {})
  \cup {<<"API-004", p>> : p \in old.platforms \ new.platforms}
  \cup (IF /\ NoText \notin {old.signature, new.signature}
           /\ old.signature # new.signature
        THEN {<<SignatureRule(old.kind), "">>} ELSE {})
  \cup (IF old.ownership \notin {"-", new.ownership} THEN {<<"API-006", "">>} ELSE {})
Broken(old, rs) ==
  IF ~Known(rs, old.usr) THEN {<<"API-001", "">>}
  ELSE Changes(old, rs[Found(rs, old.usr)])

(* A finding counts also when it cannot be reported.                       *)
CompareRecord ==
  /\ stage = "compare" /\ position < Len(records)
  /\ LET old == records[position + 1]
         broken == {<<old.usr, b>> : b \in Broken(old, current)} IN
     /\ findings' = findings \cup broken
     /\ \/ UNCHANGED err
        \/ broken # {} /\ err' = TRUE
  /\ position' = position + 1
  /\ UNCHANGED <<script, stage, pending, records, current, status, files, made>>

(* The line with the counts, and the status.                               *)
CompareEnds ==
  /\ stage = "compare" /\ position = Len(records)
  /\ \/ UNCHANGED err
     \/ err' = TRUE
  /\ status' = IF err' THEN Trouble
               ELSE IF findings = {} THEN Success ELSE Findings
  /\ stage' = "end"
  /\ UNCHANGED <<script, process, files, made>>

(* main: an error overrides the status.                                    *)
Exit ==
  /\ stage = "end" /\ stage' = "ended"
  /\ status' = IF err THEN Trouble ELSE status
  /\ UNCHANGED <<script, process, err, files, made>>

NextCommand ==
  /\ stage = "ended" /\ Len(script) > 1
  /\ script' = Tail(script) /\ stage' = "start"
  /\ UNCHANGED <<process, err, status, files, made>>

Run ==
  \/ Start \/ LoadManifest \/ ManifestsEnd \/ SnapshotFails \/ ReadFact
  \/ SemanticsEnd \/ OpenOutput \/ WriteRecords
  \/ LoadSnapshots \/ LoadFails \/ CompareRecord \/ CompareEnds
  \/ Exit \/ NextCommand

Done == stage = "ended" /\ Len(script) = 1 /\ UNCHANGED vars

Next == Run \/ Done

(* One thread, and nothing in it waits.                                    *)
Spec == Init /\ [][Next]_vars /\ WF_vars(Run)

-----------------------------------------------------------------------------
(* Properties.                                                             *)

(* What a workspace offers, said without an order: the rows of its         *)
(* manifests and the values its headers announce, with what its headers    *)
(* say about each.                                                         *)
Rows(w) ==
  UNION {{FromRow(m, row) : row \in {x \in ToSet(m.rows) : x.is = "api"}} :
           m \in ToSet(w.manifests)}
Said(w, is, usr) == {f.text : f \in {g \in w.facts : g.is = is /\ g.public /\ g.usr = usr}}
Values(w) == {FromNote(f) : f \in {g \in w.facts : g.is = "value" /\ g.public}}
Surface(w) ==
  {[r EXCEPT !.signature = CHOOSE t \in Said(w, "function", r.usr) : TRUE,
             !.ownership = IF Said(w, "role", r.usr) = {} THEN @
                           ELSE CHOOSE t \in Said(w, "role", r.usr) : TRUE] :
      r \in Rows(w)}
  \cup Values(w)
(* It does so without a contradiction, and once.                           *)
Consistent(w) ==
  /\ \A m \in ToSet(w.manifests) : Legible(m)
  /\ \A r \in Rows(w) :
       /\ Cardinality(Said(w, "function", r.usr)) = 1
       /\ Cardinality(Said(w, "role", r.usr)) <= 1
  /\ \A r, q \in Rows(w) : r.usr = q.usr => r = q
  /\ \A r, q \in Values(w) :
       r.usr = q.usr => r.signature = q.signature /\ r.kind = q.kind
  /\ \A r \in Rows(w), q \in Values(w) : r.usr # q.usr
  /\ \A m \in ToSet(w.manifests) : \A i, j \in DOMAIN m.rows :
       m.rows[i] = m.rows[j] /\ m.rows[i].is = "api" => i = j

(* A table of the surface has one record for each identity.  Which header  *)
(* a value is said to be from, when two announce it alike, is not the      *)
(* workspace's to say: it is the one that is read first.                   *)
Covers(rs, w) ==
  /\ ToSet(rs) \subseteq Surface(w)
  /\ {r.usr : r \in ToSet(rs)} = {r.usr : r \in Surface(w)}
Ascending(rs) == \A i, j \in DOMAIN rs : i < j => rs[i].usr < rs[j].usr

(* A snapshot that ends with status 0 holds exactly what its workspace     *)
(* offers, sorted, each identity once, whatever the order of the facts,    *)
(* and the workspace did not contradict itself.                            *)
SnapshotIsTheSurface ==
  \A f \in DOMAIN files :
    made[f] # Unknown =>
      /\ Consistent(made[f])
      /\ Covers(files[f].records, made[f])
      /\ Ascending(files[f].records)

(* What a caller of an API may count on when it is compiled and linked     *)
(* again.                                                                  *)
Keeps(r, q) ==
  /\ q.usr = r.usr /\ q.library = r.library
  /\ r.header \in {NoText, q.header}
  /\ r.platforms \subseteq q.platforms
  /\ q.signature = r.signature
  /\ r.ownership \in {"-", q.ownership}

(* A comparison of two such snapshots that ends with status 0 or 1 has a   *)
(* finding for each API of the first that the second does not keep, and    *)
(* for no other; the status says whether there is one.  (Of an older       *)
(* version or an unknown file it can only tell what the file holds.)       *)
CompareIsExact ==
  stage = "ended" /\ Command.is = "compare" /\ status # Trouble =>
    /\ (status = Success) <=> (findings = {})
    /\ Unknown \notin {made[Command.old], made[Command.new]} =>
         {f[1] : f \in findings} =
           {r.usr : r \in {o \in ToSet(files[Command.old].records) :
                             \A q \in ToSet(files[Command.new].records) : ~Keeps(o, q)}}

(* A snapshot that exists is replaced by a run that has read everything    *)
(* and met no contradiction; any other run leaves it alone.                *)
OldSnapshotKept ==
  [][\A f \in DOMAIN files : files'[f] # files[f] =>
       /\ Command.is = "snapshot" /\ f = Command.output
       /\ pending = {} /\ Consistent(Command.workspace)
       /\ Covers(records, Command.workspace)]_vars

=============================================================================
