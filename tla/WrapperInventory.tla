-------------------------- MODULE WrapperInventory --------------------------
(***************************************************************************)
(* Where the wrapper inventory comes from (src/src/inventory.c): the API   *)
(* manifests of the workspace's libraries, then, for each header root, the *)
(* functions annotated as wrappers and the public declarations found by a  *)
(* scan of that root, whose facts are dropped afterwards.                  *)
(***************************************************************************)
EXTENDS WrapperObserver

CONSTANTS
  InputManifests,   \* the lists of manifests the libraries can hold
  InputRoots,       \* the lists of header roots that can be given
  WrapperRole,      \* the note of a wrapper without a native identity
  WrapperOfRole     \* note "wrapper-of:<usr>" -> that native USR

(* A manifest, header line first.  A malformed row is over-long or lacks a *)
(* field; a "-" in a native column says there is none.                     *)
Row == [mapping : Mapping, malformed : BOOLEAN]
Manifest == [columns : BOOLEAN, rows : Seq(Row)]
(* A header root: what scanning it delivers, and the paths that lie in it. *)
Root == [records : Seq(Record), paths : SUBSET Texts]

ASSUME InventoryAssumption ==
  /\ InputManifests \subseteq Seq(Manifest)
  /\ InputRoots \subseteq Seq(Root)
  /\ WrapperRole \in Texts
  /\ DOMAIN WrapperOfRole \subseteq Texts \ {WrapperRole}
  /\ \A n \in DOMAIN WrapperOfRole : WrapperOfRole[n] \in Texts
  /\ "-" \in Texts

VARIABLES
  manifests,  \* the manifests found, in alphasort order
  manifest,   \* how many of them are read
  row,        \* how many rows of the next one are read
  roots,      \* arguments->header_roots
  root,       \* how many of them are done
  at,         \* the loop index over the facts of a root; one past the fact
  first       \* first_fact of the root being read

inventoryVars == <<manifests, manifest, row, roots, root, at, first>>
loadVars == <<stage, err, modelVars, observerVars, inventoryVars>>

InventoryInit ==
  /\ stage = "manifests" /\ err = FALSE
  /\ facts = <<>> /\ inventory = <<>> /\ findings = <<>>
  /\ parseFailures = 0
  /\ capacity = [a \in Arrays |-> 0]
  /\ records = <<>> /\ delivered = 0
  /\ manifests \in InputManifests /\ manifest = 0 /\ row = 0
  /\ roots \in InputRoots /\ root = 0
  /\ first = 0 /\ at = 0

-----------------------------------------------------------------------------
(* add_inventory_mapping.  When the array cannot grow the load has failed; *)
(* nothing the failed load leaves behind is used.                          *)

Known(wrapperUsr) ==
  First({i \in DOMAIN inventory :
           wrapperUsr # "" /\ inventory[i].wrapperUsr = wrapperUsr})

(* Mutants of Improved: the first mapping of a wrapper stays as it is; the *)
(* last native identity wins.                                              *)
ImprovedNever(entry, m) == entry
ImprovedAlways(entry, m) ==
  IF m.originalUsr # ""
  THEN [entry EXCEPT !.original = m.original, !.originalUsr = m.originalUsr]
  ELSE entry
(* A known wrapper without a native identity takes the new one's; the      *)
(* native name comes with it, even when the new mapping names none.        *)
Improved(entry, m) ==
  IF m.originalUsr # "" /\ entry.originalUsr = ""
  THEN [entry EXCEPT !.original = m.original, !.originalUsr = m.originalUsr]
  ELSE entry

(* Mutant of AddMapping: the wrapper is not looked for first.              *)
AddMappingBlindly(m) ==
  \/ /\ MakeRoom("inventory", Len(inventory))
     /\ inventory' = Append(inventory, m)
     /\ UNCHANGED <<stage, err>>
  \/ /\ NoRoom("inventory", Len(inventory))
     /\ Fails
     /\ UNCHANGED inventory
AddMapping(m) ==
  LET i == Known(m.wrapperUsr) IN
    \/ /\ i # 0
       /\ inventory' = [inventory EXCEPT ![i] = Improved(@, m)]
       /\ UNCHANGED <<stage, err, capacity>>
    \/ /\ i = 0
       /\ MakeRoom("inventory", Len(inventory))
       /\ inventory' = Append(inventory, m)
       /\ UNCHANGED <<stage, err>>
    \/ /\ i = 0
       /\ NoRoom("inventory", Len(inventory))
       /\ Fails
       /\ UNCHANGED inventory

-----------------------------------------------------------------------------
(* load_manifests and load_manifest_file.                                  *)

Plain(t) == IF t = "-" THEN "" ELSE t
RowMapping(r) ==
  [r.mapping EXCEPT !.original = Plain(@), !.originalUsr = Plain(@)]

Reading == stage = "manifests" /\ manifest < Len(manifests)
CurrentManifest == manifests[manifest + 1]
CurrentRow == CurrentManifest.rows[row + 1]

(* The directory, a manifest or a row of it cannot be read, or a manifest  *)
(* lacks a column or has a malformed row.                                  *)
ManifestFails ==
  /\ stage = "manifests"
  /\ Fails
  /\ UNCHANGED <<modelVars, observerVars, inventoryVars>>

(* A manifest must name its columns, and every row must hold them.         *)
MustReject ==
  \/ ~CurrentManifest.columns
  \/ row < Len(CurrentManifest.rows) /\ CurrentRow.malformed

ReadRow ==
  /\ Reading /\ ~MustReject
  /\ row < Len(CurrentManifest.rows)
  /\ AddMapping(RowMapping(CurrentRow))
  /\ row' = row + 1
  /\ UNCHANGED <<facts, findings, parseFailures, observerVars,
                 manifests, manifest, roots, root, at, first>>

(* Mutant of ManifestEnds: the next manifest starts where this one ended.  *)
ManifestEndsKeepingRow ==
  /\ Reading /\ ~MustReject
  /\ row = Len(CurrentManifest.rows)
  /\ manifest' = manifest + 1
  /\ UNCHANGED <<stage, err, modelVars, observerVars,
                 manifests, row, roots, root, at, first>>
ManifestEnds ==
  /\ Reading /\ ~MustReject
  /\ row = Len(CurrentManifest.rows)
  /\ manifest' = manifest + 1 /\ row' = 0
  /\ UNCHANGED <<stage, err, modelVars, observerVars,
                 manifests, roots, root, at, first>>

ManifestsEnd ==
  /\ stage = "manifests" /\ manifest = Len(manifests)
  /\ stage' = "roots"
  /\ UNCHANGED <<err, modelVars, observerVars, inventoryVars>>

-----------------------------------------------------------------------------
(* One header root: scan it, read the roles, then the declarations.        *)

StartRoot ==
  /\ stage = "roots" /\ root < Len(roots)
  /\ StartScan(roots[root + 1].records)
  /\ first' = Len(facts) /\ at' = Len(facts)
  /\ stage' = "rootscan"
  /\ UNCHANGED <<err, modelVars, manifests, manifest, row, roots, root>>

ObserveRoot == stage = "rootscan" /\ Observe /\ UNCHANGED inventoryVars

RootScanFails == stage = "rootscan" /\ ScanFails /\ UNCHANGED inventoryVars

RootScanEnds ==
  /\ stage = "rootscan" /\ ScanEnded
  /\ stage' = "roles"
  /\ UNCHANGED <<err, modelVars, observerVars, inventoryVars>>

(* add_annotated_inventory.                                                *)
IsRole(f) ==
  f.kind = "NOTE" /\ f.name \in {WrapperRole} \cup DOMAIN WrapperOfRole

Native(f) ==
  IF f.name \in DOMAIN WrapperOfRole THEN WrapperOfRole[f.name] ELSE ""

(* The function a role is about, among the facts of this root.             *)
Annotated(f) ==
  First({i \in first + 1 .. Len(facts) :
           /\ facts[i].kind = "FUNCTION" /\ facts[i].usr # ""
           /\ facts[i].usr = f.callerUsr})

Unusable(f) ==
  Annotated(f) = 0 \/ (f.name \in DOMAIN WrapperOfRole /\ Native(f) = "")

Looking(where) == stage = where /\ at < Len(facts)

ReadRole ==
  /\ Looking("roles")
  /\ LET f == facts[at + 1] IN
       \/ /\ ~IsRole(f)
          /\ UNCHANGED <<stage, err, inventory, capacity>>
       \/ /\ IsRole(f) /\ Unusable(f)
          /\ Fails
          /\ UNCHANGED <<inventory, capacity>>
       \/ /\ IsRole(f) /\ ~Unusable(f)
          /\ AddMapping([original |-> "", originalUsr |-> Native(f),
                         wrapper |-> facts[Annotated(f)].name,
                         wrapperUsr |-> facts[Annotated(f)].usr])
  /\ at' = at + 1
  /\ UNCHANGED <<facts, findings, parseFailures, observerVars,
                 manifests, manifest, row, roots, root, first>>

RolesEnd ==
  /\ stage = "roles" /\ at = Len(facts)
  /\ stage' = "publics" /\ at' = first
  /\ UNCHANGED <<err, modelVars, observerVars,
                 manifests, manifest, row, roots, root, first>>

(* add_public_header_inventory.                                            *)
IsPublic(f, r) ==
  /\ f.kind = "FUNCTION" /\ ~f.definition /\ f.public /\ f.usr # ""
  /\ f.path \in r.paths

ReadPublic ==
  /\ Looking("publics")
  /\ LET f == facts[at + 1] IN
       \/ /\ ~IsPublic(f, roots[root + 1])
          /\ UNCHANGED <<stage, err, inventory, capacity>>
       \/ /\ IsPublic(f, roots[root + 1])
          /\ AddMapping([original |-> "", originalUsr |-> "",
                         wrapper |-> f.name, wrapperUsr |-> f.usr])
  /\ at' = at + 1
  /\ UNCHANGED <<facts, findings, parseFailures, observerVars,
                 manifests, manifest, row, roots, root, first>>

(* Mutant of RolledBack: the facts of a header root stay.                  *)
RolledBackNot == facts
(* What the scan of a header root appended is dropped.                     *)
RolledBack == SubSeq(facts, 1, first)

RootEnds ==
  /\ stage = "publics" /\ at = Len(facts)
  /\ facts' = RolledBack /\ at' = first
  /\ root' = root + 1
  /\ stage' = "roots"
  /\ UNCHANGED <<err, inventory, findings, parseFailures, capacity,
                 observerVars, manifests, manifest, row, roots, first>>

LoadEnds ==
  /\ stage = "roots" /\ root = Len(roots)
  /\ err' = (inventory = <<>>)
  /\ stage' = IF inventory = <<>> THEN "exit" ELSE "loaded"
  /\ UNCHANGED <<modelVars, observerVars, inventoryVars>>

Load ==
  \/ ManifestFails \/ ReadRow \/ ManifestEnds \/ ManifestsEnd
  \/ StartRoot \/ ObserveRoot \/ RootScanFails \/ RootScanEnds
  \/ ReadRole \/ RolesEnd \/ ReadPublic \/ RootEnds \/ LoadEnds

LoadStopped == stage \in {"loaded", "exit"} /\ UNCHANGED loadVars

InventoryNext == Load \/ LoadStopped

InventorySpec == InventoryInit /\ [][InventoryNext]_loadVars
-----------------------------------------------------------------------------
(* What the sources say: the rows of the manifests, and for each root the  *)
(* functions with a role and the public declarations under it.             *)
Rows == UNION {{RowMapping(manifests[m].rows[r]) :
                  r \in DOMAIN manifests[m].rows} : m \in DOMAIN manifests}

Seen(r) == {r.records[n].fact : n \in DOMAIN r.records}

Roles == UNION {{[wrapperUsr |-> f.callerUsr, originalUsr |-> Native(f)] :
                   f \in {g \in Seen(roots[r]) : IsRole(g)}} :
                r \in DOMAIN roots}

Publics == UNION {{f.usr : f \in {g \in Seen(roots[r]) : IsPublic(g, roots[r])}} :
                  r \in DOMAIN roots}

Natives(wrapperUsr) ==
  {m.originalUsr : m \in {n \in Rows \cup Roles : n.wrapperUsr = wrapperUsr}}

(* A wrapper has one entry, whatever manifests, roles and declarations     *)
(* name it: find_wrapper and the inventory listing rely on it.  A complete *)
(* load knows every wrapper its sources name, in whatever order they name  *)
(* it, with a native identity exactly when some source gave one, and then  *)
(* with one that a source gave for this wrapper.  And it leaves no fact of *)
(* a header root behind, since the audited sources are judged by           *)
(* themselves; but the roots' diagnostics still count.                     *)
InventoryIsTheSources ==
  /\ \A i, j \in DOMAIN inventory :
       inventory[i].wrapperUsr = inventory[j].wrapperUsr
         /\ inventory[i].wrapperUsr # "" => i = j
  /\ stage = "loaded" =>
       /\ \A usr \in {m.wrapperUsr : m \in Rows \cup Roles} \cup Publics :
            \E i \in DOMAIN inventory :
              /\ inventory[i].wrapperUsr = usr
              /\ \/ inventory[i].originalUsr \in Natives(usr) \ {""}
                 \/ inventory[i].originalUsr = "" /\ Natives(usr) \subseteq {""}
       /\ \A i \in DOMAIN inventory :
            \/ inventory[i].wrapperUsr \in Publics
            \/ inventory[i].originalUsr \in Natives(inventory[i].wrapperUsr)
       /\ facts = <<>>
       /\ parseFailures =
            Cardinality(UNION {{<<r, n>> : n \in
              {k \in DOMAIN roots[r].records :
                 roots[r].records[k].fact.kind = "DIAGNOSTIC"}} :
              r \in DOMAIN roots})

(* Loading never takes back what it knew: an entry stays the entry of its  *)
(* wrapper, and a native identity, once known, is never replaced.          *)
KnownIsKept ==
  [][/\ Len(inventory') >= Len(inventory)
     /\ \A i \in DOMAIN inventory :
          /\ inventory'[i].wrapperUsr = inventory[i].wrapperUsr
          /\ inventory[i].originalUsr # "" => inventory'[i] = inventory[i]]_loadVars

=============================================================================
