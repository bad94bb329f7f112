---------------------------- MODULE LayoutPolicy ---------------------------
(***************************************************************************)
(* The policy functional-library-split: each wrapper is owned by one       *)
(* domain, whose library has its source and its header where the native    *)
(* header's name says, names them in its configuration, and agrees with    *)
(* the central map; and nothing refers to a retired library any more.      *)
(***************************************************************************)
EXTENDS WorkspaceResult

CONSTANTS
  Domains,      \* the table domains: [name, repository, namespaced]
  Retired       \* the names of the table retired

VARIABLES
  domain,       \* the domain that is looked at
  centralIds,   \* central_identities
  localIds,     \* local_identities
  expected      \* expected_sources and expected_headers

layoutVars == <<domain, centralIds, localIds, expected>>

Central == workspace.central
Domain == Domains[domain]
Manifest == workspace.manifests[Domain.repository]
Files == workspace.files[Domain.repository]
ReferenceRoots == <<"libraries", "programs", "templates", "playgrounds", "examples">>
NothingExpected == [sources |-> {}, headers |-> {}]

-----------------------------------------------------------------------------
LayoutInit ==
  domain = 0 /\ centralIds = {} /\ localIds = {} /\ expected = NothingExpected

LayoutRead ==
  /\ stage = "functional-library-split"
  /\ stage' = "central"
  /\ UNCHANGED <<options, workspace, resultVars, position, layoutVars>>
(* A file that cannot be read, a directory that cannot be listed, a set    *)
(* that cannot grow.                                                       *)
LayoutTrouble ==
  /\ stage \in {"functional-library-split", "central", "domain", "manifest", "layout",
                "references", "root"}
  /\ GiveUp
  /\ UNCHANGED <<options, workspace, findings, checks, position, layoutVars>>

(* collect_central_identities                                              *)
CollectCentral ==
  /\ stage = "central" /\ position < Len(Central)
  /\ LET row == Central[position + 1] IN
     IF row.is = "incomplete" \/ row.usr \in centralIds
     THEN /\ Add(Finding(IF row.is = "row" THEN "twice" ELSE "incomplete", "central"))
          /\ UNCHANGED centralIds
     ELSE centralIds' = centralIds \cup {row.usr} /\ UNCHANGED <<findings, err>>
  /\ position' = position + 1
  /\ UNCHANGED <<stage, options, workspace, checks, domain, localIds, expected>>
CentralEnds ==
  /\ stage = "central" /\ position = Len(Central)
  /\ stage' = (IF err THEN "end" ELSE "domain") /\ domain' = 1
  /\ UNCHANGED <<options, workspace, resultVars, position, centralIds, localIds,
                 expected>>

-----------------------------------------------------------------------------
EnterDomain ==
  /\ stage = "domain" /\ domain <= Len(Domains)
  /\ AddAll(If(Domain.repository \notin workspace.admitted,
               Finding("no-owner", Domain.name)))
  /\ stage' = "manifest" /\ position' = 0 /\ expected' = NothingExpected
  /\ UNCHANGED <<options, workspace, checks, domain, centralIds, localIds>>

(* derive_layout: the native header's name, in the domain's directory, and *)
(* its stem, in a directory of its own if the domain shares its library.   *)
HeaderOf(native) == <<"include", Domain.name, native.name>>
(* Mutant of SourceOf: a shared library has one directory of sources.      *)
SourceOfUnspaced(native) == <<"src", native.stem>>
SourceOf(native) ==
  IF Domain.namespaced THEN <<"src", Domain.name, native.stem>>
  ELSE <<"src", native.stem>>
At(file) == <<"libraries", Domain.repository>> \o file

Claims(row) ==
  {c \in ToSet(Central) : /\ row.is = "row" /\ c.is = "row"
                          /\ c.usr = row.usr /\ c.domain = Domain.name}
Agrees(c, row) ==
  c.provenance = row.provenance /\ c.source = row.source /\ c.header = row.header
RowFaults(row) ==
  If(row.usr \in localIds, Finding("owned-twice", row.usr))
  \o If(~row.admitted, Finding("platforms", row.usr))
  \o If(row.source # At(SourceOf(row.native)), Finding("source", row.usr))
  \o If(row.header # At(HeaderOf(row.native)), Finding("header", row.usr))
  \o If(~\E c \in Claims(row) : Agrees(c, row), Finding("drift", row.usr))

LocalRow == Manifest[position + 1]
AtRow == stage = "manifest" /\ position < Len(Manifest)
AtRowOf(native) ==
  AtRow /\ Claims(LocalRow) # {} /\ LocalRow.native.is = native

SkipManifestRow ==
  /\ AtRow /\ Claims(LocalRow) = {}
  /\ AddAll(If(LocalRow.is = "incomplete", Finding("incomplete", Domain.name)))
  /\ position' = position + 1
  /\ UNCHANGED <<stage, options, workspace, checks, layoutVars>>
JudgeManifestRow ==
  /\ AtRowOf("header")
  /\ expected' = [sources |-> expected.sources \cup {SourceOf(LocalRow.native)},
                  headers |-> expected.headers \cup {HeaderOf(LocalRow.native)}]
  /\ AddAll(RowFaults(LocalRow)) /\ localIds' = localIds \cup {LocalRow.usr}
  /\ position' = position + 1 /\ checks' = checks + 1
  /\ UNCHANGED <<stage, options, workspace, domain, centralIds>>
(* A name that is too long ends the manifest, without an error.            *)
ManifestEnds ==
  /\ stage = "manifest"
  /\ AtRow => AtRowOf("overlong")
  /\ stage' = IF err THEN "end" ELSE "layout"
  /\ UNCHANGED <<options, workspace, resultVars, position, layoutVars>>
(* A native header that lies in no package is an error.                    *)
MisplacedHeader ==
  /\ AtRowOf("misplaced")
  /\ GiveUp
  /\ UNCHANGED <<options, workspace, findings, checks, position, layoutVars>>

(* cmake_set_matches: a list that is not there matches nothing.            *)
ListMatches(list, files) ==
  list.given /\ ToSet(list.files) \subseteq files /\ Len(list.files) = Cardinality(files)
Each(what, names) == [n \in 1 .. Cardinality(names) |-> Finding(what, SetToSeq(names)[n])]
LayoutFaults ==
  Each("no-source", expected.sources \ Files.sources)
  \o Each("no-header", expected.headers \ Files.headers)
  \o If(~ListMatches(Files.listed[Domain.name].sources, expected.sources),
        Finding("source-list", Domain.name))
  \o If(~ListMatches(Files.listed[Domain.name].headers, expected.headers),
        Finding("header-list", Domain.name))
JudgeLayout ==
  /\ stage = "layout"
  /\ AddAll(LayoutFaults)
  /\ stage' = "retired" /\ position' = 0
  /\ UNCHANGED <<options, workspace, checks, layoutVars>>
(* The directories a retired library left: each is looked for whatever     *)
(* error there is, and one that is not there may take the error with it.   *)
RetiredNames == SetToSeq(Retired)
LookForRetired ==
  /\ stage = "retired" /\ position < Len(RetiredNames)
  /\ IF RetiredNames[position + 1] \in Files.origins
     THEN \/ Add(Finding("obsolete", RetiredNames[position + 1]))
          \/ err' = TRUE /\ UNCHANGED findings
     ELSE NotFound /\ UNCHANGED findings
  /\ position' = position + 1
  /\ UNCHANGED <<stage, options, workspace, checks, layoutVars>>
RetiredEnds ==
  /\ stage = "retired" /\ position = Len(RetiredNames)
  /\ stage' = (IF err THEN "end" ELSE "domain") /\ domain' = domain + 1
  /\ UNCHANGED <<options, workspace, resultVars, position, centralIds, localIds,
                 expected>>

-----------------------------------------------------------------------------
JudgeOwnership ==
  /\ stage = "domain" /\ domain > Len(Domains)
  /\ AddAll(Each("admitted", Retired \cap workspace.admitted)
            \o If(Cardinality(centralIds) # Cardinality(localIds),
                  Finding("differ", "central"))
            \o Each("no-row", centralIds \ localIds))
  /\ stage' = "references" /\ position' = 0
  /\ UNCHANGED <<options, workspace, checks, layoutVars>>

(* scan_retired_references: of each file of text, the includes; of a build *)
(* file also the targets.                                                  *)
References(root) ==
  LET texts == {f \in workspace.texts : f.root = root /\ f.scanned}
  IN  Each("include", {f.name : f \in {g \in texts : g.includes}})
      \o Each("target", {f.name : f \in {g \in texts : g.builds /\ g.links}})
ScanReferences ==
  /\ stage = "references" /\ position < Len(ReferenceRoots)
  /\ AddAll(References(ReferenceRoots[position + 1]))
  /\ stage' = "root"
  /\ UNCHANGED <<options, workspace, checks, position, layoutVars>>
(* A directory that is not there, or is gone when it is opened, has none,  *)
(* and its ENOENT is reset, an error from before with it or not.           *)
LookInVain ==
  /\ stage = "root" /\ err
  /\ err' = FALSE
  /\ UNCHANGED <<stage, options, workspace, findings, checks, position, layoutVars>>
RootEnds ==
  /\ stage = "root"
  /\ stage' = (IF err THEN "end" ELSE "references") /\ position' = position + 1
  /\ UNCHANGED <<options, workspace, resultVars, layoutVars>>
LayoutEnds ==
  /\ stage = "references" /\ position = Len(ReferenceRoots)
  /\ PolicyEnds
  /\ UNCHANGED <<options, workspace, checks, position, layoutVars>>

FunctionalLayout ==
  \/ LayoutRead \/ LayoutTrouble \/ CollectCentral \/ CentralEnds
  \/ EnterDomain \/ SkipManifestRow \/ JudgeManifestRow \/ ManifestEnds \/ MisplacedHeader
  \/ JudgeLayout \/ LookForRetired \/ RetiredEnds \/ JudgeOwnership
  \/ ScanReferences \/ LookInVain \/ RootEnds \/ LayoutEnds

-----------------------------------------------------------------------------
(* What the split promises, said of the workspace.                         *)

RowsOf(d) == workspace.manifests[d.repository]
Owns(d, row) ==
  row.is = "row" /\ \E c \in ToSet(Central) :
    c.is = "row" /\ c.usr = row.usr /\ c.domain = d.name
Place(d, native) ==
  [source |-> IF d.namespaced THEN <<"src", d.name, native.stem>>
              ELSE <<"src", native.stem>>,
   header |-> <<"include", d.name, native.name>>]
Places(d) == {Place(d, row.native) : row \in {r \in ToSet(RowsOf(d)) : Owns(d, r)}}
InPlace(d, row) ==
  LET place == Place(d, row.native)  there == <<"libraries", d.repository>> IN
  /\ row.admitted
  /\ row.source = there \o place.source /\ row.header = there \o place.header
  /\ \A c \in ToSet(Central) :
       c.is = "row" /\ c.usr = row.usr =>
         /\ c.domain = d.name /\ c.provenance = row.provenance
         /\ c.source = row.source /\ c.header = row.header
(* What the maps alone can break.                                          *)
MapsKept ==
  /\ \A i, j \in DOMAIN Central :
       /\ Central[i].is = "row"
       /\ Central[j].is = "row" /\ Central[i].usr = Central[j].usr => i = j
  /\ \A d \in ToSet(Domains) :
       /\ d.repository \in workspace.admitted
       /\ \A row \in ToSet(RowsOf(d)) :
            row.is = "row" /\ (Owns(d, row) => InPlace(d, row))
DomainKept(d) ==
  /\ {p.source : p \in Places(d)} \subseteq workspace.files[d.repository].sources
  /\ {p.header : p \in Places(d)} \subseteq workspace.files[d.repository].headers
  /\ LET listed == workspace.files[d.repository].listed[d.name] IN
     /\ listed.sources.given /\ ToSet(listed.sources.files) = {p.source : p \in Places(d)}
     /\ listed.headers.given /\ ToSet(listed.headers.files) = {p.header : p \in Places(d)}
  /\ workspace.files[d.repository].origins \cap Retired = {}
OwnersOf(usr) ==
  UNION {{<<d, i>> : i \in {n \in DOMAIN RowsOf(d) :
            LET row == RowsOf(d)[n] IN Owns(d, row) /\ row.usr = usr}} :
         d \in ToSet(Domains)}
SplitKept ==
  /\ MapsKept
  /\ \A d \in ToSet(Domains) : DomainKept(d)
  /\ workspace.admitted \cap Retired = {}
  /\ \A c \in ToSet(Central) : c.is = "row" => Cardinality(OwnersOf(c.usr)) = 1
  /\ \A f \in workspace.texts : f.scanned => ~f.includes /\ ~(f.builds /\ f.links)
(* No file is listed twice, which would stand in for one that is missing,  *)
(* and no native header has a name that ends the manifest early.           *)
ListedOnce ==
  /\ \A r \in DOMAIN workspace.files : \A d \in DOMAIN workspace.files[r].listed :
       LET listed == workspace.files[r].listed[d] IN
       IsInjective(listed.sources.files) /\ IsInjective(listed.headers.files)
  /\ \A r \in DOMAIN workspace.manifests : \A row \in ToSet(workspace.manifests[r]) :
       row.is = "row" => row.native.is # "overlong"
=============================================================================
