------------------------ MODULE ApiSnapshotProofs ---------------------------
(***************************************************************************)
(* Theorems about ApiSnapshot: for every script of commands on workspaces  *)
(* and files of any size that ScriptAssumption admits, a snapshot holds    *)
(* what its workspace offers, and a comparison says what is lost.          *)
(***************************************************************************)
EXTENDS ApiSnapshot, FiniteSetTheorems, TLAPS

(* Lists.                                                                  *)

LEMMA ListOf ==
  ASSUME NEW S, NEW s \in Seq(S)
  PROVE  IsList(s) /\ ToSet(s) \subseteq S
BY DEF ToSet, IsList

LEMMA ListLength ==
  ASSUME NEW s, IsList(s)
  PROVE  /\ Len(s) \in Nat /\ DOMAIN s = 1 .. Len(s)
         /\ \A i \in DOMAIN s : s[i] \in ToSet(s)
BY DEF IsList, ToSet

LEMMA ListJoined ==
  ASSUME NEW s, NEW t, NEW joined, IsList(s), IsList(t), joined = s \o t
  PROVE  /\ IsList(joined) /\ Len(joined) = Len(s) + Len(t)
         /\ \A i \in DOMAIN s : i \in DOMAIN joined /\ joined[i] = s[i]
         /\ \A i \in DOMAIN t :
              Len(s) + i \in DOMAIN joined /\ joined[Len(s) + i] = t[i]
         /\ \A i \in DOMAIN joined :
              i \in DOMAIN s \/ \E j \in DOMAIN t : i = Len(s) + j
<1>1. PICK S : S = ToSet(s) \cup ToSet(t)
  OBVIOUS
<1>2. s \in Seq(S) /\ t \in Seq(S)
  BY <1>1 DEF IsList
<1>3. /\ joined \in Seq(S) /\ Len(joined) = Len(s) + Len(t)
      /\ Len(s) \in Nat /\ Len(t) \in Nat
      /\ DOMAIN s = 1 .. Len(s) /\ DOMAIN t = 1 .. Len(t)
      /\ DOMAIN joined = 1 .. Len(s) + Len(t)
  BY <1>2
<1>4. \A i \in 1 .. Len(s) + Len(t) :
        joined[i] = IF i <= Len(s) THEN s[i] ELSE t[i - Len(s)]
  BY <1>2
<1>5. \A i \in DOMAIN s : i \in DOMAIN joined /\ joined[i] = s[i]
  BY <1>3, <1>4
<1>6. \A i \in DOMAIN t : Len(s) + i \in DOMAIN joined /\ joined[Len(s) + i] = t[i]
  BY <1>3, <1>4
<1>7. ASSUME NEW i \in DOMAIN joined, i \notin DOMAIN s
      PROVE  \E j \in DOMAIN t : i = Len(s) + j
  <2>1. i - Len(s) \in DOMAIN t /\ i = Len(s) + (i - Len(s))
    BY <1>3, <1>7
  <2>2. QED
    BY <2>1
<1>8. IsList(joined)
  BY <1>3, ListOf
<1>9. QED
  BY <1>3, <1>5, <1>6, <1>7, <1>8

LEMMA ListExtended ==
  ASSUME NEW s, NEW e, NEW longer, IsList(s), longer = Append(s, e)
  PROVE  /\ IsList(longer) /\ DOMAIN longer = 1 .. Len(s) + 1
         /\ longer[Len(s) + 1] = e
         /\ \A i \in DOMAIN s : i \in DOMAIN longer /\ longer[i] = s[i]
<1>1. PICK S : S = ToSet(s) \cup {e}
  OBVIOUS
<1>2. s \in Seq(S) /\ e \in S
  BY <1>1 DEF IsList
<1>3. Len(s) \in Nat /\ DOMAIN s = 1 .. Len(s)
  BY <1>2
<1>4. longer \in Seq(S) /\ Len(longer) = Len(s) + 1
  BY <1>2
<1>5. DOMAIN longer = 1 .. Len(s) + 1 /\ IsList(longer)
  <2>1. IsList(longer)
    BY <1>4, ListOf
  <2>2. DOMAIN longer = 1 .. Len(longer)
    BY <2>1, ListLength
  <2>3. QED
    BY <1>4, <2>1, <2>2
<1>6. longer[Len(s) + 1] = e
  BY <1>2, <1>3
<1>7. \A i \in DOMAIN s : i \in DOMAIN longer /\ longer[i] = s[i]
  BY <1>2, <1>3, <1>5
<1>8. QED
  BY <1>5, <1>6, <1>7

LEMMA ListFrom ==
  ASSUME NEW k \in Nat, NEW s, s = [n \in 1 .. k |-> s[n]]
  PROVE  IsList(s) /\ Len(s) = k /\ DOMAIN s = 1 .. k
<1>1. PICK S : S = {s[n] : n \in 1 .. k}
  OBVIOUS
<1>2. \A n \in 1 .. k : s[n] \in S
  BY <1>1
<1>3. s \in [1 .. k -> S]
  BY <1>2, Zenon
<1>4. s \in Seq(S) /\ Len(s) = k /\ DOMAIN s = 1 .. k
  BY <1>3
<1>5. QED
  BY <1>4, ListOf

(* A set of positions that is not empty has a first one: of the           *)
(* initial segments up to its members one is the smallest.                 *)
LEMMA LeastMember ==
  ASSUME NEW positions \in SUBSET Nat, positions # {}
  PROVE  \E i \in positions : \A j \in positions : i <= j
<1> DEFINE Segments == {0 .. i : i \in positions}
<1>1. Segments \subseteq FiniteSubsetsOf(Nat) /\ Segments # {}
  <2>1. \A i \in Nat : IsFiniteSet(0 .. i) /\ 0 .. i \in SUBSET Nat
    BY FS_Interval
  <2>2. QED
    BY <2>1, Zenon DEF FiniteSubsetsOf
<1>2. PICK T \in Segments :
        \A U \in Segments : ~ (<<U, T>> \in StrictSubsetOrdering(Nat))
  BY <1>1, FS_StrictSubsetOrderingWellFounded, WFMin
<1>3. PICK i \in positions : T = 0 .. i
  OBVIOUS
<1>4. \A j \in positions : i <= j
  <2> SUFFICES ASSUME NEW j \in positions, j < i PROVE FALSE
    OBVIOUS
  <2>1. 0 .. j \subseteq T /\ i \in T /\ i \notin 0 .. j
    BY <1>3
  <2>2. 0 .. j \in Segments /\ 0 .. j \subseteq Nat /\ T \subseteq Nat
    BY <1>3
  <2>3. QED
    BY <1>2, <2>1, <2>2 DEF StrictSubsetOrdering
<1>5. QED
  BY <1>4

(* Places that are all different and no more than there are to fill leave  *)
(* none of them free.                                                      *)
LEMMA AllTaken ==
  ASSUME NEW S, IsFiniteSet(S), NEW f \in [S -> 1 .. Cardinality(S)],
         \A x, y \in S : f[x] = f[y] => x = y
  PROVE  \A n \in 1 .. Cardinality(S) : \E x \in S : f[x] = n
<1>1. Cardinality(S) \in Nat
  BY FS_CardinalityType
<1>2. PICK T : T = 1 .. Cardinality(S)
  OBVIOUS
<1>3. IsFiniteSet(T) /\ Cardinality(T) = Cardinality(S)
  BY <1>1, <1>2, FS_Interval
<1>4. f \in Injection(S, T)
  BY <1>2 DEF Injection, IsInjective
<1>5. f \in Surjection(S, T)
  BY <1>3, <1>4, FS_Injection
<1>6. QED
  BY <1>2, <1>5 DEF Surjection

LEMMA Nths ==
  ASSUME NEW S \in SUBSET Nat, IsFiniteSet(S)
  PROVE  /\ Cardinality(S) \in Nat
         /\ \A n \in 1 .. Cardinality(S) : Nth(S, n) \in S
         /\ \A n, m \in 1 .. Cardinality(S) : Nth(S, n) = Nth(S, m) => n = m
         /\ \A i \in S : \E n \in 1 .. Cardinality(S) : Nth(S, n) = i
<1> DEFINE Below(i) == {j \in S : j <= i}
<1>1. Cardinality(S) \in Nat
  BY FS_CardinalityType
<1>2. ASSUME NEW i \in S
      PROVE  IsFiniteSet(Below(i)) /\ Cardinality(Below(i)) \in 1 .. Cardinality(S)
  <2>1. Below(i) \in SUBSET S /\ i \in Below(i)
    OBVIOUS
  <2>2. IsFiniteSet(Below(i)) /\ Cardinality(Below(i)) <= Cardinality(S)
    BY <2>1, FS_Subset
  <2>3. Cardinality(Below(i)) \in Nat /\ Cardinality(Below(i)) # 0
    BY <2>1, <2>2, FS_CardinalityType, FS_EmptySet
  <2>4. QED
    BY <1>1, <2>2, <2>3
<1>3. ASSUME NEW i \in S, NEW k \in S, i < k
      PROVE  Cardinality(Below(i)) # Cardinality(Below(k))
  <2>1. Below(i) \in SUBSET Below(k) /\ k \in Below(k) /\ k \notin Below(i)
    <3>1. i \in Nat /\ k \in Nat /\ \A j \in S : j \in Nat
      OBVIOUS
    <3>2. ~(k <= i) /\ k <= k /\ (\A j \in S : j <= i => j <= k)
      BY <1>3, <3>1
    <3>3. QED
      BY <1>3, <3>2
  <2>2. QED
    BY <1>2, <2>1, FS_Subset
<1> DEFINE f == [i \in S |-> Cardinality(Below(i))]
<1>4. \A i, k \in S : i = k \/ i < k \/ k < i
  OBVIOUS
<1>5. f \in [S -> 1 .. Cardinality(S)] /\ (\A i, k \in S : f[i] = f[k] => i = k)
  BY <1>2, <1>3, <1>4
<1>6. \A n \in 1 .. Cardinality(S) : \E i \in S : f[i] = n
  BY <1>5, AllTaken
<1>7. \A n \in 1 .. Cardinality(S) :
        Nth(S, n) \in S /\ Cardinality(Below(Nth(S, n))) = n
  BY <1>6 DEF Nth
<1>8. ASSUME NEW i \in S
      PROVE  \E n \in 1 .. Cardinality(S) : Nth(S, n) = i
  <2>1. PICK n \in 1 .. Cardinality(S) : f[i] = n
    BY <1>5
  <2>2. f[Nth(S, n)] = n /\ Nth(S, n) \in S
    BY <1>7
  <2>3. QED
    BY <1>5, <2>1, <2>2
<1>9. QED
  BY <1>1, <1>7, <1>8

(* The sort leaves every record in the table, and none before a smaller    *)
(* one.                                                                    *)
Rearranged(rs, at, t) ==
  /\ \A n \in DOMAIN rs : at[n] \in DOMAIN rs /\ t[n] = rs[at[n]]
  /\ \A i \in DOMAIN rs : \E n \in DOMAIN rs : at[n] = i
LEMMA Sorted ==
  ASSUME NEW rs, IsList(rs), \A i \in DOMAIN rs : rs[i].usr \in Int
  PROVE  /\ IsList(SortRecords(rs)) /\ ToSet(SortRecords(rs)) = ToSet(rs)
         /\ DOMAIN SortRecords(rs) = DOMAIN rs
         /\ \E at : Rearranged(rs, at, SortRecords(rs))
         /\ \A n, m \in DOMAIN rs :
              n < m => SortRecords(rs)[n].usr <= SortRecords(rs)[m].usr
<1> DEFINE S == DOMAIN rs
           Ahead(j, i) == rs[j].usr < rs[i].usr \/ (rs[j].usr = rs[i].usr /\ j <= i)
           Before(i) == {j \in S : Ahead(j, i)}
           at == [n \in S |-> CHOOSE i \in S : Place(rs, i) = n]
<1>1. Len(rs) \in Nat /\ S = 1 .. Len(rs)
  BY ListLength
<1>2. IsFiniteSet(S) /\ Cardinality(S) = Len(rs)
  BY <1>1, FS_Interval
<1>3. \A i \in S : Place(rs, i) = Cardinality(Before(i))
  BY DEF Place
<1>4. ASSUME NEW i \in S
      PROVE  /\ IsFiniteSet(Before(i)) /\ Cardinality(Before(i)) \in Nat
             /\ Cardinality(Before(i)) \in 1 .. Len(rs)
  <2>1. Before(i) \in SUBSET S /\ i \in Before(i)
    BY <1>1
  <2>2. IsFiniteSet(Before(i)) /\ Cardinality(Before(i)) <= Len(rs)
    BY <1>2, <2>1, FS_Subset
  <2>3. Cardinality(Before(i)) \in Nat /\ Cardinality(Before(i)) # 0
    BY <2>1, <2>2, FS_CardinalityType, FS_EmptySet
  <2>4. QED
    BY <1>1, <2>2, <2>3
<1>5. ASSUME NEW i \in S, NEW k \in S, ~Ahead(k, i)
      PROVE  Cardinality(Before(i)) < Cardinality(Before(k))
  <2>1. \A j \in S : Ahead(j, i) => Ahead(j, k)
    BY <1>1, <1>5
  <2>2. Ahead(k, k)
    BY <1>1
  <2>3. Before(i) \in SUBSET Before(k) /\ k \in Before(k) /\ k \notin Before(i)
    BY <1>5, <2>1, <2>2
  <2>4. Cardinality(Before(i)) <= Cardinality(Before(k)) /\ Before(i) # Before(k)
    BY <1>4, <2>3, FS_Subset
  <2>5. Cardinality(Before(i)) # Cardinality(Before(k))
    BY <1>4, <2>3, FS_Subset
  <2>6. Cardinality(Before(i)) \in Nat /\ Cardinality(Before(k)) \in Nat
    BY <1>4
  <2>7. QED
    BY <2>4, <2>5, <2>6
<1>6. \A i, k \in S : Ahead(k, i) /\ Ahead(i, k) => i = k
  BY <1>1
<1> HIDE DEF Before, Ahead
<1> DEFINE f == [i \in S |-> Cardinality(Before(i))]
<1>7. \A i \in S : f[i] \in 1 .. Cardinality(S)
  BY <1>1, <1>2, <1>4
<1>8. ASSUME NEW i \in S, NEW k \in S, f[i] = f[k]
      PROVE  i = k
  <2>1. f[i] = Cardinality(Before(i)) /\ f[k] = Cardinality(Before(k))
    OBVIOUS
  <2>2. Cardinality(Before(i)) \in Nat /\ Cardinality(Before(k)) \in Nat
    BY <1>4
  <2>3. Ahead(k, i) /\ Ahead(i, k)
    BY <1>5, <1>8, <2>1, <2>2
  <2>4. QED
    BY <1>6, <2>3
<1>9. \A n \in S : \E i \in S : Place(rs, i) = n
  <2>1. f \in [S -> 1 .. Cardinality(S)]
    BY <1>7
  <2>2. \A n \in 1 .. Cardinality(S) : \E i \in S : f[i] = n
    BY <1>2, <1>8, <2>1, AllTaken
  <2>3. QED
    BY <1>1, <1>2, <1>3, <2>2
<1>10. \A n \in S : at[n] \in S /\ Place(rs, at[n]) = n
  BY <1>9
<1>11. \A i \in S : Place(rs, i) \in S /\ at[Place(rs, i)] = i
  <2>1. \A i, k \in S : Place(rs, i) = Place(rs, k) => i = k
    BY <1>3, <1>8
  <2>2. \A i \in S : Place(rs, i) \in S
    BY <1>3, <1>4
  <2>3. QED
    BY <1>10, <2>1, <2>2
<1>12. at \in [S -> S] /\ \A n \in S : SortRecords(rs)[n] = rs[at[n]]
  BY <1>10 DEF SortRecords
<1> HIDE DEF at
<1>13. /\ SortRecords(rs) = [n \in 1 .. Len(rs) |-> SortRecords(rs)[n]]
       /\ DOMAIN SortRecords(rs) = S
  BY <1>1 DEF SortRecords
<1>14. IsList(SortRecords(rs))
  BY <1>1, <1>13, ListFrom
<1>15. ToSet(SortRecords(rs)) = ToSet(rs)
  <2>1. ASSUME NEW i \in S
        PROVE  \E n \in S : SortRecords(rs)[n] = rs[i]
    <3>1. PICK n \in S : at[n] = i
      BY <1>11
    <3>2. QED
      BY <1>12, <3>1
  <2>2. \A n \in S : at[n] \in S /\ SortRecords(rs)[n] = rs[at[n]]
    BY <1>12
  <2>3. QED
    <3>1. ToSet(rs) = {rs[i] : i \in S}
      BY DEF ToSet
    <3>2. ToSet(SortRecords(rs)) = {SortRecords(rs)[n] : n \in S}
      BY <1>13 DEF ToSet
    <3>3. ToSet(rs) \subseteq ToSet(SortRecords(rs))
      BY <2>1, <3>1, <3>2
    <3>4. ToSet(SortRecords(rs)) \subseteq ToSet(rs)
      BY <2>2, <3>1, <3>2
    <3>5. QED
      BY <3>3, <3>4
<1>16. ASSUME NEW n \in S, NEW m \in S, n < m
       PROVE  rs[at[n]].usr <= rs[at[m]].usr
  <2>1. Cardinality(Before(at[n])) = n /\ Cardinality(Before(at[m])) = m
    BY <1>3, <1>10
  <2>2. n \in Nat /\ m \in Nat
    BY <1>1
  <2>3. Ahead(at[n], at[m])
    BY <1>5, <1>10, <1>16, <2>1, <2>2
  <2>4. rs[at[n]].usr \in Int /\ rs[at[m]].usr \in Int
    BY <1>10
  <2>5. QED
    BY <2>3, <2>4 DEF Ahead
<1>17. \A i \in S : \E n \in S : at[n] = i
  BY <1>11
<1>18. \A n, m \in S : n < m => SortRecords(rs)[n].usr <= SortRecords(rs)[m].usr
  BY <1>12, <1>16
<1>19. Rearranged(rs, at, SortRecords(rs))
  BY <1>12, <1>17 DEF Rearranged
<1>20. QED
  BY <1>13, <1>14, <1>15, <1>18, <1>19

-----------------------------------------------------------------------------
(* The inductive invariant.                                                *)

SnapshotStages == {"manifests", "semantics", "open", "write"}
CompareStages == {"load", "compare"}
Space == Command.workspace

(* What runs, and on what.                                                 *)
ScriptInv ==
  /\ IsList(script) /\ script # <<>>
  /\ \A n \in DOMAIN script : IsCommand(script[n], DOMAIN files)
  /\ DOMAIN made = DOMAIN files
  /\ stage \in {"start", "end", "ended"} \cup SnapshotStages \cup CompareStages
  /\ stage \in SnapshotStages => Command.is = "snapshot"
  /\ stage \in CompareStages => Command.is = "compare" /\ status = Trouble

Distinct(rs) == \A i, k \in DOMAIN rs : rs[i].usr = rs[k].usr => i = k

(* The records while manifests are read: the rows of those before.         *)
TheRow(j, k) == FromRow(Manifests[j], Manifests[j].rows[k])
RowsApart(n) ==
  \A j, h \in 1 .. n : \A k \in Apis(Manifests[j]), l \in Apis(Manifests[h]) :
    TheRow(j, k).usr = TheRow(h, l).usr => j = h /\ k = l
ManifestsInv ==
  stage = "manifests" =>
    /\ ~err /\ pending = Space.facts
    /\ position \in 0 .. Len(Manifests) /\ IsList(records)
    /\ \A j \in 1 .. position : Legible(Manifests[j])
    /\ \A i \in DOMAIN records : \E j \in 1 .. position :
         \E k \in Apis(Manifests[j]) : records[i] = TheRow(j, k)
    /\ \A j \in 1 .. position : \A k \in Apis(Manifests[j]) :
         \E i \in DOMAIN records : records[i] = TheRow(j, k)
    /\ Distinct(records) => RowsApart(position)

(* The records while facts are read: a row with what has been said of it,  *)
(* or a value that has been announced; nothing that was said is forgotten. *)
Heard == Space.facts \ pending
OfRow(b, r) ==
  /\ r = [b EXCEPT !.signature = r.signature, !.ownership = r.ownership]
  /\ r.signature \in {NoText} \cup Said(Space, "function", b.usr)
  /\ r.ownership \in {"-"} \cup Said(Space, "role", b.usr)
IsRow(r) == \E b \in Rows(Space) : OfRow(b, r)
IsValue(f) == f.is = "value" /\ f.public
OfValue(r) == \E f \in Space.facts : IsValue(f) /\ r = FromNote(f)
RecordsInv ==
  /\ IsList(records)
  /\ \A j \in DOMAIN Manifests : Legible(Manifests[j])
  /\ \A i \in DOMAIN records : IsRow(records[i]) \/ OfValue(records[i])
  /\ \A b \in Rows(Space) : \E i \in DOMAIN records : OfRow(b, records[i])
  /\ Distinct(records) => RowsApart(Len(Manifests))
TypeHeard(f) ==
  \A b \in Rows(Space) : b.usr = f.usr =>
    \E i \in DOMAIN records : records[i].usr = f.usr /\ records[i].signature = f.text
RoleHeard(f) ==
  \A b \in Rows(Space) : b.usr = f.usr =>
    \E i \in DOMAIN records : records[i].usr = f.usr /\ records[i].ownership = f.text
ValueHeard(f) ==
  \E i \in DOMAIN records :
    records[i].usr = f.usr /\ records[i].signature = f.text /\ records[i].kind = f.kind
FactsInv ==
  stage = "semantics" =>
    /\ RecordsInv
    /\ pending \subseteq Space.facts
    /\ ~err => \A f \in Heard :
         /\ f.is = "function" /\ f.public => TypeHeard(f)
         /\ f.is = "role" /\ f.public => RoleHeard(f)
         /\ IsValue(f) => ValueHeard(f)

(* What is written, and what a file is known to be.                        *)
IsSurface(rs, w) ==
  /\ IsList(rs) /\ Complete(rs) /\ Distinct(rs)
  /\ Consistent(w) /\ Covers(rs, w) /\ Ascending(rs)
ReadyInv ==
  /\ stage \in {"open", "write"} => pending = {} /\ IsSurface(records, Space)
  /\ stage = "write" => made[Command.output] = Unknown
MadeInv ==
  \A f \in DOMAIN files : made[f] # Unknown =>
    /\ IsSurface(files[f].records, made[f])
    /\ files[f] = File(4, files[f].records, FALSE)

(* What a comparison has found.                                            *)
KnownBoth == Unknown \notin {made[Command.old], made[Command.new]}
FindingsOf(n) ==
  UNION {{<<records[k].usr, b>> : b \in Broken(records[k], current)} : k \in 1 .. n}
Lost(old, new) ==
  {r.usr : r \in {o \in ToSet(old) : \A q \in ToSet(new) : ~Keeps(o, q)}}
CompareInv ==
  /\ stage = "load" => position = 0 /\ findings = {}
  /\ stage = "compare" =>
       /\ position \in Nat
       /\ KnownBoth =>
            /\ records = files[Command.old].records
            /\ current = files[Command.new].records
            /\ position <= Len(records) /\ findings = FindingsOf(position)
  /\ stage \in {"end", "ended"} /\ Command.is = "compare" /\ status # Trouble =>
       /\ (status = Success) <=> (findings = {})
       /\ KnownBoth =>
            {f[1] : f \in findings} =
              Lost(files[Command.old].records, files[Command.new].records)

LEMMA CommandIs ==
  ASSUME ScriptInv
  PROVE  IsCommand(Command, DOMAIN files)
<1>1. Len(script) \in Nat /\ DOMAIN script = 1 .. Len(script) /\ script # <<>>
  BY ListLength DEF ScriptInv
<1>2. 1 \in DOMAIN script /\ Head(script) = script[1]
  BY <1>1 DEF ScriptInv, IsList
<1>3. QED
  BY <1>2 DEF ScriptInv, Command

LEMMA ScriptInit == Init => ScriptInv
<1> SUFFICES ASSUME Init PROVE ScriptInv
  OBVIOUS
<1>1. script \in InputScripts /\ files \in InputFiles /\ stage = "start"
  BY DEF Init
<1>2. DOMAIN made = DOMAIN files
  BY DEF Init
<1>3. QED
  BY <1>1, <1>2, ScriptAssumption DEF ScriptInv, SnapshotStages, CompareStages

(* While a command runs the script stays; the files keep their names.      *)
LEMMA NamesStay ==
  ASSUME [Next]_vars
  PROVE  DOMAIN files' = DOMAIN files /\ (DOMAIN made = DOMAIN files => DOMAIN made' = DOMAIN files)
<1>1. CASE UNCHANGED <<files, made>>
  BY <1>1
<1>2. CASE OpenOutput
  BY <1>2 DEF OpenOutput
<1>3. CASE WriteRecords
  <2>1. \/ UNCHANGED made
        \/ made' = [made EXCEPT ![Command.output] = Command.workspace]
    BY <1>3 DEF WriteRecords
  <2>2. \E v : files' = [files EXCEPT ![Command.output] = v]
    BY <1>3, Zenon DEF WriteRecords
  <2>3. QED
    BY <2>1, <2>2
<1>4. QED
  BY <1>1, <1>2, <1>3
  DEF Next, Run, Done, vars, Start, LoadManifest, ManifestsEnd, SnapshotFails, FailsHere,
      ReadFact, SemanticsEnd, LoadSnapshots, LoadFails, CompareRecord, CompareEnds, Exit,
      NextCommand

(* Where each action leads.                                                *)
Leads(from, to) == stage \in from /\ stage' \in to /\ UNCHANGED script
LEMMA StageStep ==
  ASSUME ScriptInv, Run
  PROVE  \/ NextCommand
         \/ Leads({"start"}, {"end"})
         \/ Leads({"start"}, {"manifests"}) /\ Command.is = "snapshot"
         \/ Leads({"start"}, {"load"}) /\ Command.is = "compare" /\ status' = Trouble
         \/ Leads(SnapshotStages, SnapshotStages \cup {"end"})
         \/ Leads(CompareStages, CompareStages) /\ UNCHANGED status
         \/ Leads(CompareStages, {"end"})
         \/ Leads({"end"}, {"ended"})
<1>1. ASSUME Start PROVE \/ Leads({"start"}, {"end"})
                         \/ Leads({"start"}, {"manifests"}) /\ Command.is = "snapshot"
                         \/ /\ Leads({"start"}, {"load"}) /\ Command.is = "compare"
                            /\ status' = Trouble
  BY <1>1, Zenon DEF Start, Leads
<1>2. ASSUME \/ LoadManifest \/ ManifestsEnd \/ SnapshotFails \/ SemanticsEnd
             \/ OpenOutput \/ WriteRecords
      PROVE  Leads(SnapshotStages, SnapshotStages \cup {"end"})
  BY <1>2 DEF LoadManifest, ManifestsEnd, SnapshotFails, SemanticsEnd, OpenOutput,
              WriteRecords, Fails, FailsHere, Leads, SnapshotStages
<1>3. ASSUME ReadFact PROVE Leads(SnapshotStages, SnapshotStages \cup {"end"})
  BY <1>3 DEF ReadFact, Fails, Leads, SnapshotStages
<1>4. ASSUME LoadSnapshots \/ LoadFails \/ CompareRecord \/ CompareEnds
      PROVE  \/ Leads(CompareStages, CompareStages) /\ UNCHANGED status
             \/ Leads(CompareStages, {"end"})
  BY <1>4 DEF LoadSnapshots, LoadFails, CompareRecord, CompareEnds, Fails, FailsHere, Leads,
              CompareStages
<1>5. ASSUME Exit PROVE Leads({"end"}, {"ended"})
  BY <1>5 DEF Exit, Leads
<1>6. QED
  BY <1>1, <1>2, <1>3, <1>4, <1>5, Zenon DEF Run

LEMMA ScriptStep == ScriptInv /\ [Next]_vars => ScriptInv'
<1> SUFFICES ASSUME ScriptInv, [Next]_vars PROVE ScriptInv'
  OBVIOUS
<1>1. CASE UNCHANGED vars
  BY <1>1 DEF vars, ScriptInv, Command
<1>2. CASE NextCommand
  <2>1. script \in Seq(ToSet(script)) /\ Len(script) > 1 /\ script' = Tail(script)
    BY <1>2 DEF NextCommand, ScriptInv, IsList
  <2>2. /\ script' \in Seq(ToSet(script)) /\ script' # <<>>
        /\ \A n \in DOMAIN script' : n + 1 \in DOMAIN script /\ script'[n] = script[n + 1]
    <3>1. PICK S : S = ToSet(script)
      OBVIOUS
    <3>2. script \in Seq(S) /\ Len(script) \in Nat /\ script # <<>>
      BY <2>1, <3>1
    <3>3. /\ Tail(script) \in Seq(S) /\ Len(Tail(script)) = Len(script) - 1
          /\ \A n \in 1 .. Len(script) - 1 : Tail(script)[n] = script[n + 1]
      BY <2>1, <3>2
    <3>4. DOMAIN Tail(script) = 1 .. Len(script) - 1 /\ DOMAIN script = 1 .. Len(script)
      BY <3>2, <3>3
    <3>5. Tail(script) # <<>>
      <4>1. Len(script) - 1 # 0
        BY <2>1, <3>2
      <4>2. Len(Tail(script)) # 0 /\ Len(<<>>) = 0
        BY <3>3, <4>1
      <4>3. QED
        BY <4>2
    <3>6. QED
      BY <2>1, <3>1, <3>2, <3>3, <3>4, <3>5
  <2>3. IsList(script')
    BY <2>2, ListOf
  <2>4. stage' = "start" /\ UNCHANGED <<files, made>>
    BY <1>2 DEF NextCommand
  <2>5. QED
    BY <2>2, <2>3, <2>4 DEF ScriptInv, SnapshotStages, CompareStages
<1>3. CASE Run /\ ~NextCommand
  <2>1. /\ UNCHANGED script
        /\ stage' \in {"start", "end", "ended"} \cup SnapshotStages \cup CompareStages
        /\ stage' \in SnapshotStages => Command.is = "snapshot"
        /\ stage' \in CompareStages => Command.is = "compare" /\ status' = Trouble
    BY <1>3, StageStep DEF Leads, ScriptInv, SnapshotStages, CompareStages
  <2>2. Command' = Command
    BY <2>1 DEF Command
  <2>3. DOMAIN files' = DOMAIN files /\ DOMAIN made' = DOMAIN files
    BY NamesStay DEF ScriptInv
  <2>4. QED
    BY <2>1, <2>2, <2>3 DEF ScriptInv
<1>4. QED
  BY <1>1, <1>2, <1>3 DEF Next, Done

-----------------------------------------------------------------------------
(* Reading the manifests.                                                  *)

LEMMA RowsOfManifest ==
  ASSUME NEW m, IsList(m.rows)
  PROVE  /\ IsList(RowsOf(m))
         /\ \E at : /\ \A n \in DOMAIN RowsOf(m) :
                         at[n] \in Apis(m) /\ RowsOf(m)[n] = FromRow(m, m.rows[at[n]])
                    /\ \A k \in Apis(m) : \E n \in DOMAIN RowsOf(m) : at[n] = k
<1>1. Len(m.rows) \in Nat /\ DOMAIN m.rows = 1 .. Len(m.rows)
  BY ListLength
<1>2. Apis(m) \in SUBSET (1 .. Len(m.rows)) /\ Apis(m) \in SUBSET Nat
  BY <1>1 DEF Apis
<1>3. IsFiniteSet(1 .. Len(m.rows))
  BY <1>1, FS_Interval
<1>4. IsFiniteSet(Apis(m))
  BY <1>2, <1>3, FS_Subset
<1> DEFINE c == Cardinality(Apis(m))
           at == [n \in 1 .. c |-> Nth(Apis(m), n)]
<1>5. /\ c \in Nat
      /\ \A n \in 1 .. c : Nth(Apis(m), n) \in Apis(m)
      /\ \A k \in Apis(m) : \E n \in 1 .. c : Nth(Apis(m), n) = k
  BY <1>2, <1>4, Nths
<1>6. RowsOf(m) = [n \in 1 .. c |-> RowsOf(m)[n]]
  BY DEF RowsOf
<1>7. IsList(RowsOf(m)) /\ DOMAIN RowsOf(m) = 1 .. c
  BY <1>5, <1>6, ListFrom
<1>8. \A n \in 1 .. c :
        at[n] \in Apis(m) /\ RowsOf(m)[n] = FromRow(m, m.rows[at[n]])
  BY <1>5 DEF RowsOf
<1>9. \A k \in Apis(m) : \E n \in 1 .. c : at[n] = k
  BY <1>5
<1> HIDE DEF at
<1>10. QED
  BY <1>7, <1>8, <1>9

LEMMA ManifestIs ==
  ASSUME ScriptInv, stage \in SnapshotStages
  PROVE  /\ Len(Manifests) \in Nat /\ DOMAIN Manifests = 1 .. Len(Manifests)
         /\ \A j \in DOMAIN Manifests :
              /\ Manifests[j] \in ToSet(Manifests) /\ IsList(Manifests[j].rows)
              /\ \A k \in Apis(Manifests[j]) : TheRow(j, k).usr \in Int
<1>1. IsWorkspace(Space)
  BY CommandIs DEF IsCommand, ScriptInv, Space
<1>2. /\ Len(Manifests) \in Nat /\ DOMAIN Manifests = 1 .. Len(Manifests)
      /\ \A j \in DOMAIN Manifests : Manifests[j] \in ToSet(Manifests)
  BY <1>1, ListLength DEF IsWorkspace, Space, Manifests
<1>3. \A m \in ToSet(Manifests) :
        IsList(m.rows) /\ \A row \in ToSet(m.rows) : row.is = "api" => row.usr \in Int
  BY <1>1 DEF IsWorkspace, Space, Manifests
<1>4. ASSUME NEW j \in DOMAIN Manifests, NEW k \in Apis(Manifests[j])
      PROVE  TheRow(j, k).usr \in Int
  <2>1. Manifests[j].rows[k] \in ToSet(Manifests[j].rows)
    BY DEF Apis, ToSet
  <2>2. Manifests[j].rows[k].usr \in Int
    BY <1>2, <1>3, <2>1 DEF Apis
  <2>3. QED
    BY <2>2 DEF TheRow, FromRow
<1>5. QED
  BY <1>2, <1>3, <1>4

(* The rows of one more manifest follow those of the manifests before.     *)
LEMMA RowsJoined ==
  ASSUME ScriptInv, ManifestsInv, LoadManifest
  PROVE  /\ IsList(records')
         /\ \A i \in DOMAIN records' : \E j \in 1 .. position + 1 :
              \E k \in Apis(Manifests[j]) : records'[i] = TheRow(j, k)
         /\ \A j \in 1 .. position + 1 : \A k \in Apis(Manifests[j]) :
              \E i \in DOMAIN records' : records'[i] = TheRow(j, k)
         /\ Distinct(records') => RowsApart(position + 1)
<1> DEFINE m == Manifests[position + 1]
           more == RowsOf(m)
<1>1. /\ stage = "manifests" /\ position < Len(Manifests) /\ records' = records \o more
  BY DEF LoadManifest
<1>2. /\ position \in Nat /\ position + 1 \in DOMAIN Manifests /\ IsList(records)
      /\ Len(records) \in Nat /\ DOMAIN records = 1 .. Len(records)
  BY <1>1, ManifestIs, ListLength DEF ManifestsInv, SnapshotStages
<1>3. IsList(more)
  BY <1>1, <1>2, ManifestIs, RowsOfManifest DEF SnapshotStages
<1>4. PICK at : /\ \A n \in DOMAIN more :
                     at[n] \in Apis(m) /\ more[n] = FromRow(m, m.rows[at[n]])
                /\ \A k \in Apis(m) : \E n \in DOMAIN more : at[n] = k
  BY <1>1, <1>2, ManifestIs, RowsOfManifest DEF SnapshotStages
<1>5. Len(more) \in Nat /\ DOMAIN more = 1 .. Len(more)
  BY <1>3, ListLength
<1> HIDE DEF more
<1>6. /\ IsList(records')
      /\ \A i \in DOMAIN records : i \in DOMAIN records' /\ records'[i] = records[i]
      /\ \A n \in DOMAIN more :
           Len(records) + n \in DOMAIN records' /\ records'[Len(records) + n] = more[n]
      /\ \A i \in DOMAIN records' :
           i \in DOMAIN records \/ \E n \in DOMAIN more : i = Len(records) + n
  <2>1. PICK joined : joined = records \o more
    OBVIOUS
  <2>2. /\ IsList(joined)
        /\ \A i \in DOMAIN records : i \in DOMAIN joined /\ joined[i] = records[i]
        /\ \A n \in DOMAIN more :
             Len(records) + n \in DOMAIN joined /\ joined[Len(records) + n] = more[n]
        /\ \A i \in DOMAIN joined :
             i \in DOMAIN records \/ \E n \in DOMAIN more : i = Len(records) + n
    <3>1. IsList(records) /\ IsList(more) /\ joined = records \o more
      BY <1>2, <1>3, <2>1
    <3>2. IsList(joined)
      BY <3>1, ListJoined
    <3>3. \A i \in DOMAIN records : i \in DOMAIN joined /\ joined[i] = records[i]
      BY <3>1, ListJoined
    <3>4. \A n \in DOMAIN more :
             Len(records) + n \in DOMAIN joined /\ joined[Len(records) + n] = more[n]
      BY <3>1, ListJoined
    <3>5. \A i \in DOMAIN joined :
             i \in DOMAIN records \/ \E n \in DOMAIN more : i = Len(records) + n
      BY <3>1, ListJoined
    <3>6. QED
      BY <3>2, <3>3, <3>4, <3>5
  <2>3. records' = joined
    BY <1>1, <2>1
  <2>4. QED
    BY <2>2, <2>3
<1>7. \A k \in Apis(m) : FromRow(m, m.rows[k]) = TheRow(position + 1, k)
  BY DEF TheRow
<1>8. ASSUME NEW i \in DOMAIN records'
      PROVE  \E j \in 1 .. position + 1 : \E k \in Apis(Manifests[j]) :
               records'[i] = TheRow(j, k)
  <2>1. CASE i \in DOMAIN records
    <3>1. PICK j \in 1 .. position : \E k \in Apis(Manifests[j]) : records[i] = TheRow(j, k)
      BY <1>1, <2>1 DEF ManifestsInv
    <3>2. j \in 1 .. position + 1 /\ records'[i] = records[i]
      BY <1>2, <1>6, <2>1
    <3>3. QED
      BY <3>1, <3>2
  <2>2. CASE \E n \in DOMAIN more : i = Len(records) + n
    <3>1. PICK n \in DOMAIN more : i = Len(records) + n
      BY <2>2
    <3>2. at[n] \in Apis(m) /\ records'[i] = TheRow(position + 1, at[n])
      BY <1>4, <1>6, <1>7, <3>1
    <3>3. position + 1 \in 1 .. position + 1
      BY <1>2
    <3>4. QED
      BY <3>2, <3>3
  <2>3. QED
    BY <1>6, <2>1, <2>2
<1>9. ASSUME NEW k \in Apis(m)
      PROVE  \E n \in DOMAIN more : records'[Len(records) + n] = TheRow(position + 1, k)
                                    /\ at[n] = k /\ Len(records) + n \in DOMAIN records'
  BY <1>4, <1>6, <1>7
<1>10. ASSUME NEW j \in 1 .. position, NEW k \in Apis(Manifests[j])
       PROVE  \E i \in DOMAIN records : records'[i] = TheRow(j, k) /\ i \in DOMAIN records'
  <2>1. PICK i \in DOMAIN records : records[i] = TheRow(j, k)
    BY <1>1, <1>10 DEF ManifestsInv
  <2>2. QED
    BY <1>6, <2>1
<1>11. \A j \in 1 .. position + 1 : j \in 1 .. position \/ j = position + 1
  BY <1>2
<1>12. ASSUME NEW j \in 1 .. position + 1, NEW k \in Apis(Manifests[j])
       PROVE  \E i \in DOMAIN records' : records'[i] = TheRow(j, k)
  <2>1. CASE j \in 1 .. position
    BY <1>10, <1>12, <2>1
  <2>2. CASE j = position + 1
    BY <1>9, <1>12, <2>2
  <2>3. QED
    BY <1>11, <2>1, <2>2
<1>13. ASSUME Distinct(records') PROVE RowsApart(position)
  <2>1. Distinct(records)
    BY <1>6, <1>13 DEF Distinct
  <2>2. QED
    BY <1>1, <2>1 DEF ManifestsInv
<1>14. ASSUME Distinct(records'), NEW j \in 1 .. position, NEW k \in Apis(Manifests[j]),
              NEW l \in Apis(m)
       PROVE  TheRow(j, k).usr # TheRow(position + 1, l).usr
  <2>1. PICK i \in DOMAIN records : records'[i] = TheRow(j, k) /\ i \in DOMAIN records'
    BY <1>10
  <2>2. PICK n \in DOMAIN more : records'[Len(records) + n] = TheRow(position + 1, l)
                                 /\ Len(records) + n \in DOMAIN records'
    BY <1>9
  <2>3. i # Len(records) + n
    BY <1>2, <1>5, <2>1, <2>2
  <2>4. QED
    BY <1>14, <2>1, <2>2, <2>3 DEF Distinct
<1>15. ASSUME Distinct(records'), NEW k \in Apis(m), NEW l \in Apis(m),
              TheRow(position + 1, k).usr = TheRow(position + 1, l).usr
       PROVE  k = l
  <2>1. PICK n \in DOMAIN more : records'[Len(records) + n] = TheRow(position + 1, k)
                                 /\ at[n] = k /\ Len(records) + n \in DOMAIN records'
    BY <1>9
  <2>2. PICK p \in DOMAIN more : records'[Len(records) + p] = TheRow(position + 1, l)
                                 /\ at[p] = l /\ Len(records) + p \in DOMAIN records'
    BY <1>9
  <2>3. Len(records) + n = Len(records) + p
    BY <1>15, <2>1, <2>2 DEF Distinct
  <2>4. n = p
    BY <1>2, <1>5, <2>3
  <2>5. QED
    BY <2>1, <2>2, <2>4
<1>16. ASSUME Distinct(records') PROVE RowsApart(position + 1)
  <2>1. SUFFICES ASSUME NEW j \in 1 .. position + 1, NEW h \in 1 .. position + 1,
                        NEW k \in Apis(Manifests[j]), NEW l \in Apis(Manifests[h]),
                        TheRow(j, k).usr = TheRow(h, l).usr
                 PROVE  j = h /\ k = l
    BY DEF RowsApart
  <2>2. CASE j \in 1 .. position /\ h \in 1 .. position
    BY <1>13, <1>16, <2>1, <2>2 DEF RowsApart
  <2>3. CASE j \in 1 .. position /\ h = position + 1
    BY <1>14, <1>16, <2>1, <2>3
  <2>4. CASE j = position + 1 /\ h \in 1 .. position
    BY <1>14, <1>16, <2>1, <2>4
  <2>5. CASE j = position + 1 /\ h = position + 1
    BY <1>15, <1>16, <2>1, <2>5
  <2>6. QED
    BY <1>11, <2>2, <2>3, <2>4, <2>5
<1>17. QED
  BY <1>6, <1>8, <1>12, <1>16

LEMMA SameCommand ==
  ASSUME UNCHANGED script
  PROVE  /\ Command' = Command /\ Manifests' = Manifests /\ Space' = Space
         /\ \A j, k : TheRow(j, k)' = TheRow(j, k)
         /\ \A n : RowsApart(n)' = RowsApart(n)
         /\ \A w, is, usr : Said(w, is, usr)' = Said(w, is, usr)
         /\ \A b, r : OfRow(b, r)' = OfRow(b, r)
<1>1. Command' = Command /\ Manifests' = Manifests /\ Space' = Space
  BY DEF Command, Manifests, Space
<1>2. \A j, k : TheRow(j, k)' = TheRow(j, k)
  BY <1>1 DEF TheRow
<1>3. \A n : RowsApart(n)' = RowsApart(n)
  BY <1>1, <1>2 DEF RowsApart
<1>4. \A b, r : OfRow(b, r)' = OfRow(b, r)
  BY <1>1 DEF OfRow
<1>5. QED
  BY <1>1, <1>2, <1>3, <1>4

LEMMA NoneRead == IsList(<<>>) /\ DOMAIN <<>> = {} /\ ToSet(<<>>) = {}
BY DEF IsList, ToSet

LEMMA ManifestsStep == ScriptInv /\ ManifestsInv /\ [Next]_vars => ManifestsInv'
<1> SUFFICES ASSUME ScriptInv, ManifestsInv, [Next]_vars, stage' = "manifests"
             PROVE  ManifestsInv'
  BY DEF ManifestsInv
<1>1. CASE UNCHANGED vars
  BY <1>1, SameCommand DEF vars, process, ManifestsInv, Distinct
<1>2. CASE Start
  <2>1. /\ UNCHANGED script /\ Command.is = "snapshot" /\ pending' = Space.facts
        /\ position' = 0 /\ records' = <<>> /\ ~err'
    BY <1>2 DEF Start, Space
  <2>2. Len(Manifests) \in Nat
    <3>1. IsWorkspace(Space)
      BY <2>1, CommandIs DEF IsCommand, Space
    <3>2. QED
      BY <3>1, ListLength DEF IsWorkspace, Space, Manifests
  <2>3. 0 \in 0 .. Len(Manifests) /\ 1 .. 0 = {}
    BY <2>2
  <2>4. RowsApart(0)
    BY <2>3 DEF RowsApart
  <2>5. QED
    BY <2>1, <2>3, <2>4, NoneRead, SameCommand DEF ManifestsInv
<1>3. CASE LoadManifest
  <2>1. /\ stage = "manifests" /\ position < Len(Manifests)
        /\ Legible(Manifests[position + 1]) /\ position' = position + 1
        /\ UNCHANGED <<script, pending, err>>
    BY <1>3 DEF LoadManifest
  <2>2. position \in 0 .. Len(Manifests) /\ Len(Manifests) \in Nat
    BY <2>1, ManifestIs DEF ManifestsInv, SnapshotStages
  <2>3. position' \in 0 .. Len(Manifests) /\ ~err' /\ pending' = Space.facts
    BY <2>1, <2>2 DEF ManifestsInv
  <2>4. \A j \in 1 .. position' : Legible(Manifests[j])
    <3>1. \A j \in 1 .. position + 1 : j \in 1 .. position \/ j = position + 1
      BY <2>2
    <3>2. QED
      BY <2>1, <3>1 DEF ManifestsInv
  <2>5. /\ IsList(records')
        /\ \A i \in DOMAIN records' : \E j \in 1 .. position' :
             \E k \in Apis(Manifests[j]) : records'[i] = TheRow(j, k)
        /\ \A j \in 1 .. position' : \A k \in Apis(Manifests[j]) :
             \E i \in DOMAIN records' : records'[i] = TheRow(j, k)
        /\ Distinct(records') => RowsApart(position')
    BY <1>3, <2>1, RowsJoined
  <2>6. QED
    BY <2>1, <2>3, <2>4, <2>5, SameCommand DEF ManifestsInv, Distinct
<1>4. CASE Run /\ ~Start /\ ~LoadManifest
  BY <1>4
  DEF Run, ManifestsEnd, SnapshotFails, FailsHere, Fails, ReadFact, SemanticsEnd,
      OpenOutput, WriteRecords, LoadSnapshots, LoadFails, CompareRecord, CompareEnds,
      Exit, NextCommand
<1>5. QED
  BY <1>1, <1>2, <1>3, <1>4 DEF Next, Done

-----------------------------------------------------------------------------
(* Reading the facts.                                                      *)

LEMMA RowsAre ==
  \A b : b \in Rows(Space) <=>
    \E j \in DOMAIN Manifests : \E k \in Apis(Manifests[j]) : b = TheRow(j, k)
<1>1. ASSUME NEW j \in DOMAIN Manifests, NEW k \in Apis(Manifests[j])
      PROVE  TheRow(j, k) \in Rows(Space)
  <2>1. Manifests[j] \in ToSet(Space.manifests)
    BY DEF ToSet, Manifests, Space
  <2>2. Manifests[j].rows[k] \in {x \in ToSet(Manifests[j].rows) : x.is = "api"}
    BY DEF ToSet, Apis
  <2>3. QED
    BY <2>1, <2>2 DEF Rows, TheRow
<1>2. ASSUME NEW b \in Rows(Space)
      PROVE  \E j \in DOMAIN Manifests : \E k \in Apis(Manifests[j]) : b = TheRow(j, k)
  <2>1. PICK m \in ToSet(Space.manifests) :
          b \in {FromRow(m, row) : row \in {x \in ToSet(m.rows) : x.is = "api"}}
    BY DEF Rows
  <2>2. PICK row \in ToSet(m.rows) : row.is = "api" /\ b = FromRow(m, row)
    BY <2>1
  <2>3. PICK j \in DOMAIN Manifests : m = Manifests[j]
    BY <2>1 DEF ToSet, Manifests, Space
  <2>4. PICK k \in DOMAIN m.rows : row = m.rows[k]
    BY <2>2 DEF ToSet
  <2>5. k \in Apis(Manifests[j]) /\ b = TheRow(j, k)
    BY <2>2, <2>3, <2>4 DEF Apis, TheRow
  <2>6. QED
    BY <2>5
<1>3. QED
  BY <1>1, <1>2

(* A row as it is read says nothing of what the facts will say.            *)
LEMMA RowIs ==
  ASSUME NEW b \in Rows(Space)
  PROVE  /\ b = [usr |-> b.usr, library |-> b.library, header |-> b.header,
                 platforms |-> b.platforms, signature |-> NoText, ownership |-> "-",
                 kind |-> "function"]
         /\ OfRow(b, b)
<1>1. PICK j \in DOMAIN Manifests : \E k \in Apis(Manifests[j]) : b = TheRow(j, k)
  BY RowsAre
<1>2. /\ b = [usr |-> b.usr, library |-> b.library, header |-> b.header,
              platforms |-> b.platforms, signature |-> NoText, ownership |-> "-",
              kind |-> "function"]
  BY <1>1 DEF TheRow, FromRow
<1>3. b.signature = NoText /\ b.ownership = "-"
  BY <1>2
<1>4. b = [b EXCEPT !.signature = b.signature, !.ownership = b.ownership]
  BY <1>2
<1>5. QED
  BY <1>2, <1>3, <1>4 DEF OfRow

LEMMA ManifestsRead ==
  ASSUME ScriptInv, ManifestsInv, ManifestsEnd
  PROVE  RecordsInv /\ Heard = {}
<1>1. /\ stage = "manifests" /\ position = Len(Manifests)
      /\ DOMAIN Manifests = 1 .. Len(Manifests)
  BY ManifestIs DEF ManifestsEnd, SnapshotStages
<1>2. ASSUME NEW i \in DOMAIN records PROVE IsRow(records[i])
  <2>1. PICK j \in DOMAIN Manifests : \E k \in Apis(Manifests[j]) : records[i] = TheRow(j, k)
    BY <1>1 DEF ManifestsInv
  <2>2. records[i] \in Rows(Space)
    BY <2>1, RowsAre
  <2>3. QED
    BY <2>2, RowIs DEF IsRow
<1>3. ASSUME NEW b \in Rows(Space) PROVE \E i \in DOMAIN records : OfRow(b, records[i])
  <2>1. PICK j \in DOMAIN Manifests : \E k \in Apis(Manifests[j]) : b = TheRow(j, k)
    BY RowsAre
  <2>2. PICK i \in DOMAIN records : records[i] = b
    BY <1>1, <2>1 DEF ManifestsInv
  <2>3. QED
    BY <2>2, RowIs
<1>4. QED
  BY <1>1, <1>2, <1>3 DEF RecordsInv, ManifestsInv, Heard

(* The first record of an identity that is known is one of that identity.  *)
LEMMA FoundIs ==
  ASSUME NEW rs, IsList(rs), NEW usr, Known(rs, usr)
  PROVE  Found(rs, usr) \in DOMAIN rs /\ rs[Found(rs, usr)].usr = usr
<1> DEFINE S == {i \in DOMAIN rs : rs[i].usr = usr}
<1>1. S \in SUBSET Nat /\ S # {}
  <2>1. Len(rs) \in Nat /\ DOMAIN rs = 1 .. Len(rs)
    BY ListLength
  <2>2. QED
    BY <2>1 DEF Known
<1>2. \E i \in S : \A j \in S : i <= j
  BY <1>1, LeastMember
<1>3. QED
  BY <1>2, Zenon DEF Found

LEMMA FactIs ==
  ASSUME ScriptInv, stage \in SnapshotStages, NEW f \in Space.facts
  PROVE  /\ f.is = "function" => f.text # NoText
         /\ f.is = "role" => f.text # "-"
         /\ f.is = "value" => f.usr \in Int /\ f.kind # "function"
         /\ \A g \in Space.facts : g.is = "value" /\ f.usr = g.usr =>
              f.is # "role" /\ (f.is = "function" => g.text # NoText)
<1>1. IsWorkspace(Space)
  BY CommandIs DEF IsCommand, ScriptInv, Space
<1>2. QED
  BY <1>1 DEF IsWorkspace

LEMMA RecordIs ==
  ASSUME ScriptInv, stage \in SnapshotStages, RecordsInv, NEW i \in DOMAIN records
  PROVE  /\ records[i].usr \in Int
         /\ records[i] = [usr |-> records[i].usr, library |-> records[i].library,
                          header |-> records[i].header, platforms |-> records[i].platforms,
                          signature |-> records[i].signature,
                          ownership |-> records[i].ownership, kind |-> records[i].kind]
         /\ IsRow(records[i]) => records[i].kind = "function"
         /\ OfValue(records[i]) => records[i].kind # "function"
<1> PICK r : r = records[i]
  OBVIOUS
<1>1. ASSUME NEW b \in Rows(Space), OfRow(b, r)
      PROVE  /\ r = [usr |-> r.usr, library |-> r.library, header |-> r.header,
                     platforms |-> r.platforms, signature |-> r.signature,
                     ownership |-> r.ownership, kind |-> r.kind]
             /\ r.usr \in Int /\ r.kind = "function"
  <2>1. r = [b EXCEPT !.signature = r.signature, !.ownership = r.ownership]
    BY <1>1 DEF OfRow
  <2>2. r = [usr |-> b.usr, library |-> b.library, header |-> b.header,
             platforms |-> b.platforms, signature |-> r.signature,
             ownership |-> r.ownership, kind |-> "function"]
    <3>1. PICK u, l, h, p : b = [usr |-> u, library |-> l, header |-> h, platforms |-> p,
                                 signature |-> NoText, ownership |-> "-",
                                 kind |-> "function"]
      BY RowIs
    <3>2. PICK s, o : s = r.signature /\ o = r.ownership
      OBVIOUS
    <3>3. r = [b EXCEPT !.signature = s, !.ownership = o]
      BY <2>1, <3>2
    <3>4. r = [usr |-> u, library |-> l, header |-> h, platforms |-> p,
               signature |-> s, ownership |-> o, kind |-> "function"]
      BY <3>1, <3>3
    <3>5. b.usr = u /\ b.library = l /\ b.header = h /\ b.platforms = p
      BY <3>1
    <3>6. QED
      BY <3>2, <3>4, <3>5
  <2>3. b.usr \in Int
    <3>1. PICK j \in DOMAIN Manifests : \E k \in Apis(Manifests[j]) : b = TheRow(j, k)
      BY RowsAre
    <3>2. QED
      BY <3>1, ManifestIs
  <2>4. r.usr = b.usr /\ r.library = b.library /\ r.header = b.header
        /\ r.platforms = b.platforms /\ r.kind = "function"
    BY <2>2
  <2>5. QED
    BY <2>2, <2>3, <2>4
<1>2. ASSUME NEW f \in Space.facts, IsValue(f), r = FromNote(f)
      PROVE  /\ r = [usr |-> r.usr, library |-> r.library, header |-> r.header,
                     platforms |-> r.platforms, signature |-> r.signature,
                     ownership |-> r.ownership, kind |-> r.kind]
             /\ r.usr \in Int /\ r.kind # "function"
  <2>1. f.usr \in Int /\ f.kind # "function"
    BY <1>2, FactIs DEF IsValue
  <2>2. QED
    BY <1>2, <2>1 DEF FromNote
<1>3. QED
  BY <1>1, <1>2, Zenon DEF RecordsInv, IsRow, OfValue

(* What has been said of a record is never taken back.                     *)
OnlyAdds(old, new) ==
  \A n \in DOMAIN old :
    /\ n \in DOMAIN new /\ new[n].usr = old[n].usr /\ new[n].kind = old[n].kind
    /\ \/ new[n].signature = old[n].signature
       \/ old[n].signature = NoText /\ old[n].kind = "function"
    /\ new[n].ownership = old[n].ownership \/ old[n].ownership = "-"
LEMMA HeardStays ==
  ASSUME ScriptInv, stage \in SnapshotStages, OnlyAdds(records, records'),
         UNCHANGED script, NEW f \in Space.facts
  PROVE  /\ f.is = "function" /\ TypeHeard(f) => TypeHeard(f)'
         /\ f.is = "role" /\ RoleHeard(f) => RoleHeard(f)'
         /\ f.is = "value" /\ ValueHeard(f) => ValueHeard(f)'
<1>1. Rows(Space)' = Rows(Space)
  BY SameCommand
<1>2. ASSUME f.is = "function", TypeHeard(f) PROVE TypeHeard(f)'
  <2>1. f.text # NoText
    BY <1>2, FactIs
  <2>2. ASSUME NEW b \in Rows(Space), b.usr = f.usr
        PROVE  \E i \in DOMAIN records' :
                 records'[i].usr = f.usr /\ records'[i].signature = f.text
    <3>1. PICK i \in DOMAIN records : records[i].usr = f.usr /\ records[i].signature = f.text
      BY <1>2, <2>2 DEF TypeHeard
    <3>2. QED
      BY <2>1, <3>1 DEF OnlyAdds
  <2>3. QED
    BY <1>1, <2>2 DEF TypeHeard
<1>3. ASSUME f.is = "role", RoleHeard(f) PROVE RoleHeard(f)'
  <2>1. f.text # "-"
    BY <1>3, FactIs
  <2>2. ASSUME NEW b \in Rows(Space), b.usr = f.usr
        PROVE  \E i \in DOMAIN records' :
                 records'[i].usr = f.usr /\ records'[i].ownership = f.text
    <3>1. PICK i \in DOMAIN records : records[i].usr = f.usr /\ records[i].ownership = f.text
      BY <1>3, <2>2 DEF RoleHeard
    <3>2. QED
      BY <2>1, <3>1 DEF OnlyAdds
  <2>3. QED
    BY <1>1, <2>2 DEF RoleHeard
<1>4. ASSUME f.is = "value", ValueHeard(f) PROVE ValueHeard(f)'
  <2>1. f.kind # "function"
    BY <1>4, FactIs
  <2>2. PICK i \in DOMAIN records :
          /\ records[i].usr = f.usr /\ records[i].signature = f.text
          /\ records[i].kind = f.kind
    BY <1>4 DEF ValueHeard
  <2>3. QED
    BY <2>1, <2>2 DEF OnlyAdds, ValueHeard
<1>5. QED
  BY <1>2, <1>3, <1>4

(* A record of a row is renewed: what else the table says stands.          *)
LEMMA Renewed ==
  ASSUME ScriptInv, stage \in SnapshotStages, RecordsInv, UNCHANGED script,
         NEW i \in DOMAIN records, NEW r, records' = [records EXCEPT ![i] = r],
         r.usr = records[i].usr, IsRow(records[i]),
         \A b \in Rows(Space) : OfRow(b, records[i]) => OfRow(b, r)
  PROVE  RecordsInv'
<1>1. /\ DOMAIN records' = DOMAIN records /\ records'[i] = r
      /\ \A n \in DOMAIN records : n # i => records'[n] = records[n]
  <2>1. Len(records) \in Nat /\ DOMAIN records = 1 .. Len(records)
    BY ListLength DEF RecordsInv
  <2>2. QED
    BY <2>1
<1>2. IsList(records')
  <2>1. PICK S : S = ToSet(records) \cup {r}
    OBVIOUS
  <2>2. records \in Seq(S) /\ r \in S
    BY <2>1 DEF RecordsInv, IsList
  <2>3. records' \in Seq(S)
    BY <2>2
  <2>4. QED
    BY <2>3, ListOf
<1>3. Manifests' = Manifests /\ Space' = Space
  BY SameCommand
<1>4. \A b, q : OfRow(b, q)' = OfRow(b, q)
  BY SameCommand
<1>5. \A q : IsRow(q)' = IsRow(q)
  BY <1>3, <1>4 DEF IsRow
<1>6. \A q : OfValue(q)' = OfValue(q)
  BY <1>3 DEF OfValue
<1>7. IsRow(r)
  BY DEF IsRow
<1>8. \A n \in DOMAIN records' : IsRow(records'[n]) \/ OfValue(records'[n])
  BY <1>1, <1>7 DEF RecordsInv
<1>9. ASSUME NEW b \in Rows(Space) PROVE \E n \in DOMAIN records' : OfRow(b, records'[n])
  <2>1. PICK n \in DOMAIN records : OfRow(b, records[n])
    BY DEF RecordsInv
  <2>2. QED
    BY <1>1, <2>1
<1>10. Distinct(records') => Distinct(records)
  BY <1>1 DEF Distinct
<1>11. \A n : RowsApart(n)' = RowsApart(n)
  BY SameCommand
<1>12. Distinct(records)' => RowsApart(Len(Manifests))'
  <2>1. Distinct(records)' <=> Distinct(records')
    BY DEF Distinct
  <2>2. RowsApart(Len(Manifests))' <=> RowsApart(Len(Manifests))
    BY <1>3, <1>11
  <2>3. QED
    BY <1>10, <2>1, <2>2 DEF RecordsInv
<1>13. QED
  BY <1>2, <1>3, <1>4, <1>5, <1>6, <1>8, <1>9, <1>12 DEF RecordsInv

(* The same table, or one with a value more.                               *)
LEMMA Appended ==
  ASSUME ScriptInv, stage \in SnapshotStages, RecordsInv, UNCHANGED script,
         \/ UNCHANGED records
         \/ \E f \in Space.facts : IsValue(f) /\ records' = Append(records, FromNote(f))
  PROVE  RecordsInv' /\ OnlyAdds(records, records')
<1>1. Manifests' = Manifests /\ Space' = Space
  BY SameCommand
<1>2. \A b, q : OfRow(b, q)' = OfRow(b, q)
  BY SameCommand
<1>3. \A q : IsRow(q)' = IsRow(q)
  BY <1>1, <1>2 DEF IsRow
<1>4. \A q : OfValue(q)' = OfValue(q)
  BY <1>1 DEF OfValue
<1>5. RowsApart(Len(Manifests))' <=> RowsApart(Len(Manifests))
  <2>1. \A n : RowsApart(n)' = RowsApart(n)
    BY SameCommand
  <2>2. QED
    BY <1>1, <2>1
<1>6. Distinct(records)' <=> Distinct(records')
  BY DEF Distinct
<1>7. CASE UNCHANGED records
  BY <1>1, <1>2, <1>3, <1>4, <1>5, <1>6, <1>7 DEF RecordsInv, OnlyAdds
<1>8. CASE \E f \in Space.facts : IsValue(f) /\ records' = Append(records, FromNote(f))
  <2>1. PICK f \in Space.facts : IsValue(f) /\ records' = Append(records, FromNote(f))
    BY <1>8
  <2>2. Len(records) \in Nat /\ DOMAIN records = 1 .. Len(records)
    BY ListLength DEF RecordsInv
  <2>3. /\ IsList(records') /\ DOMAIN records' = 1 .. Len(records) + 1
        /\ records'[Len(records) + 1] = FromNote(f)
        /\ \A n \in DOMAIN records : n \in DOMAIN records' /\ records'[n] = records[n]
    <3>1. PICK longer : longer = Append(records, FromNote(f))
      OBVIOUS
    <3>2. IsList(records) /\ records' = longer
      BY <2>1, <3>1 DEF RecordsInv
    <3>3. /\ IsList(longer) /\ DOMAIN longer = 1 .. Len(records) + 1
          /\ longer[Len(records) + 1] = FromNote(f)
      BY <3>1, <3>2, ListExtended
    <3>4. \A n \in DOMAIN records : n \in DOMAIN longer /\ longer[n] = records[n]
      BY <3>1, <3>2, ListExtended
    <3>5. QED
      BY <3>2, <3>3, <3>4
  <2>4. \A n \in DOMAIN records' : IsRow(records'[n]) \/ OfValue(records'[n])
    <3>1. OfValue(records'[Len(records) + 1])
      BY <2>1, <2>3 DEF OfValue
    <3>2. \A n \in DOMAIN records' : n \in DOMAIN records \/ n = Len(records) + 1
      BY <2>2, <2>3
    <3>3. QED
      BY <2>3, <3>1, <3>2 DEF RecordsInv
  <2>5. \A b \in Rows(Space) : \E n \in DOMAIN records' : OfRow(b, records'[n])
    BY <2>3 DEF RecordsInv
  <2>6. Distinct(records') => Distinct(records)
    BY <2>3 DEF Distinct
  <2>7. OnlyAdds(records, records')
    BY <2>3 DEF OnlyAdds
  <2>8. QED
    BY <1>1, <1>2, <1>3, <1>4, <1>5, <1>6, <2>3, <2>4, <2>5, <2>6, <2>7 DEF RecordsInv
<1>9. QED
  BY <1>7, <1>8

LEMMA WithNotes ==
  ASSUME NEW u, NEW l, NEW h, NEW p, NEW s, NEW o, NEW k, NEW x, NEW y, NEW b, NEW r,
         b = [usr |-> u, library |-> l, header |-> h, platforms |-> p,
              signature |-> s, ownership |-> o, kind |-> k],
         r = [b EXCEPT !.signature = x, !.ownership = y]
  PROVE  r = [usr |-> u, library |-> l, header |-> h, platforms |-> p,
              signature |-> x, ownership |-> y, kind |-> k]
<1>1. PICK c : c = [b EXCEPT !.signature = x]
  OBVIOUS
<1>2. r = [c EXCEPT !.ownership = y]
  BY <1>1, Zenon
<1>3. c = [usr |-> u, library |-> l, header |-> h, platforms |-> p,
           signature |-> x, ownership |-> o, kind |-> k]
  BY <1>1
<1>4. QED
  BY <1>2, <1>3

LEMMA TypeRead ==
  ASSUME ScriptInv, stage \in SnapshotStages, RecordsInv, UNCHANGED script,
         NEW f \in Space.facts, f.is = "function", f.public, Known(records, f.usr),
         records' = Signed(records, f)
  PROVE  /\ RecordsInv' /\ OnlyAdds(records, records')
         /\ ~SignedBadly(records, f) => TypeHeard(f)'
<1>1. PICK i \in DOMAIN records : i = Found(records, f.usr) /\ records[i].usr = f.usr
  BY FoundIs DEF RecordsInv
<1>2. f.text # NoText
  BY FactIs
<1>3. CASE records[i].signature # NoText
  <2>1. UNCHANGED records
    BY <1>1, <1>3 DEF Signed
  <2>2. ~SignedBadly(records, f) => records[i].signature = f.text
    BY <1>1, <1>3 DEF SignedBadly
  <2>3. ~SignedBadly(records, f) => TypeHeard(f)'
    BY <1>1, <2>1, <2>2 DEF TypeHeard
  <2>4. QED
    BY <2>1, <2>3, Appended
<1>4. CASE records[i].signature = NoText
  <2>1. ~OfValue(records[i])
    <3>1. SUFFICES ASSUME NEW g \in Space.facts, IsValue(g), records[i] = FromNote(g)
                   PROVE  FALSE
      BY DEF OfValue
    <3>2. g.usr = f.usr /\ g.text = NoText
      BY <1>1, <1>4, <3>1 DEF FromNote
    <3>3. QED
      BY <3>1, <3>2, FactIs DEF IsValue
  <2>2. IsRow(records[i]) /\ records[i].kind = "function"
    BY <2>1, RecordIs DEF RecordsInv
  <2>3. PICK r : r = [records[i] EXCEPT !.signature = f.text]
    OBVIOUS
  <2>4. /\ r.usr = records[i].usr /\ r.kind = records[i].kind
        /\ r.signature = f.text /\ r.ownership = records[i].ownership
    <3>1. PICK u, l, h, p, s, o, k :
            records[i] = [usr |-> u, library |-> l, header |-> h, platforms |-> p,
                          signature |-> s, ownership |-> o, kind |-> k]
      BY RecordIs
    <3>2. QED
      BY <2>3, <3>1
  <2>5. records' = [records EXCEPT ![i] = r]
    BY <1>1, <1>4, <2>3 DEF Signed
  <2>6. ASSUME NEW b \in Rows(Space), OfRow(b, records[i]) PROVE OfRow(b, r)
    <3>1. PICK q, s, o : q = records[i] /\ s = q.signature /\ o = q.ownership
      OBVIOUS
    <3>2. q = [b EXCEPT !.signature = s, !.ownership = o]
      BY <2>6, <3>1 DEF OfRow
    <3>3. PICK u, l, h, p : b = [usr |-> u, library |-> l, header |-> h, platforms |-> p,
                                 signature |-> NoText, ownership |-> "-",
                                 kind |-> "function"]
      BY RowIs
    <3>4. r = [b EXCEPT !.signature = f.text, !.ownership = o] /\ b.usr = q.usr
      <4>1. q = [usr |-> u, library |-> l, header |-> h, platforms |-> p,
                 signature |-> s, ownership |-> o, kind |-> "function"]
        BY <3>2, <3>3
      <4>2. r = [q EXCEPT !.signature = f.text]
        BY <2>3, <3>1
      <4>3. r = [usr |-> u, library |-> l, header |-> h, platforms |-> p,
                 signature |-> f.text, ownership |-> o, kind |-> "function"]
        BY <4>1, <4>2
      <4>4. PICK x : x = f.text
        OBVIOUS
      <4>5. r = [b EXCEPT !.signature = x, !.ownership = o]
        <5>1. PICK d : d = [b EXCEPT !.signature = x, !.ownership = o]
          OBVIOUS
        <5>2. d = [usr |-> u, library |-> l, header |-> h, platforms |-> p,
                   signature |-> x, ownership |-> o, kind |-> "function"]
          BY <3>3, <5>1, WithNotes
        <5>3. QED
          BY <4>3, <4>4, <5>1, <5>2
      <4>6. b.usr = q.usr
        BY <3>3, <4>1
      <4>7. QED
        BY <4>4, <4>5, <4>6
    <3>5. r = [b EXCEPT !.signature = r.signature, !.ownership = r.ownership]
      BY <2>4, <3>1, <3>4
    <3>6. f.text \in Said(Space, "function", b.usr)
      BY <1>1, <3>1, <3>4 DEF Said
    <3>7. QED
      BY <2>4, <2>6, <3>5, <3>6 DEF OfRow
  <2>7. RecordsInv'
    BY <2>2, <2>4, <2>5, <2>6, Renewed
  <2>8. /\ DOMAIN records' = DOMAIN records /\ records'[i] = r
        /\ \A n \in DOMAIN records : n # i => records'[n] = records[n]
    BY <2>5, ListLength DEF RecordsInv
  <2>9. OnlyAdds(records, records')
    BY <1>4, <2>2, <2>4, <2>8 DEF OnlyAdds
  <2>10. TypeHeard(f)'
    BY <1>1, <2>4, <2>8 DEF TypeHeard
  <2>11. QED
    BY <2>7, <2>9, <2>10
<1>5. QED
  BY <1>3, <1>4

LEMMA RoleRead ==
  ASSUME ScriptInv, stage \in SnapshotStages, RecordsInv, UNCHANGED script,
         NEW f \in Space.facts, f.is = "role", f.public, Known(records, f.usr),
         records' = Owned(records, f)
  PROVE  /\ RecordsInv' /\ OnlyAdds(records, records')
         /\ ~OwnedBadly(records, f) => RoleHeard(f)'
<1>1. PICK i \in DOMAIN records : i = Found(records, f.usr) /\ records[i].usr = f.usr
  BY FoundIs DEF RecordsInv
<1>2. f.text # "-"
  BY FactIs
<1>3. CASE records[i].ownership # "-"
  <2>1. UNCHANGED records
    BY <1>1, <1>3 DEF Owned
  <2>2. ~OwnedBadly(records, f) => records[i].ownership = f.text
    BY <1>1, <1>3 DEF OwnedBadly
  <2>3. ~OwnedBadly(records, f) => RoleHeard(f)'
    BY <1>1, <2>1, <2>2 DEF RoleHeard
  <2>4. QED
    BY <2>1, <2>3, Appended
<1>4. CASE records[i].ownership = "-"
  <2>1. ~OfValue(records[i])
    <3>1. SUFFICES ASSUME NEW g \in Space.facts, IsValue(g), records[i] = FromNote(g)
                   PROVE  FALSE
      BY DEF OfValue
    <3>2. g.usr = f.usr
      BY <1>1, <3>1 DEF FromNote
    <3>3. QED
      BY <3>1, <3>2, FactIs DEF IsValue
  <2>2. IsRow(records[i]) /\ records[i].kind = "function"
    BY <2>1, RecordIs DEF RecordsInv
  <2>3. PICK r : r = [records[i] EXCEPT !.ownership = f.text]
    OBVIOUS
  <2>4. /\ r.usr = records[i].usr /\ r.kind = records[i].kind
        /\ r.ownership = f.text /\ r.signature = records[i].signature
    <3>1. PICK u, l, h, p, s, o, k :
            records[i] = [usr |-> u, library |-> l, header |-> h, platforms |-> p,
                          signature |-> s, ownership |-> o, kind |-> k]
      BY RecordIs
    <3>2. QED
      BY <2>3, <3>1
  <2>5. records' = [records EXCEPT ![i] = r]
    BY <1>1, <1>4, <2>3 DEF Owned
  <2>6. ASSUME NEW b \in Rows(Space), OfRow(b, records[i]) PROVE OfRow(b, r)
    <3>1. PICK q, s, o : q = records[i] /\ s = q.signature /\ o = q.ownership
      OBVIOUS
    <3>2. q = [b EXCEPT !.signature = s, !.ownership = o]
      BY <2>6, <3>1 DEF OfRow
    <3>3. PICK u, l, h, p : b = [usr |-> u, library |-> l, header |-> h, platforms |-> p,
                                 signature |-> NoText, ownership |-> "-",
                                 kind |-> "function"]
      BY RowIs
    <3>4. r = [b EXCEPT !.signature = s, !.ownership = f.text] /\ b.usr = q.usr
      BY <2>3, <3>1, <3>2, <3>3
    <3>5. r = [b EXCEPT !.signature = r.signature, !.ownership = r.ownership]
      BY <2>4, <3>1, <3>4
    <3>6. f.text \in Said(Space, "role", b.usr)
      BY <1>1, <3>1, <3>4 DEF Said
    <3>7. QED
      BY <2>4, <2>6, <3>5, <3>6 DEF OfRow
  <2>7. RecordsInv'
    BY <2>2, <2>4, <2>5, <2>6, Renewed
  <2>8. /\ DOMAIN records' = DOMAIN records /\ records'[i] = r
        /\ \A n \in DOMAIN records : n # i => records'[n] = records[n]
    BY <2>5, ListLength DEF RecordsInv
  <2>9. OnlyAdds(records, records')
    BY <1>4, <2>2, <2>4, <2>8 DEF OnlyAdds
  <2>10. RoleHeard(f)'
    BY <1>1, <2>4, <2>8 DEF RoleHeard
  <2>11. QED
    BY <2>7, <2>9, <2>10
<1>5. QED
  BY <1>3, <1>4

(* Each fact is heard when it is read, or raises the error.                *)
LEMMA FactRead ==
  ASSUME ScriptInv, stage = "semantics", FactsInv, ReadFact, stage' = "semantics"
  PROVE  /\ RecordsInv' /\ OnlyAdds(records, records')
         /\ (err => err')
         /\ \E f \in pending :
              /\ pending' = pending \ {f}
              /\ ~err' => /\ f.is = "function" /\ f.public => TypeHeard(f)'
                          /\ f.is = "role" /\ f.public => RoleHeard(f)'
                          /\ IsValue(f) => ValueHeard(f)'
<1>1. RecordsInv /\ pending \subseteq Space.facts /\ stage \in SnapshotStages
  BY DEF FactsInv, SnapshotStages
<1>2. UNCHANGED script /\ IsList(records)
  BY <1>1 DEF ReadFact, RecordsInv
<1> DEFINE Fine(f) == ~err' => /\ f.is = "function" /\ f.public => TypeHeard(f)'
                               /\ f.is = "role" /\ f.public => RoleHeard(f)'
                               /\ IsValue(f) => ValueHeard(f)'
<1>3. PICK f \in pending :
       /\ pending' = pending \ {f}
       /\ \/ /\ f.is = "function" /\ f.public /\ Known(records, f.usr)
             /\ records' = Signed(records, f)
             /\ err' = (err \/ SignedBadly(records, f))
          \/ /\ f.is = "value" /\ f.public /\ Known(records, f.usr)
             /\ records[Found(records, f.usr)].signature = f.text
             /\ records[Found(records, f.usr)].kind = f.kind
             /\ UNCHANGED <<records, err>>
          \/ /\ f.is = "value" /\ f.public /\ ~Known(records, f.usr)
             /\ records' = Append(records, FromNote(f))
             /\ UNCHANGED err
          \/ /\ f.is = "role" /\ f.public /\ Known(records, f.usr)
             /\ records' = Owned(records, f)
             /\ err' = (err \/ OwnedBadly(records, f))
          \/ /\ f.is \in {"function", "role"} /\ (f.public => ~Known(records, f.usr))
             /\ UNCHANGED <<records, err>>
          \/ /\ f.is = "value" /\ ~f.public
             /\ UNCHANGED <<records, err>>
  BY DEF ReadFact, Fails
<1>4. f \in Space.facts
  BY <1>1, <1>3
<1>5. CASE /\ f.is = "function" /\ f.public /\ Known(records, f.usr)
           /\ records' = Signed(records, f) /\ err' = (err \/ SignedBadly(records, f))
  <2>1. /\ RecordsInv' /\ OnlyAdds(records, records')
        /\ ~SignedBadly(records, f) => TypeHeard(f)'
    BY <1>1, <1>2, <1>4, <1>5, TypeRead
  <2>2. Fine(f) /\ (err => err')
    <3>1. (err \/ SignedBadly(records, f)) <=> err'
      BY <1>5
    <3>2. QED
      BY <1>5, <2>1, <3>1 DEF IsValue
  <2>3. QED
    BY <1>3, <2>1, <2>2
<1>6. CASE /\ f.is = "role" /\ f.public /\ Known(records, f.usr)
           /\ records' = Owned(records, f) /\ err' = (err \/ OwnedBadly(records, f))
  <2>1. /\ RecordsInv' /\ OnlyAdds(records, records')
        /\ ~OwnedBadly(records, f) => RoleHeard(f)'
    BY <1>1, <1>2, <1>4, <1>6, RoleRead
  <2>2. Fine(f) /\ (err => err')
    <3>1. (err \/ OwnedBadly(records, f)) <=> err'
      BY <1>6
    <3>2. QED
      BY <1>6, <2>1, <3>1 DEF IsValue
  <2>3. QED
    BY <1>3, <2>1, <2>2
<1>7. CASE /\ f.is = "value" /\ f.public /\ Known(records, f.usr)
           /\ records[Found(records, f.usr)].signature = f.text
           /\ records[Found(records, f.usr)].kind = f.kind
           /\ UNCHANGED <<records, err>>
  <2>1. RecordsInv' /\ OnlyAdds(records, records')
    BY <1>1, <1>2, <1>7, Appended
  <2>2. Found(records, f.usr) \in DOMAIN records
        /\ records[Found(records, f.usr)].usr = f.usr
    BY <1>2, <1>7, FoundIs
  <2>3. ValueHeard(f)'
    BY <1>7, <2>2 DEF ValueHeard
  <2>4. Fine(f) /\ (err => err')
    BY <1>7, <2>3
  <2>5. QED
    BY <1>3, <2>1, <2>4
<1>8. CASE /\ f.is = "value" /\ f.public /\ ~Known(records, f.usr)
           /\ records' = Append(records, FromNote(f)) /\ UNCHANGED err
  <2>1. RecordsInv' /\ OnlyAdds(records, records')
    BY <1>1, <1>2, <1>4, <1>8, Appended DEF IsValue
  <2>2. PICK longer : longer = Append(records, FromNote(f))
    OBVIOUS
  <2>3. /\ DOMAIN longer = 1 .. Len(records) + 1
        /\ longer[Len(records) + 1] = FromNote(f) /\ Len(records) \in Nat
    BY <1>2, <2>2, ListExtended, ListLength
  <2>4. Len(records) + 1 \in DOMAIN records' /\ records'[Len(records) + 1] = FromNote(f)
    BY <1>8, <2>2, <2>3
  <2>5. ValueHeard(f)'
    <3>1. /\ FromNote(f).usr = f.usr /\ FromNote(f).signature = f.text
          /\ FromNote(f).kind = f.kind
      BY DEF FromNote
    <3>2. QED
      BY <2>4, <3>1 DEF ValueHeard
  <2>6. Fine(f) /\ (err => err')
    BY <1>8, <2>5
  <2>7. QED
    BY <1>3, <2>1, <2>6
<1>9. CASE /\ f.is \in {"function", "role"} /\ (f.public => ~Known(records, f.usr))
           /\ UNCHANGED <<records, err>>
  <2>1. RecordsInv' /\ OnlyAdds(records, records')
    BY <1>1, <1>2, <1>9, Appended
  <2>2. ASSUME f.public, NEW b \in Rows(Space), b.usr = f.usr PROVE FALSE
    <3>1. PICK i \in DOMAIN records : OfRow(b, records[i])
      BY <1>1 DEF RecordsInv
    <3>2. records[i].usr = b.usr
      BY <3>1, RowIs DEF OfRow
    <3>3. QED
      BY <1>9, <2>2, <3>2 DEF Known
  <2>3. Rows(Space)' = Rows(Space)
    BY <1>2, SameCommand
  <2>4. f.public => TypeHeard(f)' /\ RoleHeard(f)'
    BY <2>2, <2>3 DEF TypeHeard, RoleHeard
  <2>5. Fine(f) /\ (err => err')
    BY <1>9, <2>4 DEF IsValue
  <2>6. QED
    BY <1>3, <2>1, <2>5
<1>10. CASE f.is = "value" /\ ~f.public /\ UNCHANGED <<records, err>>
  <2>1. RecordsInv' /\ OnlyAdds(records, records')
    BY <1>1, <1>2, <1>10, Appended
  <2>2. Fine(f) /\ (err => err')
    BY <1>10 DEF IsValue
  <2>3. QED
    BY <1>3, <2>1, <2>2
<1>11. QED
  BY <1>3, <1>5, <1>6, <1>7, <1>8, <1>9, <1>10

LEMMA FactsStep == ScriptInv /\ ManifestsInv /\ FactsInv /\ [Next]_vars => FactsInv'
<1> SUFFICES ASSUME ScriptInv, ManifestsInv, FactsInv, [Next]_vars, stage' = "semantics"
             PROVE  FactsInv'
  BY DEF FactsInv
<1>1. CASE UNCHANGED vars
  <2>1. UNCHANGED script /\ UNCHANGED <<stage, pending, records, err>>
    BY <1>1 DEF vars, process
  <2>2. RecordsInv'
    BY <2>1, Appended DEF FactsInv, SnapshotStages
  <2>3. Heard' = Heard /\ Rows(Space)' = Rows(Space) /\ Space' = Space
    BY <2>1, SameCommand DEF Heard
  <2>4. \A f : /\ TypeHeard(f)' <=> TypeHeard(f)
               /\ RoleHeard(f)' <=> RoleHeard(f)
               /\ ValueHeard(f)' <=> ValueHeard(f)
    BY <2>1, <2>3 DEF TypeHeard, RoleHeard, ValueHeard
  <2>5. QED
    BY <2>1, <2>2, <2>3, <2>4 DEF FactsInv
<1>2. CASE ManifestsEnd
  <2>1. RecordsInv /\ Heard = {}
    BY <1>2, ManifestsRead
  <2>2. UNCHANGED <<script, pending, records>> /\ stage \in SnapshotStages
        /\ pending = Space.facts
    BY <1>2 DEF ManifestsEnd, process, SnapshotStages, ManifestsInv
  <2>3. RecordsInv'
    BY <2>1, <2>2, Appended
  <2>4. Heard' = {} /\ Space' = Space /\ pending' \subseteq Space'.facts
    BY <2>1, <2>2, SameCommand DEF Heard
  <2>5. QED
    BY <2>3, <2>4 DEF FactsInv
<1>3. CASE ReadFact
  <2>1. stage = "semantics" /\ stage \in SnapshotStages /\ UNCHANGED script
    BY <1>3 DEF ReadFact, SnapshotStages
  <2>2. /\ RecordsInv' /\ OnlyAdds(records, records')
        /\ (err => err')
    BY <1>3, <2>1, FactRead
  <2>3. PICK f \in pending :
              /\ pending' = pending \ {f}
              /\ ~err' => /\ f.is = "function" /\ f.public => TypeHeard(f)'
                          /\ f.is = "role" /\ f.public => RoleHeard(f)'
                          /\ IsValue(f) => ValueHeard(f)'
    BY <1>3, <2>1, FactRead
  <2>4. Space' = Space
    BY <2>1, SameCommand
  <2>5. pending' \subseteq Space'.facts /\ (\A g \in Heard' : g \in Heard \/ g = f)
    BY <2>1, <2>3, <2>4 DEF FactsInv, Heard
  <2>6. ASSUME ~err', NEW g \in Heard'
        PROVE  /\ g.is = "function" /\ g.public => TypeHeard(g)'
               /\ g.is = "role" /\ g.public => RoleHeard(g)'
               /\ IsValue(g) => ValueHeard(g)'
    <3>1. CASE g = f
      BY <2>3, <2>6, <3>1
    <3>2. CASE g \in Heard
      <4>1. g \in Space.facts
        BY <3>2 DEF Heard
      <4>2. ~err
        BY <2>2, <2>6
      <4>3. /\ g.is = "function" /\ g.public => TypeHeard(g)
            /\ g.is = "role" /\ g.public => RoleHeard(g)
            /\ IsValue(g) => ValueHeard(g)
        BY <2>1, <3>2, <4>2 DEF FactsInv
      <4>4. /\ g.is = "function" /\ TypeHeard(g) => TypeHeard(g)'
            /\ g.is = "role" /\ RoleHeard(g) => RoleHeard(g)'
            /\ g.is = "value" /\ ValueHeard(g) => ValueHeard(g)'
        BY <2>1, <2>2, <4>1, HeardStays
      <4>5. QED
        BY <4>3, <4>4 DEF IsValue
    <3>3. QED
      BY <2>5, <2>6, <3>1, <3>2
  <2>7. QED
    BY <2>2, <2>5, <2>6 DEF FactsInv
<1>4. CASE Run /\ ~ManifestsEnd /\ ~ReadFact
  BY <1>4
  DEF Run, Start, LoadManifest, SnapshotFails, FailsHere, Fails, SemanticsEnd,
      OpenOutput, WriteRecords, LoadSnapshots, LoadFails, CompareRecord, CompareEnds,
      Exit, NextCommand
<1>5. QED
  BY <1>1, <1>2, <1>3, <1>4 DEF Next, Done

-----------------------------------------------------------------------------
(* What the records are worth when everything has been read.               *)

(* No two neighbours of a sorted table alike means no two records alike.   *)
LEMMA SortedDistinct ==
  ASSUME ScriptInv, stage \in SnapshotStages, RecordsInv,
         ~Repeats(SortRecords(records))
  PROVE  /\ IsList(SortRecords(records)) /\ Ascending(SortRecords(records))
         /\ ToSet(SortRecords(records)) = ToSet(records)
         /\ Distinct(records) /\ Distinct(SortRecords(records))
         /\ Complete(records) => Complete(SortRecords(records))
<1>0. PICK t : t = SortRecords(records)
  OBVIOUS
<1>1. /\ IsList(records) /\ Len(records) \in Nat /\ DOMAIN records = 1 .. Len(records)
      /\ \A i \in DOMAIN records : records[i].usr \in Int
  BY ListLength, RecordIs DEF RecordsInv
<1>2. /\ IsList(t) /\ ToSet(t) = ToSet(records) /\ DOMAIN t = DOMAIN records
      /\ \A n, m \in DOMAIN records : n < m => t[n].usr <= t[m].usr
  BY <1>0, <1>1, Sorted
<1>3. PICK at : /\ \A n \in DOMAIN records :
                     at[n] \in DOMAIN records /\ t[n] = records[at[n]]
                /\ \A i \in DOMAIN records : \E n \in DOMAIN records : at[n] = i
  <2>1. \E at : Rearranged(records, at, t)
    BY <1>0, <1>1, Sorted
  <2>2. QED
    BY <2>1 DEF Rearranged
<1>4. Len(t) = Len(records)
  BY <1>1, <1>2, ListLength
<1>5. \A n \in DOMAIN records : t[n].usr \in Int
  BY <1>1, <1>3
<1>6. ASSUME NEW n \in DOMAIN t, NEW m \in DOMAIN t, n < m
      PROVE  t[n].usr < t[m].usr
  <2>1. n \in 1 .. Len(t) - 1 /\ n + 1 \in DOMAIN records /\ n < n + 1
        /\ (n + 1 = m \/ n + 1 < m)
    BY <1>1, <1>2, <1>4, <1>6
  <2>2. t[n].usr # t[n + 1].usr
    BY <1>0, <2>1 DEF Repeats
  <2>3. t[n].usr <= t[n + 1].usr /\ (n + 1 = m \/ t[n + 1].usr <= t[m].usr)
    BY <1>2, <2>1
  <2>4. t[n].usr \in Int /\ t[n + 1].usr \in Int /\ t[m].usr \in Int
    BY <1>2, <1>5, <2>1
  <2>5. QED
    BY <2>2, <2>3, <2>4
<1>7. ASSUME NEW n \in DOMAIN t, NEW m \in DOMAIN t, t[n].usr = t[m].usr
      PROVE  n = m
  <2>1. n = m \/ n < m \/ m < n
    BY <1>1, <1>2
  <2>2. t[n].usr \in Int
    BY <1>2, <1>5
  <2>3. QED
    BY <1>6, <1>7, <2>1, <2>2
<1>8. ASSUME NEW i \in DOMAIN records, NEW k \in DOMAIN records,
             records[i].usr = records[k].usr
      PROVE  i = k
  <2>1. PICK n \in DOMAIN records : at[n] = i
    BY <1>3
  <2>2. PICK m \in DOMAIN records : at[m] = k
    BY <1>3
  <2>3. t[n].usr = t[m].usr
    BY <1>3, <1>8, <2>1, <2>2
  <2>4. QED
    BY <1>2, <1>7, <2>1, <2>2, <2>3
<1>9. Complete(records) => Complete(t)
  BY <1>2, <1>3 DEF Complete
<1>10. QED
  BY <1>0, <1>2, <1>6, <1>7, <1>8, <1>9 DEF Ascending, Distinct

(* Everything is heard, and nothing contradicted: the state in which the   *)
(* records are handed to the sort.                                         *)
AllHeard ==
  /\ RecordsInv /\ Distinct(records) /\ Complete(records)
  /\ \A f \in Space.facts :
       /\ f.is = "function" /\ f.public => TypeHeard(f)
       /\ f.is = "role" /\ f.public => RoleHeard(f)
       /\ IsValue(f) => ValueHeard(f)

(* The record of a row has its only type and, if there is one, its only    *)
(* role.                                                                   *)
LEMMA RowHeard ==
  ASSUME ScriptInv, stage \in SnapshotStages, AllHeard, NEW b \in Rows(Space),
         NEW i \in DOMAIN records, OfRow(b, records[i])
  PROVE  /\ records[i].usr = b.usr /\ records[i].kind = "function"
         /\ Said(Space, "function", b.usr) = {records[i].signature}
         /\ Said(Space, "role", b.usr) = IF records[i].ownership = "-" THEN {}
                                         ELSE {records[i].ownership}
<1>1. PICK r, s, o : r = records[i] /\ s = r.signature /\ o = r.ownership
  OBVIOUS
<1>2. r.usr = b.usr /\ r.kind = "function"
  <2>1. PICK u, l, h, p : b = [usr |-> u, library |-> l, header |-> h, platforms |-> p,
                               signature |-> NoText, ownership |-> "-",
                               kind |-> "function"]
    BY RowIs
  <2>2. r = [b EXCEPT !.signature = s, !.ownership = o]
    BY <1>1 DEF OfRow
  <2>3. QED
    BY <2>1, <2>2
<1>3. s # NoText /\ s \in Said(Space, "function", b.usr)
      /\ o \in {"-"} \cup Said(Space, "role", b.usr)
  BY <1>1 DEF OfRow, AllHeard, Complete
<1>4. ASSUME NEW x \in Said(Space, "function", b.usr) PROVE x = s
  <2>1. PICK f \in Space.facts :
          f.is = "function" /\ f.public /\ f.usr = b.usr /\ f.text = x
    BY <1>4 DEF Said
  <2>2. PICK n \in DOMAIN records : records[n].usr = f.usr /\ records[n].signature = f.text
    BY <2>1 DEF AllHeard, TypeHeard
  <2>3. n = i
    BY <1>1, <1>2, <2>1, <2>2 DEF AllHeard, Distinct
  <2>4. QED
    BY <1>1, <2>1, <2>2, <2>3
<1>5. ASSUME NEW x \in Said(Space, "role", b.usr) PROVE x = o
  <2>1. PICK f \in Space.facts :
          f.is = "role" /\ f.public /\ f.usr = b.usr /\ f.text = x
    BY <1>5 DEF Said
  <2>2. PICK n \in DOMAIN records : records[n].usr = f.usr /\ records[n].ownership = f.text
    BY <2>1 DEF AllHeard, RoleHeard
  <2>3. n = i
    BY <1>1, <1>2, <2>1, <2>2 DEF AllHeard, Distinct
  <2>4. QED
    BY <1>1, <2>1, <2>2, <2>3
<1>6. Said(Space, "function", b.usr) = {s}
  BY <1>3, <1>4
<1>7. "-" \notin Said(Space, "role", b.usr)
  BY FactIs DEF Said
<1>8. CASE o = "-"
  <2>1. Said(Space, "role", b.usr) = {}
    BY <1>5, <1>7, <1>8
  <2>2. QED
    BY <1>1, <1>2, <1>6, <1>8, <2>1
<1>9. CASE o # "-"
  <2>1. Said(Space, "role", b.usr) = {o}
    BY <1>3, <1>5, <1>9
  <2>2. QED
    BY <1>1, <1>2, <1>6, <1>9, <2>1
<1>10. QED
  BY <1>8, <1>9


(* The records are the surface.                                            *)
LEMMA SurfaceHeard ==
  ASSUME ScriptInv, stage \in SnapshotStages, AllHeard,
         NEW rs, ToSet(rs) = ToSet(records)
  PROVE  Covers(rs, Space)
<1> DEFINE W == Space
           Seen(b) == [b EXCEPT !.signature = CHOOSE t \in Said(W, "function", b.usr) : TRUE,
                                !.ownership = IF Said(W, "role", b.usr) = {} THEN @
                                              ELSE CHOOSE t \in Said(W, "role", b.usr) : TRUE]
<1>1. ASSUME NEW b \in Rows(W), NEW i \in DOMAIN records, OfRow(b, records[i])
      PROVE  records[i] = Seen(b) /\ records[i].usr = b.usr
  <2>1. PICK u, l, h, p : b = [usr |-> u, library |-> l, header |-> h, platforms |-> p,
                               signature |-> NoText, ownership |-> "-",
                               kind |-> "function"]
    BY RowIs
  <2>2. PICK r, s, o : r = records[i] /\ s = r.signature /\ o = r.ownership
    OBVIOUS
  <2>3. r = [b EXCEPT !.signature = s, !.ownership = o]
    BY <1>1, <2>2 DEF OfRow
  <2>4. r = [usr |-> u, library |-> l, header |-> h, platforms |-> p,
             signature |-> s, ownership |-> o, kind |-> "function"]
    BY <2>1, <2>3, WithNotes
  <2>5. /\ r.usr = b.usr /\ Said(W, "function", b.usr) = {s}
        /\ Said(W, "role", b.usr) = IF o = "-" THEN {} ELSE {o}
    BY <1>1, <2>2, RowHeard
  <2>6. PICK x, y, e : /\ x = CHOOSE t \in Said(W, "function", b.usr) : TRUE
                       /\ y = IF Said(W, "role", b.usr) = {} THEN b.ownership
                              ELSE CHOOSE t \in Said(W, "role", b.usr) : TRUE
                       /\ e = Seen(b)
    OBVIOUS
  <2>7. e = [b EXCEPT !.signature = x, !.ownership = y]
    BY <2>6
  <2>8. e = [usr |-> u, library |-> l, header |-> h, platforms |-> p,
             signature |-> x, ownership |-> y, kind |-> "function"]
    BY <2>1, <2>7, WithNotes
  <2>9. x = s
    BY <2>5, <2>6
  <2>10. y = o
    <3>1. b.ownership = "-"
      BY <2>1
    <3>2. CASE o = "-"
      <4>1. Said(W, "role", b.usr) = {}
        BY <2>5, <3>2
      <4>2. QED
        BY <2>6, <3>1, <3>2, <4>1
    <3>3. CASE o # "-"
      <4>1. Said(W, "role", b.usr) = {o}
        BY <2>5, <3>3
      <4>2. QED
        BY <2>6, <4>1
    <3>4. QED
      BY <3>2, <3>3
  <2>11. r = e
    BY <2>4, <2>8, <2>9, <2>10
  <2>12. QED
    BY <2>2, <2>5, <2>6, <2>11
<1> HIDE DEF Seen
<1>2. ASSUME NEW i \in DOMAIN records
      PROVE  records[i] \in Surface(W)
  <2>1. CASE IsRow(records[i])
    <3>1. PICK b \in Rows(W) : OfRow(b, records[i])
      BY <2>1 DEF IsRow
    <3>2. records[i] = Seen(b)
      BY <1>1, <3>1
    <3>3. records[i] \in {Seen(q) : q \in Rows(W)}
      BY <3>2
    <3>4. QED
      BY <3>3 DEF Seen, Surface
  <2>2. CASE OfValue(records[i])
    BY <2>2 DEF OfValue, IsValue, Surface, Values
  <2>3. QED
    BY <2>1, <2>2 DEF AllHeard, RecordsInv
<1>3. ASSUME NEW q \in Surface(W)
      PROVE  \E i \in DOMAIN records : records[i].usr = q.usr
  <2>1. q \in {Seen(b) : b \in Rows(W)} \/ q \in Values(W)
    BY <1>3 DEF Seen, Surface
  <2>2. CASE q \in {Seen(b) : b \in Rows(W)}
    <3>1. PICK b \in Rows(W) : q = Seen(b)
      BY <2>2
    <3>2. PICK i \in DOMAIN records : OfRow(b, records[i])
      BY DEF AllHeard, RecordsInv
    <3>3. QED
      BY <1>1, <3>1, <3>2
  <2>3. CASE q \in Values(W)
    <3>1. PICK f \in W.facts : IsValue(f) /\ q = FromNote(f)
      BY <2>3 DEF Values, IsValue
    <3>2. PICK i \in DOMAIN records : records[i].usr = f.usr
      BY <3>1 DEF AllHeard, ValueHeard
    <3>3. QED
      BY <3>1, <3>2 DEF FromNote
  <2>4. QED
    BY <2>1, <2>2, <2>3
<1>4. ToSet(rs) = {records[i] : i \in DOMAIN records}
  BY DEF ToSet
<1>5. QED
  BY <1>2, <1>3, <1>4 DEF Covers


(* A workspace whose records are all there does not contradict itself.     *)
LEMMA SpaceConsistent ==
  ASSUME ScriptInv, stage \in SnapshotStages, AllHeard
  PROVE  Consistent(Space)
<1>1. /\ ToSet(Space.manifests) = {Manifests[j] : j \in DOMAIN Manifests}
      /\ DOMAIN Manifests = 1 .. Len(Manifests)
      /\ RowsApart(Len(Manifests))
      /\ \A j \in DOMAIN Manifests : Legible(Manifests[j])
  <2>1. ToSet(Space.manifests) = {Manifests[j] : j \in DOMAIN Manifests}
    BY DEF ToSet, Manifests, Space
  <2>2. QED
    BY <2>1, ManifestIs DEF AllHeard, RecordsInv
<1>2. ASSUME NEW r \in Rows(Space)
      PROVE  /\ Cardinality(Said(Space, "function", r.usr)) = 1
             /\ Cardinality(Said(Space, "role", r.usr)) <= 1
             /\ \E i \in DOMAIN records :
                  records[i].usr = r.usr /\ records[i].kind = "function"
  <2>1. PICK i \in DOMAIN records : OfRow(r, records[i])
    BY <1>2 DEF AllHeard, RecordsInv
  <2>2. PICK s, o : s = records[i].signature /\ o = records[i].ownership
    OBVIOUS
  <2>3. /\ records[i].usr = r.usr /\ records[i].kind = "function"
        /\ Said(Space, "function", r.usr) = {s}
        /\ Said(Space, "role", r.usr) = IF o = "-" THEN {} ELSE {o}
    BY <1>2, <2>1, <2>2, RowHeard
  <2>4. Cardinality({s}) = 1 /\ Cardinality({o}) = 1 /\ Cardinality({}) = 0
    BY FS_Singleton, FS_EmptySet
  <2>5. Said(Space, "role", r.usr) \in {{}, {o}}
    BY <2>3
  <2>6. Cardinality(Said(Space, "role", r.usr)) \in {0, 1}
    BY <2>4, <2>5
  <2>7. QED
    BY <2>3, <2>4, <2>6
<1>3. ASSUME NEW r \in Rows(Space), NEW q \in Rows(Space), r.usr = q.usr
      PROVE  r = q
  <2>1. PICK j \in DOMAIN Manifests : \E k \in Apis(Manifests[j]) : r = TheRow(j, k)
    BY <1>3, RowsAre
  <2>2. PICK k \in Apis(Manifests[j]) : r = TheRow(j, k)
    BY <2>1
  <2>3. PICK h \in DOMAIN Manifests : \E l \in Apis(Manifests[h]) : q = TheRow(h, l)
    BY <1>3, RowsAre
  <2>4. PICK l \in Apis(Manifests[h]) : q = TheRow(h, l)
    BY <2>3
  <2>5. j = h /\ k = l
    BY <1>1, <1>3, <2>1, <2>2, <2>3, <2>4 DEF RowsApart
  <2>6. QED
    BY <2>2, <2>4, <2>5
<1>4. ASSUME NEW r \in Values(Space)
      PROVE  \E i \in DOMAIN records :
               /\ records[i].usr = r.usr /\ records[i].signature = r.signature
               /\ records[i].kind = r.kind /\ r.kind # "function"
  <2>1. PICK f \in Space.facts : IsValue(f) /\ r = FromNote(f)
    BY <1>4 DEF Values, IsValue
  <2>2. ValueHeard(f) /\ f.kind # "function"
    BY <2>1, FactIs DEF AllHeard, IsValue
  <2>3. r.usr = f.usr /\ r.signature = f.text /\ r.kind = f.kind
    BY <2>1 DEF FromNote
  <2>4. QED
    BY <2>2, <2>3 DEF ValueHeard
<1>5. \A i, k \in DOMAIN records : records[i].usr = records[k].usr => i = k
  BY DEF AllHeard, Distinct
<1>6. \A r, q \in Values(Space) :
        r.usr = q.usr => r.signature = q.signature /\ r.kind = q.kind
  BY <1>4, <1>5
<1>7. \A r \in Rows(Space), q \in Values(Space) : r.usr # q.usr
  BY <1>2, <1>4, <1>5
<1>8. ASSUME NEW m \in ToSet(Space.manifests), NEW i \in DOMAIN m.rows,
             NEW k \in DOMAIN m.rows, m.rows[i] = m.rows[k], m.rows[i].is = "api"
      PROVE  i = k
  <2>1. PICK j \in DOMAIN Manifests : m = Manifests[j]
    BY <1>1
  <2>2. i \in Apis(Manifests[j]) /\ k \in Apis(Manifests[j])
    BY <1>8, <2>1 DEF Apis
  <2>3. TheRow(j, i).usr = TheRow(j, k).usr
    BY <1>8, <2>1 DEF TheRow
  <2>4. QED
    BY <1>1, <2>1, <2>2, <2>3 DEF RowsApart
<1>9. \A m \in ToSet(Space.manifests) : Legible(m)
  BY <1>1
<1>10. QED
  BY <1>2, <1>3, <1>6, <1>7, <1>8, <1>9 DEF Consistent


LEMMA ReadyStep == ScriptInv /\ FactsInv /\ ReadyInv /\ [Next]_vars => ReadyInv'
<1> SUFFICES ASSUME ScriptInv, FactsInv, ReadyInv, [Next]_vars,
                    stage' \in {"open", "write"}
             PROVE  /\ pending' = {} /\ IsSurface(records', Space')
                    /\ stage' = "write" => made'[Command'.output] = Unknown
  BY DEF ReadyInv
<1>1. CASE SemanticsEnd
  <2>1. /\ stage = "semantics" /\ stage \in SnapshotStages /\ pending = {}
        /\ records' = SortRecords(records) /\ UNCHANGED <<script, pending>>
    BY <1>1 DEF SemanticsEnd, SnapshotStages
  <2>2. ~err /\ Complete(records) /\ ~Repeats(SortRecords(records))
    BY <1>1 DEF SemanticsEnd, Fails
  <2>3. RecordsInv
    BY <2>1 DEF FactsInv
  <2>4. /\ IsList(records') /\ Ascending(records') /\ ToSet(records') = ToSet(records)
        /\ Distinct(records) /\ Distinct(records') /\ Complete(records')
    BY <2>1, <2>2, <2>3, SortedDistinct
  <2>5. Heard = Space.facts
    BY <2>1 DEF Heard
  <2>6. AllHeard
    BY <2>1, <2>2, <2>3, <2>4, <2>5 DEF AllHeard, FactsInv
  <2>7. Covers(records', Space) /\ Consistent(Space)
    BY <2>1, <2>4, <2>6, SurfaceHeard, SpaceConsistent
  <2>8. Space' = Space
    BY <2>1, SameCommand
  <2>9. QED
    BY <1>1, <2>1, <2>2, <2>4, <2>7, <2>8 DEF IsSurface, SemanticsEnd
<1>2. CASE OpenOutput \/ UNCHANGED vars
  <2>1. stage \in {"open", "write"} /\ UNCHANGED <<script, pending, records>>
    BY <1>2 DEF OpenOutput, process, vars
  <2>2. Space' = Space
    BY <2>1, SameCommand
  <2>3. stage' = "write" => made'[Command'.output] = Unknown
    <3>1. CASE OpenOutput
      <4>1. Command.output \in DOMAIN files /\ DOMAIN made = DOMAIN files
        <5>1. stage \in SnapshotStages
          BY <2>1 DEF SnapshotStages
        <5>2. QED
          BY <5>1, CommandIs DEF ScriptInv, IsCommand
      <4>2. Command' = Command
        BY <2>1, SameCommand
      <4>3. QED
        BY <3>1, <4>1, <4>2 DEF OpenOutput, Fails
    <3>2. CASE UNCHANGED vars
      BY <2>1, <3>2, SameCommand DEF ReadyInv, vars
    <3>3. QED
      BY <1>2, <3>1, <3>2
  <2>4. QED
    BY <2>1, <2>2, <2>3 DEF ReadyInv
<1>3. CASE Next /\ ~SemanticsEnd /\ ~OpenOutput /\ ~UNCHANGED vars
  <2>1. stage' \notin {"open", "write"}
    BY <1>3
    DEF Next, Done, Run, Start, LoadManifest, ManifestsEnd, SnapshotFails, FailsHere,
        Fails, ReadFact, WriteRecords, LoadSnapshots, LoadFails, CompareRecord,
        CompareEnds, Exit, NextCommand
  <2>2. QED
    BY <2>1
<1>4. QED
  BY <1>1, <1>2, <1>3

(* What a file is known to be is what was written whole.                   *)
LEMMA MadeStep == ScriptInv /\ ReadyInv /\ MadeInv /\ [Next]_vars => MadeInv'
<1> SUFFICES ASSUME ScriptInv, ReadyInv, MadeInv, [Next]_vars
             PROVE  MadeInv'
  OBVIOUS
<1>1. CASE UNCHANGED <<files, made>>
  BY <1>1 DEF MadeInv
<1>2. ASSUME NEW g \in DOMAIN files, NEW file,
             files' = [files EXCEPT ![g] = file],
             \/ made' = [made EXCEPT ![g] = Unknown]
             \/ made' = made /\ made[g] = Unknown
             \/ /\ made' = [made EXCEPT ![g] = Space]
                /\ IsSurface(file.records, Space) /\ file = File(4, file.records, FALSE)
      PROVE  MadeInv'
  <2> SUFFICES ASSUME NEW f \in DOMAIN files', made'[f] # Unknown
               PROVE  /\ IsSurface(files'[f].records, made'[f])
                      /\ files'[f] = File(4, files'[f].records, FALSE)
    BY DEF MadeInv
  <2>1. f \in DOMAIN files /\ DOMAIN made = DOMAIN files
    BY <1>2 DEF ScriptInv
  <2>2. CASE f = g
    BY <1>2, <2>1, <2>2
  <2>3. CASE f # g
    <3>1. files'[f] = files[f] /\ made'[f] = made[f]
      BY <1>2, <2>1, <2>3
    <3>2. QED
      BY <2>1, <3>1 DEF MadeInv
  <2>4. QED
    BY <2>2, <2>3
<1>3. CASE OpenOutput /\ ~UNCHANGED <<files, made>>
  <2>1. stage \in SnapshotStages
    BY <1>3 DEF OpenOutput, SnapshotStages
  <2>2. Command.output \in DOMAIN files
    BY <2>1, CommandIs DEF ScriptInv, IsCommand
  <2>3. /\ files' = [files EXCEPT ![Command.output] = File(0, <<>>, FALSE)]
        /\ made' = [made EXCEPT ![Command.output] = Unknown]
    BY <1>3 DEF OpenOutput
  <2>4. QED
    BY <1>2, <2>2, <2>3
<1>4. CASE WriteRecords
  <2>1. stage \in SnapshotStages /\ stage = "write"
    BY <1>4 DEF WriteRecords, SnapshotStages
  <2>2. Command.output \in DOMAIN files
    BY <2>1, CommandIs DEF ScriptInv, IsCommand
  <2>3. IsSurface(records, Space) /\ made[Command.output] = Unknown
    BY <2>1 DEF ReadyInv
  <2>4. PICK file : /\ files' = [files EXCEPT ![Command.output] = file]
                    /\ \/ made' = made
                       \/ /\ made' = [made EXCEPT ![Command.output] = Space]
                          /\ file = File(4, records, FALSE)
    BY <1>4 DEF WriteRecords, Space
  <2>5. file = File(4, records, FALSE) =>
          IsSurface(file.records, Space) /\ file = File(4, file.records, FALSE)
    BY <2>3 DEF File
  <2>6. QED
    BY <1>2, <2>2, <2>3, <2>4, <2>5
<1>5. CASE Next /\ ~OpenOutput /\ ~WriteRecords
  <2>1. UNCHANGED <<files, made>>
    BY <1>5
    DEF Next, Done, vars, Run, Start, LoadManifest, ManifestsEnd, SnapshotFails,
        FailsHere, Fails, ReadFact, SemanticsEnd, LoadSnapshots, LoadFails,
        CompareRecord, CompareEnds, Exit, NextCommand
  <2>2. QED
    BY <1>1, <2>1
<1>6. CASE UNCHANGED vars
  BY <1>1, <1>6 DEF vars
<1>7. QED
  BY <1>1, <1>3, <1>4, <1>5, <1>6


-----------------------------------------------------------------------------
(* The comparison.                                                         *)

IsRecord(r) ==
  \E u, l, h, p, s, o, k :
    r = [usr |-> u, library |-> l, header |-> h, platforms |-> p,
         signature |-> s, ownership |-> o, kind |-> k]

LEMMA SameNotes ==
  ASSUME NEW r, NEW q, IsRecord(r),
         q = [r EXCEPT !.signature = r.signature, !.ownership = r.ownership,
                       !.kind = r.kind]
  PROVE  q = r
<1>1. PICK u, l, h, p, s, o, k :
        r = [usr |-> u, library |-> l, header |-> h, platforms |-> p,
             signature |-> s, ownership |-> o, kind |-> k]
  BY DEF IsRecord
<1>2. PICK c : c = [r EXCEPT !.signature = r.signature]
  OBVIOUS
<1>3. PICK d : d = [c EXCEPT !.ownership = r.ownership]
  OBVIOUS
<1>4. q = [d EXCEPT !.kind = r.kind]
  BY <1>2, <1>3, Zenon
<1>5. c = r
  BY <1>1, <1>2
<1>6. d = r
  BY <1>1, <1>3, <1>5
<1>7. QED
  BY <1>1, <1>4, <1>6

LEMMA SurfaceRecord ==
  ASSUME NEW w, NEW r \in Surface(w)
  PROVE  IsRecord(r)
<1>1. CASE r \in Values(w)
  BY <1>1 DEF Values, FromNote, IsRecord
<1>2. CASE r \notin Values(w)
  <2>1. PICK b \in Rows(w) : \E x, y : r = [b EXCEPT !.signature = x, !.ownership = y]
    BY <1>2, Zenon DEF Surface
  <2>2. PICK x, y : r = [b EXCEPT !.signature = x, !.ownership = y]
    BY <2>1
  <2>3. PICK u, l, h, p : b = [usr |-> u, library |-> l, header |-> h, platforms |-> p,
                               signature |-> NoText, ownership |-> "-",
                               kind |-> "function"]
    BY <2>1 DEF Rows, FromRow
  <2>4. r = [usr |-> u, library |-> l, header |-> h, platforms |-> p,
             signature |-> x, ownership |-> y, kind |-> "function"]
    BY <2>2, <2>3, WithNotes
  <2>5. QED
    BY <2>4 DEF IsRecord
<1>3. QED
  BY <1>1, <1>2

(* Nothing of a file of the current version is filled in.                  *)
LEMMA LoadedWhole ==
  ASSUME NEW rs, NEW w, IsSurface(rs, w)
  PROVE  Loaded(File(4, rs, FALSE)) = rs
<1>1. PICK file : file = File(4, rs, FALSE)
  OBVIOUS
<1>2. file.records = rs /\ file.version = 4
  BY <1>1 DEF File
<1>3. DOMAIN Loaded(file) = DOMAIN rs
  BY <1>2 DEF Loaded
<1>4. ASSUME NEW i \in DOMAIN rs
      PROVE  Loaded(file)[i] = rs[i]
  <2>1. PICK r, q : r = rs[i] /\ q = Loaded(file)[i]
    OBVIOUS
  <2>2. q = [r EXCEPT !.signature = IF file.version >= 2 THEN r.signature ELSE NoText,
                      !.ownership = IF file.version >= 3 THEN r.ownership ELSE "-",
                      !.kind = IF file.version = 4 THEN r.kind ELSE "function"]
    BY <1>2, <1>4, <2>1, Zenon DEF Loaded
  <2>3. q = [r EXCEPT !.signature = r.signature, !.ownership = r.ownership,
                      !.kind = r.kind]
    <3>1. PICK a, b, c : /\ a = IF file.version >= 2 THEN r.signature ELSE NoText
                         /\ b = IF file.version >= 3 THEN r.ownership ELSE "-"
                         /\ c = IF file.version = 4 THEN r.kind ELSE "function"
      OBVIOUS
    <3>2. a = r.signature /\ b = r.ownership /\ c = r.kind
      BY <1>2, <3>1
    <3>3. q = [r EXCEPT !.signature = a, !.ownership = b, !.kind = c]
      BY <2>2, <3>1, Zenon
    <3>4. QED
      BY <3>2, <3>3, Zenon
  <2>4. r \in Surface(w)
    BY <2>1, <1>4 DEF IsSurface, Covers, ToSet
  <2>5. q = r
    BY <2>3, <2>4, SurfaceRecord, SameNotes
  <2>6. QED
    BY <2>1, <2>5
<1>5. Loaded(file) = [i \in DOMAIN rs |-> Loaded(file)[i]]
  BY <1>2 DEF Loaded
<1>6. rs = [i \in DOMAIN rs |-> rs[i]]
  BY DEF IsSurface, IsList
<1>7. QED
  BY <1>1, <1>4, <1>5, <1>6, Zenon


(* A record breaks no rule when the other table has one that keeps it.     *)
LEMMA ChangesMean ==
  ASSUME NEW old, NEW q, q.usr = old.usr,
         old.signature # NoText, q.signature # NoText
  PROVE  Changes(old, q) = {} <=> Keeps(old, q)
<1> DEFINE Gone == old.platforms \ q.platforms
<1>1. {<<"API-004", p>> : p \in Gone} = {} <=> old.platforms \subseteq q.platforms
  BY Zenon
<1>2. ASSUME Changes(old, q) = {}
      PROVE  Keeps(old, q)
  <2>1. old.library = q.library /\ old.header \in {NoText, q.header}
    BY <1>2 DEF Changes
  <2>2. {<<"API-004", p>> : p \in Gone} = {}
    BY <1>2 DEF Changes
  <2>3. old.signature = q.signature
    BY <1>2 DEF Changes
  <2>4. old.ownership \in {"-", q.ownership}
    BY <1>2 DEF Changes
  <2>5. QED
    BY <1>1, <2>1, <2>2, <2>3, <2>4 DEF Keeps
<1>3. ASSUME Keeps(old, q)
      PROVE  Changes(old, q) = {}
  <2>1. {<<"API-004", p>> : p \in Gone} = {}
    BY <1>1, <1>3 DEF Keeps
  <2>2. QED
    BY <1>3, <2>1 DEF Keeps, Changes
<1>4. QED
  BY <1>2, <1>3

LEMMA BrokenMeans ==
  ASSUME NEW rs, IsList(rs), Complete(rs), Distinct(rs),
         NEW old, old.signature # NoText
  PROVE  Broken(old, rs) = {} <=> \E q \in ToSet(rs) : Keeps(old, q)
<1>1. ToSet(rs) = {rs[i] : i \in DOMAIN rs}
  BY DEF ToSet
<1>2. CASE ~Known(rs, old.usr)
  <2>1. Broken(old, rs) # {}
    BY <1>2 DEF Broken
  <2>2. \A q \in ToSet(rs) : ~Keeps(old, q)
    BY <1>1, <1>2 DEF Known, Keeps
  <2>3. QED
    BY <2>1, <2>2
<1>3. CASE Known(rs, old.usr)
  <2>1. PICK i \in DOMAIN rs : i = Found(rs, old.usr) /\ rs[i].usr = old.usr
    BY <1>3, FoundIs
  <2>2. Broken(old, rs) = Changes(old, rs[i])
    BY <1>3, <2>1 DEF Broken
  <2>3. rs[i].signature # NoText
    BY <2>1 DEF Complete
  <2>4. Broken(old, rs) = {} <=> Keeps(old, rs[i])
    BY <2>1, <2>2, <2>3, ChangesMean
  <2>5. \A q \in ToSet(rs) : Keeps(old, q) => q = rs[i]
    BY <1>1, <2>1 DEF Keeps, Distinct
  <2>6. rs[i] \in ToSet(rs)
    BY <1>1, <2>1
  <2>7. QED
    BY <2>4, <2>5, <2>6
<1>4. QED
  BY <1>2, <1>3

(* The findings of all the records are those that are lost.                *)
LEMMA FindingsMean ==
  ASSUME IsList(records), Complete(records),
         IsList(current), Complete(current), Distinct(current)
  PROVE  {f[1] : f \in FindingsOf(Len(records))} = Lost(records, current)
<1>1. DOMAIN records = 1 .. Len(records) /\ ToSet(records) = {records[k] : k \in DOMAIN records}
  BY ListLength DEF ToSet
<1>2. \A k \in DOMAIN records :
        Broken(records[k], current) = {} <=> \E q \in ToSet(current) : Keeps(records[k], q)
  BY BrokenMeans DEF Complete
<1>3. ASSUME NEW f \in FindingsOf(Len(records))
      PROVE  f[1] \in Lost(records, current)
  <2>1. PICK k \in DOMAIN records : \E b \in Broken(records[k], current) : f = <<records[k].usr, b>>
    BY <1>1 DEF FindingsOf
  <2>2. Broken(records[k], current) # {} /\ f[1] = records[k].usr
    BY <2>1
  <2>3. \A q \in ToSet(current) : ~Keeps(records[k], q)
    BY <1>2, <2>1, <2>2
  <2>4. records[k] \in {o \in ToSet(records) : \A q \in ToSet(current) : ~Keeps(o, q)}
    BY <1>1, <2>1, <2>3
  <2>5. QED
    BY <2>2, <2>4 DEF Lost
<1>4. ASSUME NEW x \in Lost(records, current)
      PROVE  \E f \in FindingsOf(Len(records)) : x = f[1]
  <2>1. PICK o \in ToSet(records) : x = o.usr /\ \A q \in ToSet(current) : ~Keeps(o, q)
    BY DEF Lost
  <2>2. PICK k \in DOMAIN records : o = records[k]
    BY <1>1, <2>1
  <2>3. PICK b : b \in Broken(records[k], current)
    BY <1>2, <2>1, <2>2
  <2>4. <<records[k].usr, b>> \in FindingsOf(Len(records))
    BY <1>1, <2>2, <2>3 DEF FindingsOf
  <2>5. <<records[k].usr, b>>[1] = x
    BY <2>1, <2>2
  <2>6. QED
    BY <2>4, <2>5
<1>5. QED
  BY <1>3, <1>4


LEMMA CompareStep == ScriptInv /\ MadeInv /\ CompareInv /\ [Next]_vars => CompareInv'
<1> SUFFICES ASSUME ScriptInv, MadeInv, CompareInv, [Next]_vars
             PROVE  CompareInv'
  OBVIOUS
<1>1. CASE Start
  <2>1. UNCHANGED script /\ position' = 0 /\ findings' = {}
        /\ stage' \in {"manifests", "load", "end"}
        /\ (stage' = "end" => Command.is # "compare")
    BY <1>1 DEF Start
  <2>2. Command' = Command
    BY <2>1, SameCommand
  <2>3. QED
    BY <2>1, <2>2 DEF CompareInv
<1>2. CASE LoadSnapshots
  <2>1. /\ stage = "load" /\ stage \in CompareStages /\ stage' = "compare"
        /\ UNCHANGED <<script, position, findings, files, made>>
        /\ records' = Loaded(files[Command.old])
        /\ current' = Loaded(files[Command.new])
    BY <1>2 DEF LoadSnapshots, CompareStages
  <2>2. position = 0 /\ findings = {} /\ Command' = Command
    BY <2>1, SameCommand DEF CompareInv
  <2>3. Command.is = "compare" /\ Command.old \in DOMAIN files
        /\ Command.new \in DOMAIN files
    BY <2>1, CommandIs DEF ScriptInv, IsCommand
  <2>4. ASSUME KnownBoth
        PROVE  /\ records' = files[Command.old].records /\ IsList(records')
               /\ current' = files[Command.new].records
    <3>1. /\ IsSurface(files[Command.old].records, made[Command.old])
          /\ files[Command.old] = File(4, files[Command.old].records, FALSE)
          /\ IsSurface(files[Command.new].records, made[Command.new])
          /\ files[Command.new] = File(4, files[Command.new].records, FALSE)
      BY <2>3, <2>4 DEF KnownBoth, MadeInv
    <3>2. PICK old, new : /\ old = files[Command.old].records
                          /\ new = files[Command.new].records
      OBVIOUS
    <3>3. Loaded(files[Command.old]) = old /\ Loaded(files[Command.new]) = new
      BY <3>1, <3>2, LoadedWhole, Zenon
    <3>4. QED
      BY <2>1, <3>1, <3>2, <3>3 DEF IsSurface
  <2>5. FindingsOf(0)' = {} /\ (IsList(records') => 0 <= Len(records'))
    BY ListLength DEF FindingsOf
  <2>6. KnownBoth' <=> KnownBoth
    BY <2>1, <2>2 DEF KnownBoth
  <2>7. QED
    BY <2>1, <2>2, <2>4, <2>5, <2>6 DEF CompareInv
<1>3. CASE CompareRecord
  <2>1. /\ stage = "compare" /\ stage' = "compare" /\ position < Len(records)
        /\ position' = position + 1
        /\ findings' = findings \cup {<<records[position + 1].usr, b>> :
                                        b \in Broken(records[position + 1], current)}
        /\ UNCHANGED <<script, records, current, files, made>>
    BY <1>3 DEF CompareRecord
  <2>2. position \in Nat /\ Command' = Command
    BY <2>1, SameCommand DEF CompareInv
  <2>3. FindingsOf(position)' = FindingsOf(position + 1)
    BY <2>1 DEF FindingsOf
  <2>4. FindingsOf(position + 1) =
          FindingsOf(position) \cup {<<records[position + 1].usr, b>> :
                                       b \in Broken(records[position + 1], current)}
    <3>1. 1 .. position + 1 = (1 .. position) \cup {position + 1}
      BY <2>2
    <3>2. QED
      BY <3>1 DEF FindingsOf
  <2>5. KnownBoth' <=> KnownBoth
    BY <2>1, <2>2 DEF KnownBoth
  <2>6. ASSUME KnownBoth
        PROVE  /\ records' = files'[Command'.old].records
               /\ current' = files'[Command'.new].records
               /\ position' <= Len(records') /\ findings' = FindingsOf(position)'
    <3>1. /\ records = files[Command.old].records
          /\ current = files[Command.new].records
          /\ findings = FindingsOf(position)
      BY <2>1, <2>6 DEF CompareInv
    <3>2. IsList(records)
      <4>1. Command.is = "compare" /\ Command.old \in DOMAIN files
        BY <2>1, CommandIs DEF ScriptInv, IsCommand, CompareStages
      <4>2. QED
        BY <2>6, <3>1, <4>1 DEF KnownBoth, MadeInv, IsSurface
    <3>3. position + 1 <= Len(records)
      BY <2>1, <2>2, <3>2, ListLength
    <3>4. findings' = FindingsOf(position + 1)
      BY <2>1, <2>4, <3>1
    <3>5. QED
      BY <2>1, <2>2, <2>3, <3>1, <3>3, <3>4
  <2>7. QED
    BY <2>1, <2>2, <2>5, <2>6 DEF CompareInv
<1>4. CASE CompareEnds
  <2>1. /\ stage = "compare" /\ stage' = "end" /\ position = Len(records)
        /\ UNCHANGED <<script, findings, files, made>>
        /\ (status' # Trouble => ((status' = Success) <=> (findings = {})))
    BY <1>4 DEF CompareEnds, process, Trouble, Success, Findings
  <2>2. Command' = Command /\ (KnownBoth' <=> KnownBoth)
    BY <2>1, SameCommand DEF KnownBoth
  <2>3. ASSUME KnownBoth
        PROVE  {f[1] : f \in findings} =
                 Lost(files[Command.old].records, files[Command.new].records)
    <3>1. /\ records = files[Command.old].records
          /\ current = files[Command.new].records
          /\ findings = FindingsOf(Len(records))
      BY <2>1, <2>3 DEF CompareInv
    <3>2. /\ Command.is = "compare" /\ Command.old \in DOMAIN files
          /\ Command.new \in DOMAIN files
      BY <2>1, CommandIs DEF ScriptInv, IsCommand, CompareStages
    <3>3. /\ IsSurface(records, made[Command.old])
          /\ IsSurface(current, made[Command.new])
      BY <2>3, <3>1, <3>2 DEF KnownBoth, MadeInv
    <3>4. QED
      BY <3>1, <3>3, FindingsMean DEF IsSurface
  <2>4. QED
    BY <2>1, <2>2, <2>3 DEF CompareInv
<1>5. CASE Exit
  <2>1. /\ stage = "end" /\ stage' = "ended"
        /\ UNCHANGED <<script, findings, files, made>>
        /\ (status' # Trouble => status' = status)
    BY <1>5 DEF Exit, process
  <2>2. Command' = Command /\ (KnownBoth' <=> KnownBoth)
    BY <2>1, SameCommand DEF KnownBoth
  <2>3. QED
    BY <2>1, <2>2 DEF CompareInv
<1>6. CASE UNCHANGED vars
  <2>1. UNCHANGED <<script, stage, position, records, current, findings, status, files, made>>
    BY <1>6 DEF vars, process
  <2>2. Command' = Command /\ (KnownBoth' <=> KnownBoth)
        /\ FindingsOf(position)' = FindingsOf(position)
    BY <2>1, SameCommand DEF KnownBoth, FindingsOf
  <2>3. QED
    BY <2>1, <2>2 DEF CompareInv
<1>7. CASE LoadManifest \/ ManifestsEnd \/ SnapshotFails \/ ReadFact \/ SemanticsEnd
           \/ OpenOutput \/ WriteRecords
  <2>1. stage \in SnapshotStages /\ UNCHANGED script
        /\ stage' \in SnapshotStages \cup {"end"}
    BY <1>7
    DEF SnapshotStages, LoadManifest, ManifestsEnd, SnapshotFails, FailsHere, Fails,
        ReadFact, SemanticsEnd, OpenOutput, WriteRecords
  <2>2. Command'.is = "snapshot"
    BY <2>1, SameCommand DEF ScriptInv
  <2>3. QED
    BY <2>1, <2>2 DEF CompareInv, SnapshotStages
<1>8. CASE LoadFails
  <2>1. stage \in CompareStages /\ stage' = "end" /\ UNCHANGED status
    BY <1>8 DEF LoadFails, FailsHere, Fails, CompareStages
  <2>2. status' = Trouble
    BY <2>1 DEF ScriptInv
  <2>3. QED
    BY <2>1, <2>2 DEF CompareInv
<1>9. CASE NextCommand
  BY <1>9 DEF NextCommand, CompareInv
<1>10. QED
  BY <1>1, <1>2, <1>3, <1>4, <1>5, <1>6, <1>7, <1>8, <1>9 DEF Next, Run, Done


-----------------------------------------------------------------------------
SnapshotInv ==
  ScriptInv /\ ManifestsInv /\ FactsInv /\ ReadyInv /\ MadeInv /\ CompareInv

LEMMA SnapshotInit == Init => SnapshotInv
<1> SUFFICES ASSUME Init PROVE SnapshotInv
  OBVIOUS
<1>1. ScriptInv
  BY ScriptInit
<1>2. stage = "start" /\ made = [f \in DOMAIN files |-> Unknown]
  BY DEF Init
<1>3. ManifestsInv /\ FactsInv /\ ReadyInv /\ MadeInv /\ CompareInv
  BY <1>2 DEF ManifestsInv, FactsInv, ReadyInv, MadeInv, CompareInv
<1>4. QED
  BY <1>1, <1>3 DEF SnapshotInv

LEMMA SnapshotStep == SnapshotInv /\ [Next]_vars => SnapshotInv'
BY ScriptStep, ManifestsStep, FactsStep, ReadyStep, MadeStep, CompareStep
DEF SnapshotInv

(* Wherever the command stands: what has been read is in the records, what *)
(* is handed to the sort is the surface of the workspace, and a comparison *)
(* has found what the records it has passed have lost.                     *)
THEOREM SnapshotInvariant == Spec => []SnapshotInv
<1>1. QED
  BY SnapshotInit, SnapshotStep, PTL DEF Spec

(* A snapshot that ends with status 0 (WriteRecords after load_semantics   *)
(* and sort_records) holds exactly what its workspace offers, sorted, each *)
(* identity once, and the workspace did not contradict itself: for         *)
(* workspaces with any manifests and facts, read in any order.             *)
THEOREM SnapshotExact == Spec => []SnapshotIsTheSurface
<1>1. SnapshotInv => SnapshotIsTheSurface
  BY DEF SnapshotInv, MadeInv, IsSurface, SnapshotIsTheSurface
<1>2. QED
  BY <1>1, SnapshotInvariant, PTL

(* A comparison of two such snapshots that ends with status 0 or 1 has a   *)
(* finding for each API that is not kept, and for no other, and its status *)
(* says whether there is one.                                              *)
THEOREM CompareExact == Spec => []CompareIsExact
<1>1. SnapshotInv => CompareIsExact
  BY DEF SnapshotInv, CompareInv, KnownBoth, Lost, CompareIsExact
<1>2. QED
  BY <1>1, SnapshotInvariant, PTL

(* Only a snapshot that has read everything and met no contradiction       *)
(* touches its output file, and no command touches another file.           *)
THEOREM OldSnapshotStays == Spec => OldSnapshotKept
<1> DEFINE Replaced ==
             \A f \in DOMAIN files : files'[f] # files[f] =>
               /\ Command.is = "snapshot" /\ f = Command.output
               /\ pending = {} /\ Consistent(Command.workspace)
               /\ Covers(records, Command.workspace)
<1>1. ASSUME SnapshotInv, [Next]_vars
      PROVE  Replaced
  <2>1. SUFFICES ASSUME NEW f \in DOMAIN files, files'[f] # files[f]
                 PROVE  /\ Command.is = "snapshot" /\ f = Command.output
                        /\ pending = {} /\ Consistent(Command.workspace)
                        /\ Covers(records, Command.workspace)
    OBVIOUS
  <2>2. OpenOutput \/ WriteRecords
    <3> SUFFICES ASSUME ~OpenOutput, ~WriteRecords PROVE FALSE
      OBVIOUS
    <3>1. files' = files
      BY <1>1
      DEF Next, Done, vars, Run, Start, LoadManifest, ManifestsEnd, SnapshotFails,
          FailsHere, Fails, ReadFact, SemanticsEnd, LoadSnapshots, LoadFails,
          CompareRecord, CompareEnds, Exit, NextCommand
    <3>2. QED
      BY <2>1, <3>1
  <2>3. stage \in {"open", "write"} /\ f = Command.output
    BY <2>1, <2>2 DEF OpenOutput, WriteRecords
  <2>4. pending = {} /\ IsSurface(records, Space)
    BY <1>1, <2>3 DEF SnapshotInv, ReadyInv
  <2>5. Command.is = "snapshot"
    BY <1>1, <2>3 DEF SnapshotInv, ScriptInv, SnapshotStages
  <2>6. QED
    BY <2>3, <2>4, <2>5 DEF IsSurface, Space
<1>2. SnapshotInv /\ [Next]_vars => [Replaced]_vars
  BY <1>1
<1>3. QED
  BY <1>2, SnapshotInvariant, PTL DEF Spec, OldSnapshotKept

=============================================================================
