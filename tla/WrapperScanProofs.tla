------------------------- MODULE WrapperScanProofs --------------------------
(***************************************************************************)
(* Theorems about WrapperScan and WrapperInventory, the two stages that    *)
(* fill the model of audit-wrappers, for every list of records, manifests  *)
(* and header roots that their assumptions admit.                          *)
(***************************************************************************)
EXTENDS WrapperScan, WrapperInventory, FiniteSetTheorems, FunctionTheorems,
        TLAPS

(* A set of array positions that is not empty has a first one: of the      *)
(* initial segments up to its members one is the smallest.                 *)
LEMMA LeastMember ==
  ASSUME NEW positions \in SUBSET Nat, positions # {}
  PROVE  \E i \in positions : \A j \in positions : i <= j
<1> DEFINE Segments == {0 .. i : i \in positions}
<1>1. Segments \subseteq FiniteSubsetsOf(Nat) /\ Segments # {}
  <2>1. \A i \in Nat : IsFiniteSet(0 .. i) /\ 0 .. i \in SUBSET Nat
    BY FS_Interval
  <2>2. QED
    BY <2>1, Zenon DEF FiniteSubsetsOf
<1>2. PICK T \in Segments :
        \A U \in Segments : ~ (<<U, T>> \in StrictSubsetOrdering(Nat))
  BY <1>1, FS_StrictSubsetOrderingWellFounded, WFMin
<1>3. PICK i \in positions : T = 0 .. i
  OBVIOUS
<1>4. \A j \in positions : i <= j
  <2> SUFFICES ASSUME NEW j \in positions, j < i PROVE FALSE
    OBVIOUS
  <2>1. 0 .. j \subseteq T /\ i \in T /\ i \notin 0 .. j
    BY <1>3
  <2>2. 0 .. j \in Segments /\ 0 .. j \subseteq Nat /\ T \subseteq Nat
    BY <1>3
  <2>3. QED
    BY <1>2, <2>1, <2>2 DEF StrictSubsetOrdering
<1>5. QED
  BY <1>4

(* First returns the least position, and 0 when there is none.             *)
LEMMA FirstFound ==
  ASSUME NEW positions, positions \subseteq Nat \ {0}
  PROVE  /\ First(positions) = 0 <=> positions = {}
         /\ positions # {} => First(positions) \in positions
<1>1. CASE positions = {}
  BY <1>1 DEF First
<1>2. CASE positions # {}
  <2>1. \E i \in positions : \A j \in positions : i <= j
    BY <1>2, LeastMember
  <2>2. QED
    BY <1>2, <2>1 DEF First
<1>3. QED
  BY <1>1, <1>2

-----------------------------------------------------------------------------
(* compare_facts orders the facts.                                         *)

LEMMA KindRanks ==
  /\ \A k \in Kinds : KindRank[k] \in Nat
  /\ \A k, l \in Kinds : KindRank[k] = KindRank[l] => k = l
BY DEF KindRank, Kinds

LEMMA Fields ==
  ASSUME NEW f \in Fact
  PROVE  /\ f.kind \in Kinds /\ f.path \in Texts /\ f.name \in Texts
         /\ f.caller \in Texts /\ f.usr \in Texts /\ f.callerUsr \in Texts
         /\ f.line \in Nat /\ f.column \in Nat /\ f.start \in Nat
         /\ f.end \in Nat /\ f.definition \in BOOLEAN
BY DEF Fact

(* Facts are alike when they have the same fields.                         *)
SameFields(f, g) ==
  /\ Rank[f.path] = Rank[g.path] /\ f.line = g.line /\ f.column = g.column
  /\ KindRank[f.kind] = KindRank[g.kind] /\ Rank[f.name] = Rank[g.name]
  /\ Rank[f.caller] = Rank[g.caller] /\ Rank[f.usr] = Rank[g.usr]
  /\ Rank[f.callerUsr] = Rank[g.callerUsr]
  /\ f.start = g.start /\ f.end = g.end
  /\ f.definition <=> g.definition

LEMMA AlikeIsSameFields ==
  ASSUME NEW f \in Fact, NEW g \in Fact
  PROVE  Alike(f, g) <=> SameFields(f, g)
<1>1. Alike(f, g) => SameFields(f, g)
  <2> SUFFICES ASSUME Alike(f, g) PROVE SameFields(f, g)
    OBVIOUS
  <2>1. \A k \in 1 .. 11 : FactKey(f)[k] = FactKey(g)[k]
    BY DEF Alike
  <2>2. /\ FactKey(f)[1] = FactKey(g)[1] /\ FactKey(f)[2] = FactKey(g)[2]
        /\ FactKey(f)[3] = FactKey(g)[3] /\ FactKey(f)[4] = FactKey(g)[4]
        /\ FactKey(f)[5] = FactKey(g)[5] /\ FactKey(f)[6] = FactKey(g)[6]
        /\ FactKey(f)[7] = FactKey(g)[7] /\ FactKey(f)[8] = FactKey(g)[8]
        /\ FactKey(f)[9] = FactKey(g)[9] /\ FactKey(f)[10] = FactKey(g)[10]
        /\ FactKey(f)[11] = FactKey(g)[11]
    BY <2>1
  <2>3. QED
    BY <2>2 DEF FactKey, SameFields
<1>2. SameFields(f, g) => Alike(f, g)
  BY DEF Alike, SameFields, FactKey
<1>3. QED
  BY <1>1, <1>2

LEMMA KeyType ==
  ASSUME NEW f \in Fact
  PROVE  \A k \in 1 .. 11 : FactKey(f)[k] \in Nat
<1>1. /\ Rank[f.path] \in Nat /\ Rank[f.name] \in Nat /\ Rank[f.caller] \in Nat
      /\ Rank[f.usr] \in Nat /\ Rank[f.callerUsr] \in Nat
      /\ KindRank[f.kind] \in Nat
  BY Fields, KindRanks, WrapperAssumption
<1>2. f.line \in Nat /\ f.column \in Nat /\ f.start \in Nat /\ f.end \in Nat
  BY Fields
<1>3. QED
  BY <1>1, <1>2 DEF FactKey

LEMMA BeforeIsOrder ==
  /\ \A f \in Fact : ~Before(f, f)
  /\ \A f, g, h \in Fact : Before(f, g) /\ Before(g, h) => Before(f, h)
  /\ \A f, g \in Fact : Before(f, g) \/ Before(g, f) \/ Alike(f, g)
<1>1. \A f \in Fact : ~Before(f, f)
  BY KeyType DEF Before
<1>2. ASSUME NEW f \in Fact, NEW g \in Fact, NEW h \in Fact,
             Before(f, g), Before(g, h)
      PROVE  Before(f, h)
  <2>1. PICK a, b, c : a = FactKey(f) /\ b = FactKey(g) /\ c = FactKey(h)
    OBVIOUS
  <2>2. PICK k \in 1 .. 11 : a[k] < b[k] /\ \A j \in 1 .. k - 1 : a[j] = b[j]
    BY <1>2, <2>1 DEF Before
  <2>3. PICK l \in 1 .. 11 : b[l] < c[l] /\ \A j \in 1 .. l - 1 : b[j] = c[j]
    BY <1>2, <2>1 DEF Before
  <2>4. \A j \in 1 .. 11 : a[j] \in Nat /\ b[j] \in Nat /\ c[j] \in Nat
    BY <2>1, KeyType
  <2>5. \E m \in 1 .. 11 : a[m] < c[m] /\ \A j \in 1 .. m - 1 : a[j] = c[j]
    <3>1. CASE k <= l
      <4>1. a[k] < c[k]
        BY <2>2, <2>3, <2>4, <3>1
      <4>2. \A j \in 1 .. k - 1 : a[j] = c[j]
        BY <2>2, <2>3, <3>1
      <4>3. QED
        BY <4>1, <4>2
    <3>2. CASE l < k
      <4>1. a[l] < c[l]
        BY <2>2, <2>3, <2>4, <3>2
      <4>2. \A j \in 1 .. l - 1 : a[j] = c[j]
        BY <2>2, <2>3, <3>2
      <4>3. QED
        BY <4>1, <4>2
    <3>3. QED
      BY <3>1, <3>2
  <2>6. QED
    BY <2>1, <2>5 DEF Before
<1>3. ASSUME NEW f \in Fact, NEW g \in Fact, ~Alike(f, g)
      PROVE  Before(f, g) \/ Before(g, f)
  <2> DEFINE differ == {k \in 1 .. 11 : FactKey(f)[k] # FactKey(g)[k]}
  <2>1. differ # {}
    <3> SUFFICES ASSUME \A k \in 1 .. 11 : FactKey(f)[k] = FactKey(g)[k]
                 PROVE  FactKey(f) = FactKey(g)
      BY <1>3 DEF Alike
    <3>1. FactKey(f) = [k \in 1 .. 11 |-> FactKey(f)[k]]
      BY DEF FactKey
    <3>2. FactKey(g) = [k \in 1 .. 11 |-> FactKey(g)[k]]
      BY DEF FactKey
    <3>3. QED
      BY <3>1, <3>2
  <2>2. PICK k \in differ : \A j \in differ : k <= j
    BY <2>1, LeastMember
  <2>3. \A j \in 1 .. k - 1 : FactKey(f)[j] = FactKey(g)[j]
    BY <2>2
  <2>4. FactKey(f)[k] < FactKey(g)[k] \/ FactKey(g)[k] < FactKey(f)[k]
    BY <2>2, KeyType
  <2>5. QED
    BY <2>2, <2>3, <2>4 DEF Before
<1>4. QED
  BY <1>1, <1>2, <1>3

(* The place qsort gives a fact of a set: how many come before it.         *)
Placed(S, f) == Cardinality({g \in S : Before(g, f)})

LEMMA PlacedInOrder ==
  ASSUME NEW S, S \subseteq Fact, IsFiniteSet(S),
         \A f, g \in S : Alike(f, g) => f = g
  PROVE  /\ \A f \in S : Placed(S, f) \in 0 .. Cardinality(S) - 1
         /\ \A f, g \in S : Before(f, g) => Placed(S, f) < Placed(S, g)
<1> DEFINE lower(f) == {g \in S : Before(g, f)}
<1>1. \A f \in S : /\ IsFiniteSet(lower(f)) /\ Cardinality(lower(f)) \in Nat
                   /\ Cardinality(lower(f)) <= Cardinality(S) - 1
  <2> SUFFICES ASSUME NEW f \in S
               PROVE  /\ IsFiniteSet(lower(f)) /\ Cardinality(lower(f)) \in Nat
                      /\ Cardinality(lower(f)) <= Cardinality(S) - 1
    OBVIOUS
  <2>1. /\ IsFiniteSet(S \ {f}) /\ Cardinality(S \ {f}) = Cardinality(S) - 1
    BY FS_RemoveElement
  <2>2. lower(f) \in SUBSET (S \ {f})
    BY BeforeIsOrder
  <2> HIDE DEF lower
  <2>3. IsFiniteSet(lower(f)) /\ Cardinality(lower(f)) <= Cardinality(S \ {f})
    BY <2>1, <2>2, FS_Subset
  <2>4. QED
    BY <2>1, <2>3, FS_CardinalityType
<1>2. ASSUME NEW f \in S, NEW g \in S, Before(f, g)
      PROVE  Cardinality(lower(f)) < Cardinality(lower(g))
  <2>1. f \notin lower(f) /\ f \in lower(g)
    BY <1>2, BeforeIsOrder
  <2>2. lower(f) \cup {f} \in SUBSET lower(g)
    BY <1>2, <2>1, BeforeIsOrder
  <2> HIDE DEF lower
  <2>3. Cardinality(lower(f) \cup {f}) = Cardinality(lower(f)) + 1
    BY <1>1, <2>1, FS_AddElement
  <2>4. Cardinality(lower(f) \cup {f}) <= Cardinality(lower(g))
    BY <1>1, <2>2, FS_Subset
  <2>5. QED
    BY <1>1, <2>3, <2>4
<1>3. \A f \in S : Placed(S, f) = Cardinality(lower(f))
  BY DEF Placed
<1>4. Cardinality(S) \in Nat
  BY FS_CardinalityType
<1> HIDE DEF lower
<1>5. QED
  BY <1>1, <1>2, <1>3, <1>4

(* What qsort leaves: every member of the set, each once, in order.        *)
LEMMA SortedIsSorted ==
  ASSUME NEW S, S \subseteq Fact, IsFiniteSet(S),
         \A f, g \in S : Alike(f, g) => f = g
  PROVE  /\ Sorted(S) \in Seq(S) /\ Len(Sorted(S)) = Cardinality(S)
         /\ \A f \in S : \E n \in DOMAIN Sorted(S) : Sorted(S)[n] = f
         /\ InFactOrder(Sorted(S))
<1> DEFINE N == Cardinality(S)
           place == [f \in S |-> Placed(S, f)]
<1>1. N \in Nat
  BY FS_CardinalityType
<1>2. place \in [S -> 0 .. N - 1]
  BY PlacedInOrder
<1>3. \A f, g \in S : place[f] = place[g] => f = g
  <2> SUFFICES ASSUME NEW f \in S, NEW g \in S, place[f] = place[g], f # g
               PROVE  FALSE
    OBVIOUS
  <2>1. Before(f, g) \/ Before(g, f)
    BY BeforeIsOrder
  <2>2. place[f] < place[g] \/ place[g] < place[f]
    BY <2>1, PlacedInOrder
  <2>3. QED
    BY <1>1, <1>2, <2>2
<1>4. place \in Injection(S, 0 .. N - 1)
  BY <1>2, <1>3, Fun_IsInj
<1>5. IsFiniteSet(0 .. N - 1) /\ Cardinality(0 .. N - 1) = N
  BY <1>1, FS_Interval
<1>6. \A n \in 0 .. N - 1 : \E f \in S : place[f] = n
  <2> HIDE DEF place
  <2>1. place \in Surjection(S, 0 .. N - 1)
    BY <1>4, <1>5, FS_Injection
  <2>2. QED
    BY <2>1 DEF Surjection
<1>7. DOMAIN Sorted(S) = 1 .. N
  BY DEF Sorted
<1>8. \A n \in 1 .. N : Sorted(S)[n] \in S /\ place[Sorted(S)[n]] = n - 1
  <2> SUFFICES ASSUME NEW n \in 1 .. N
               PROVE  Sorted(S)[n] \in S /\ place[Sorted(S)[n]] = n - 1
    OBVIOUS
  <2>1. Sorted(S)[n] = CHOOSE f \in S : Placed(S, f) = n - 1
    BY DEF Sorted, Placed
  <2>2. \E f \in S : Placed(S, f) = n - 1
    BY <1>1, <1>6
  <2>3. QED
    BY <2>1, <2>2
<1>9. Sorted(S) \in Seq(S) /\ Len(Sorted(S)) = N
  <2> DEFINE nth(n) == CHOOSE f \in S : Placed(S, f) = n - 1
  <2>1. Sorted(S) = [n \in 1 .. N |-> nth(n)]
    BY DEF Sorted, Placed
  <2> HIDE DEF nth
  <2>2. \A n \in 1 .. N : Sorted(S)[n] \in S
    BY <1>8
  <2> HIDE DEF N
  <2>3. QED
    BY <1>1, <2>1, <2>2
<1>10. \A f \in S : \E n \in 1 .. N : Sorted(S)[n] = f
  <2> SUFFICES ASSUME NEW f \in S PROVE \E n \in 1 .. N : Sorted(S)[n] = f
    OBVIOUS
  <2> HIDE DEF place
  <2>1. place[f] + 1 \in 1 .. N /\ (place[f] + 1) - 1 = place[f]
    BY <1>1, <1>2
  <2>2. QED
    BY <1>3, <1>8, <2>1
<1>11. InFactOrder(Sorted(S))
  <2> SUFFICES ASSUME NEW i \in 1 .. N, NEW j \in 1 .. N, i < j
               PROVE  Before(Sorted(S)[i], Sorted(S)[j])
    BY <1>7 DEF InFactOrder
  <2>1. PICK f \in S, g \in S : f = Sorted(S)[i] /\ g = Sorted(S)[j]
    BY <1>8
  <2>2. place[f] < place[g]
    <3> HIDE DEF place
    <3>1. QED
      BY <1>8, <2>1
  <2>3. f # g /\ ~Before(g, f)
    <3>1. Before(g, f) => place[g] < place[f]
      BY PlacedInOrder
    <3> HIDE DEF place
    <3>2. place[f] \in Nat /\ place[g] \in Nat
      BY <1>1, <1>2
    <3>3. QED
      BY <2>2, <3>1, <3>2
  <2>4. QED
    BY <2>1, <2>3, BeforeIsOrder
<1>12. QED
  BY <1>7, <1>9, <1>10, <1>11


-----------------------------------------------------------------------------
(* What holds while the sources are scanned: the facts are the records the *)
(* callback has stored; afterwards only the owner of an expansion differs. *)

CountedInv == parseFailures = DiagnosticsIn(records, delivered)

RecordedInv ==
  stage \in {"scan", "macros"} =>
    /\ Len(facts) = delivered
    /\ \A n \in 1 .. delivered : facts[n] = records[n].fact

CompleteInv ==
  stage \in {"macros", "deduplicate", "scanned"} => delivered = Len(records)

AssignedInv ==
  stage = "deduplicate" =>
    /\ Len(facts) = Len(records)
    /\ \A n \in DOMAIN facts :
         /\ Unassigned(facts[n]) = Unassigned(records[n].fact)
         /\ IsExpansion(facts[n]) /\ Bodies(facts[n]) # {}
              => OwnerFound(facts[n])

KeptInv ==
  stage = "scanned" =>
    /\ InFactOrder(facts)
    /\ \A n \in DOMAIN records : \E i \in DOMAIN facts :
         Alike(Unassigned(facts[i]), Unassigned(records[n].fact))
    /\ \A i \in DOMAIN facts : \E n \in DOMAIN records :
         Unassigned(facts[i]) = Unassigned(records[n].fact)
    /\ \A i \in DOMAIN facts :
         IsExpansion(facts[i]) /\ Bodies(facts[i]) # {} => OwnerFound(facts[i])

SeenInv == CountedInv /\ RecordedInv /\ CompleteInv /\ AssignedInv /\ KeptInv


-----------------------------------------------------------------------------
(* The steps of the callback.                                              *)

(* A diagnostic adds one to the diagnostics seen, another record none.     *)
LEMMA OneMoreSeen ==
  ASSUME NEW list, NEW n \in Nat
  PROVE  /\ DiagnosticsIn(list, n) \in Nat
         /\ DiagnosticsIn(list, n) <= n
         /\ DiagnosticsIn(list, n + 1) =
              DiagnosticsIn(list, n)
                + (IF list[n + 1].fact.kind = "DIAGNOSTIC" THEN 1 ELSE 0)
<1> DEFINE seen(m) == {i \in 1 .. m : list[i].fact.kind = "DIAGNOSTIC"}
<1>1. IsFiniteSet(1 .. n) /\ Cardinality(1 .. n) = n
  BY FS_Interval
<1>2. seen(n) \in SUBSET (1 .. n)
  OBVIOUS
<1>3. IsFiniteSet(seen(n)) /\ Cardinality(seen(n)) <= n
  <2> HIDE DEF seen
  <2>1. QED
    BY <1>1, <1>2, FS_Subset
<1>4. Cardinality(seen(n)) \in Nat
  BY <1>3, FS_CardinalityType
<1>5. CASE list[n + 1].fact.kind = "DIAGNOSTIC"
  <2>1. seen(n + 1) = seen(n) \cup {n + 1} /\ n + 1 \notin seen(n)
    BY <1>5
  <2> HIDE DEF seen
  <2>2. Cardinality(seen(n + 1)) = Cardinality(seen(n)) + 1
    BY <1>3, <2>1, FS_AddElement
  <2>3. DiagnosticsIn(list, n) = Cardinality(seen(n))
        /\ DiagnosticsIn(list, n + 1) = Cardinality(seen(n + 1))
    BY DEF DiagnosticsIn, seen
  <2>4. QED
    BY <1>3, <1>4, <1>5, <2>2, <2>3
<1>6. CASE list[n + 1].fact.kind # "DIAGNOSTIC"
  <2>1. seen(n + 1) = seen(n)
    BY <1>6
  <2> HIDE DEF seen
  <2>2. DiagnosticsIn(list, n) = Cardinality(seen(n))
        /\ DiagnosticsIn(list, n + 1) = Cardinality(seen(n + 1))
    BY DEF DiagnosticsIn, seen
  <2>3. QED
    BY <1>3, <1>4, <1>6, <2>1, <2>2
<1>7. QED
  BY <1>5, <1>6

(* Room is made for one more element, and the other arrays keep theirs.    *)
LEMMA RoomIsMade ==
  ASSUME capacity \in [Arrays -> Nat], NEW array \in Arrays,
         NEW count \in Nat, count <= capacity[array], MakeRoom(array, count)
  PROVE  /\ capacity' \in [Arrays -> Nat]
         /\ count + 1 <= capacity'[array]
         /\ \A a \in Arrays \ {array} : capacity'[a] = capacity[a]
<1> DEFINE c == capacity[array]
           room == IF count = c THEN Doubled(c) ELSE c
<1>1. capacity' = [capacity EXCEPT ![array] = room]
  BY DEF MakeRoom
<1>2. c \in Nat /\ count <= c
  OBVIOUS
<1>3. room \in Nat /\ count + 1 <= room
  <2>1. PICK n : n = c
    OBVIOUS
  <2>2. InitialCapacity \in Nat \ {0}
    BY WrapperAssumption
  <2>3. room = IF count = n THEN IF n = 0 THEN InitialCapacity ELSE 2 * n ELSE n
    BY <2>1 DEF Doubled
  <2> HIDE DEF c, room
  <2>4. QED
    BY <1>2, <2>1, <2>2, <2>3
<1> HIDE DEF room
<1>4. QED
  BY <1>1, <1>3

(* A record the callback stores is the next fact.                          *)
LEMMA RecordStored ==
  ASSUME ObserverTypeOK, ~ScanEnded
  PROVE  /\ delivered + 1 \in DOMAIN records
         /\ records[delivered + 1] \in Record
         /\ records[delivered + 1].fact \in Fact
         /\ delivered \in Nat
<1>1. delivered + 1 \in 1 .. Len(records) /\ delivered \in Nat
  BY DEF ObserverTypeOK, ScanEnded
<1>2. records[delivered + 1] \in Record
  BY <1>1 DEF ObserverTypeOK
<1>3. QED
  BY <1>1, <1>2 DEF ObserverTypeOK, Record


-----------------------------------------------------------------------------
(* assign_macro_callers gives an expansion an owner and changes no more.   *)

(* The two fields it may write.                                            *)
Bestowed(f, g) ==
  \/ g = f
  \/ /\ IsExpansion(f)
     /\ \E i \in DOMAIN facts :
          \/ g = [f EXCEPT !.caller = facts[i].caller,
                           !.callerUsr = facts[i].callerUsr]
          \/ g = [f EXCEPT !.caller = facts[i].name, !.callerUsr = facts[i].usr]

LEMMA PositionsAreIndices ==
  ASSUME facts \in Seq(Fact), NEW f
  PROVE  /\ Surrounding(f) \subseteq DOMAIN facts
         /\ Bodies(f) \subseteq DOMAIN facts
         /\ DOMAIN facts = 1 .. Len(facts) /\ Len(facts) \in Nat
         /\ DOMAIN facts \subseteq Nat \ {0}
<1>1. DOMAIN facts = 1 .. Len(facts) /\ Len(facts) \in Nat
  OBVIOUS
<1>2. Surrounding(f) \subseteq DOMAIN facts /\ Bodies(f) \subseteq DOMAIN facts
  BY Zenon DEF Surrounding, Bodies
<1>3. 1 .. Len(facts) \subseteq Nat \ {0}
  OBVIOUS
<1>4. QED
  BY <1>1, <1>2, <1>3, Zenon

(* The narrowest body is one of the bodies, when there is one.             *)
LEMMA NarrowestBody ==
  ASSUME facts \in Seq(Fact), NEW f
  PROVE  /\ Narrowest(facts, Bodies(f)) # 0
              => Narrowest(facts, Bodies(f)) \in Bodies(f)
         /\ Bodies(f) # {} => Narrowest(facts, Bodies(f)) # 0
<1> DEFINE span(i) == facts[i].end - facts[i].start
           spans == {span(i) : i \in Bodies(f)}
           narrowest == {i \in Bodies(f) :
             \A j \in Bodies(f) :
               facts[i].end - facts[i].start <= facts[j].end - facts[j].start}
<1>1. narrowest \subseteq Bodies(f) /\ narrowest \subseteq Nat \ {0}
  BY PositionsAreIndices
<1>2. Narrowest(facts, Bodies(f)) = First(narrowest)
  BY DEF Narrowest
<1>3. ASSUME Bodies(f) # {} PROVE narrowest # {}
  <2>1. \A i \in Bodies(f) : span(i) \in Nat
    <3> SUFFICES ASSUME NEW i \in Bodies(f) PROVE span(i) \in Nat
      OBVIOUS
    <3>1. facts[i] \in Fact
      BY PositionsAreIndices
    <3>2. facts[i].start \in Nat /\ facts[i].end \in Nat
      BY <3>1, Fields
    <3>3. facts[i].start <= facts[i].end
      BY DEF Bodies
    <3>4. QED
      BY <3>2, <3>3
  <2>2. spans \in SUBSET Nat /\ spans # {}
    <3> HIDE DEF span
    <3>1. QED
      BY <1>3, <2>1
  <2>3. PICK least \in spans : \A other \in spans : least <= other
    <3> HIDE DEF spans
    <3>1. QED
      BY <2>2, LeastMember
  <2>4. PICK i \in Bodies(f) : least = span(i)
    OBVIOUS
  <2>5. i \in narrowest
    BY <2>3, <2>4
  <2>6. QED
    BY <2>5
<1> HIDE DEF narrowest
<1>4. QED
  BY <1>1, <1>2, <1>3, FirstFound

LEMMA OwnedBestows ==
  ASSUME facts \in Seq(Fact), NEW f \in Fact
  PROVE  Bestowed(f, Owned(f))
<1>1. CASE ~Unowned(f)
  BY <1>1 DEF Owned, Bestowed
<1>2. CASE Unowned(f)
  <2> DEFINE c == First(Surrounding(f))
             g == OwnedByCall(f)
             b == Narrowest(facts, Bodies(g))
  <2>1. IsExpansion(f) /\ Owned(f) = OwnedByBody(g)
    BY <1>2 DEF Unowned, Owned
  <2>2. c # 0 => c \in DOMAIN facts
    BY FirstFound, PositionsAreIndices
  <2>3. b # 0 => b \in DOMAIN facts
    BY NarrowestBody, PositionsAreIndices
  <2>4. \/ c = 0 /\ g = f
        \/ c # 0 /\ g = [f EXCEPT !.caller = facts[c].caller,
                                  !.callerUsr = facts[c].callerUsr]
    BY DEF OwnedByCall
  <2>5. \/ Owned(f) = g
        \/ b # 0 /\ Owned(f) = [g EXCEPT !.caller = facts[b].name,
                                         !.callerUsr = facts[b].usr]
    BY <2>1 DEF OwnedByBody
  <2> HIDE DEF c, g, b
  <2>6. CASE Owned(f) = g
    BY <2>1, <2>2, <2>4, <2>6 DEF Bestowed
  <2>7. CASE b # 0 /\ Owned(f) = [g EXCEPT !.caller = facts[b].name,
                                           !.callerUsr = facts[b].usr]
    <3>1. [g EXCEPT !.caller = facts[b].name, !.callerUsr = facts[b].usr]
            = [f EXCEPT !.caller = facts[b].name, !.callerUsr = facts[b].usr]
      BY <2>4 DEF Fact
    <3>2. QED
      BY <2>1, <2>3, <2>7, <3>1 DEF Bestowed
  <2>8. QED
    BY <2>5, <2>6, <2>7
<1>3. QED
  BY <1>1, <1>2

LEMMA OwnedKeeps ==
  ASSUME facts \in Seq(Fact), NEW f \in Fact
  PROVE  /\ Owned(f) \in Fact
         /\ Owned(f).kind = f.kind /\ Owned(f).definition = f.definition
         /\ Owned(f).path = f.path
         /\ Owned(f).start = f.start /\ Owned(f).end = f.end
         /\ Unassigned(Owned(f)) = Unassigned(f)
         /\ ~IsExpansion(f) => Owned(f) = f
<1>1. Bestowed(f, Owned(f))
  BY OwnedBestows
<1>2. \A i \in DOMAIN facts : facts[i] \in Fact
  BY PositionsAreIndices
<1>3. CASE Owned(f) = f
  BY <1>3
<1>4. CASE IsExpansion(f) /\ Owned(f) # f
  <2>1. PICK caller \in Texts, usr \in Texts :
          Owned(f) = [f EXCEPT !.caller = caller, !.callerUsr = usr]
    BY <1>1, <1>2, <1>4, Fields DEF Bestowed
  <2>2. QED
    BY <1>4, <2>1 DEF Fact, Unassigned, IsExpansion
<1>5. QED
  BY <1>1, <1>3, <1>4 DEF Bestowed


-----------------------------------------------------------------------------
(* deduplicate_facts keeps one of every class of alike facts.              *)

LEMMA AlikeIsEquivalence ==
  /\ \A f : Alike(f, f)
  /\ \A f, g : Alike(f, g) => Alike(g, f)
  /\ \A f, g, h : Alike(f, g) /\ Alike(g, h) => Alike(f, h)
BY DEF Alike

LEMMA RepresentativesKept ==
  ASSUME facts \in Seq(Fact), NEW K \in Representatives
  PROVE  LET S == {facts[k] : k \in K} IN
           /\ S \subseteq Fact /\ IsFiniteSet(S)
           /\ Cardinality(S) <= Len(facts)
           /\ \A f, g \in S : Alike(f, g) => f = g
           /\ \A i \in DOMAIN facts : \E f \in S : Alike(f, facts[i])
<1> DEFINE S == {facts[k] : k \in K}
           class(i) == {k \in K : Alike(facts[k], facts[i])}
           pick == [k \in K |-> facts[k]]
<1>1. DOMAIN facts = 1 .. Len(facts) /\ Len(facts) \in Nat
  OBVIOUS
<1>2. /\ K \subseteq DOMAIN facts
      /\ \A i \in DOMAIN facts : Cardinality(class(i)) = 1
  BY DEF Representatives
<1>3. S \subseteq Fact
  BY <1>1, <1>2
<1>4. IsFiniteSet(K) /\ Cardinality(K) <= Len(facts)
  <2>1. IsFiniteSet(1 .. Len(facts)) /\ Cardinality(1 .. Len(facts)) = Len(facts)
    BY <1>1, FS_Interval
  <2>2. QED
    BY <1>1, <1>2, <2>1, FS_Subset
<1>5. IsFiniteSet(S) /\ Cardinality(S) <= Cardinality(K)
  <2>1. pick \in Surjection(K, S)
    BY DEF Surjection
  <2> HIDE DEF pick, S
  <2>2. QED
    BY <1>4, <2>1, FS_Surjection
<1>6. ASSUME NEW i \in DOMAIN facts PROVE \E k \in K : class(i) = {k}
  <2>1. IsFiniteSet(class(i))
    BY <1>4, FS_Subset
  <2>2. Cardinality(class(i)) = 1
    BY <1>2
  <2>3. class(i) \subseteq K
    OBVIOUS
  <2> HIDE DEF class
  <2>4. \E k : class(i) = {k}
    BY <2>1, <2>2, FS_Singleton
  <2>5. QED
    BY <2>3, <2>4
<1>7. \A f, g \in S : Alike(f, g) => f = g
  <2> SUFFICES ASSUME NEW k \in K, NEW l \in K, Alike(facts[k], facts[l])
               PROVE  facts[k] = facts[l]
    OBVIOUS
  <2>1. k \in class(l) /\ l \in class(l)
    BY AlikeIsEquivalence
  <2>2. QED
    BY <1>2, <1>6, <2>1
<1>8. \A i \in DOMAIN facts : \E f \in S : Alike(f, facts[i])
  BY <1>6
<1>9. Cardinality(S) <= Len(facts)
  <2>1. Cardinality(S) \in Nat /\ Cardinality(K) \in Nat
    BY <1>4, <1>5, FS_CardinalityType
  <2> HIDE DEF S
  <2>2. QED
    BY <1>1, <1>4, <1>5, <2>1
<1>10. QED
  BY <1>3, <1>5, <1>7, <1>8, <1>9

LEMMA KeptInOrder ==
  ASSUME facts \in Seq(Fact), NEW K \in Representatives
  PROVE  /\ InOrder(K) \in Seq(Fact) /\ Len(InOrder(K)) <= Len(facts)
         /\ InFactOrder(InOrder(K))
         /\ \A i \in DOMAIN facts : \E n \in DOMAIN InOrder(K) :
              Alike(InOrder(K)[n], facts[i])
         /\ \A n \in DOMAIN InOrder(K) : \E i \in DOMAIN facts :
              InOrder(K)[n] = facts[i]
<1> DEFINE S == {facts[k] : k \in K}
<1>1. K \subseteq DOMAIN facts
  BY DEF Representatives
<1>2. \A f \in S : \E i \in DOMAIN facts : f = facts[i]
  BY <1>1
<1>3. /\ S \subseteq Fact /\ IsFiniteSet(S) /\ Cardinality(S) <= Len(facts)
      /\ \A f, g \in S : Alike(f, g) => f = g
      /\ \A i \in DOMAIN facts : \E f \in S : Alike(f, facts[i])
  BY RepresentativesKept
<1>4. InOrder(K) = Sorted(S)
  BY DEF InOrder
<1> HIDE DEF S
<1>5. /\ Sorted(S) \in Seq(S) /\ Len(Sorted(S)) = Cardinality(S)
      /\ \A f \in S : \E n \in DOMAIN Sorted(S) : Sorted(S)[n] = f
      /\ InFactOrder(Sorted(S))
  BY <1>3, SortedIsSorted
<1>6. Sorted(S) \in Seq(Fact)
  BY <1>3, <1>5
<1>7. \A n \in DOMAIN Sorted(S) : Sorted(S)[n] \in S
  BY <1>5
<1> HIDE DEF Sorted
<1>8. QED
  BY <1>2, <1>3, <1>4, <1>5, <1>6, <1>7

-----------------------------------------------------------------------------
(* The variables of the scan stay in their types and within their arrays.  *)

(* The initial values are of their types.                                  *)
LEMMA ScanInitTyped ==
  ScanInit => ScanTypeOK
<1> SUFFICES ASSUME ScanInit PROVE ScanTypeOK
  OBVIOUS
<1>1. records \in Seq(Record)
  BY ScanAssumption DEF ScanInit
<1>2. facts = <<>> /\ inventory = <<>> /\ findings = <<>>
  BY DEF ScanInit
<1>3. facts \in Seq(Fact) /\ inventory \in Seq(Mapping)
  BY <1>2
<1>4. capacity = [a \in Arrays |-> 0]
  BY DEF ScanInit
<1>5. WithinCapacity
  BY <1>2, <1>4 DEF WithinCapacity, Arrays
<1>6. delivered = 0 /\ parseFailures = 0
  BY DEF ScanInit
<1>7. delivered \in 0 .. Len(records) /\ parseFailures \in 0 .. delivered
  BY <1>1, <1>6
<1>8. capacity \in [Arrays -> Nat]
  BY <1>4
<1>9. stage = "scan" /\ err = FALSE
  BY DEF ScanInit
<1>10. QED
  BY <1>1, <1>2, <1>3, <1>5, <1>7, <1>8, <1>9 DEF ScanTypeOK, ObserverTypeOK

LEMMA ScanStepTyped ==
  ScanTypeOK /\ [ScanNext]_scanVars => ScanTypeOK'
<1> SUFFICES ASSUME ScanTypeOK, [ScanNext]_scanVars PROVE ScanTypeOK'
  OBVIOUS
<1>1. facts \in Seq(Fact) /\ Len(facts) \in Nat
  BY DEF ScanTypeOK
<1>2. CASE ObserveSource
  <2>1. Observe /\ ~ScanEnded /\ stage = "scan"
    BY <1>2 DEF ObserveSource, Observe
  <2>2. /\ delivered + 1 \in DOMAIN records /\ delivered \in Nat
        /\ records[delivered + 1].fact \in Fact
    BY <2>1, RecordStored DEF ScanTypeOK
  <2>3. /\ records' = records /\ inventory' = inventory /\ findings' = findings
        /\ delivered' = delivered + 1
        /\ parseFailures' = Counted(records[delivered + 1])
    BY <2>1 DEF Observe
  <2>4. delivered' \in 0 .. Len(records') /\ parseFailures' \in 0 .. delivered'
    <3>1. delivered + 1 \in 0 .. Len(records)
      BY <2>2 DEF ScanTypeOK, ObserverTypeOK
    <3>2. parseFailures \in 0 .. delivered
      BY DEF ScanTypeOK
    <3>3. Counted(records[delivered + 1]) \in {parseFailures, parseFailures + 1}
      BY <3>2 DEF Counted
    <3>4. QED
      BY <2>2, <2>3, <3>1, <3>2, <3>3
  <2>5. CASE /\ MakeRoom("facts", Len(facts))
             /\ facts' = Append(facts, records[delivered + 1].fact)
             /\ UNCHANGED <<stage, err>>
    <3>1. facts' \in Seq(Fact) /\ Len(facts') = Len(facts) + 1
      BY <1>1, <2>2, <2>5
    <3>2. /\ capacity' \in [Arrays -> Nat]
          /\ Len(facts) + 1 <= capacity'["facts"]
          /\ capacity'["inventory"] = capacity["inventory"]
          /\ capacity'["findings"] = capacity["findings"]
      BY <1>1, <2>5, RoomIsMade DEF ScanTypeOK, WithinCapacity, Arrays
    <3>3. WithinCapacity'
      BY <2>3, <3>1, <3>2 DEF ScanTypeOK, WithinCapacity
    <3>4. QED
      BY <2>1, <2>3, <2>4, <2>5, <3>1, <3>2, <3>3 DEF ScanTypeOK, ObserverTypeOK
  <2>6. CASE Fails /\ UNCHANGED <<facts, capacity>>
    BY <2>3, <2>4, <2>6 DEF ScanTypeOK, ObserverTypeOK, WithinCapacity, Fails
  <2>7. QED
    BY <2>1, <2>5, <2>6 DEF Observe
<1>3. CASE SourceScanFails
  BY <1>3 DEF SourceScanFails, ScanFails, Fails, ScanTypeOK, ObserverTypeOK,
              WithinCapacity
<1>4. CASE SourceScanEnds
  BY <1>4 DEF SourceScanEnds, modelVars, observerVars, ScanTypeOK,
              ObserverTypeOK, WithinCapacity
<1>5. CASE AssignMacroCallers
  <2>1. \A i \in 1 .. Len(facts) : Owned(facts[i]) \in Fact
    BY <1>1, OwnedKeeps
  <2>2. facts' = [i \in 1 .. Len(facts) |-> Owned(facts[i])]
    BY <1>1, <1>5 DEF AssignMacroCallers
  <2>3. facts' \in Seq(Fact) /\ Len(facts') = Len(facts)
    BY <1>1, <2>1, <2>2
  <2>4. QED
    BY <1>5, <2>3 DEF AssignMacroCallers, observerVars, ScanTypeOK,
                      ObserverTypeOK, WithinCapacity
<1>6. CASE Deduplicate
  <2>1. PICK K \in Representatives : facts' = InOrder(K)
    BY <1>6 DEF Deduplicate
  <2>2. facts' \in Seq(Fact) /\ Len(facts') <= Len(facts)
    BY <1>1, <2>1, KeptInOrder
  <2>3. Len(facts') \in Nat
    BY <2>2
  <2>4. capacity' = capacity /\ inventory' = inventory /\ findings' = findings
    BY <1>6 DEF Deduplicate
  <2>5. capacity["facts"] \in Nat /\ Len(facts) <= capacity["facts"]
    BY DEF ScanTypeOK, WithinCapacity, Arrays
  <2>6. Len(facts') <= capacity'["facts"]
    BY <1>1, <2>2, <2>3, <2>4, <2>5
  <2>7. WithinCapacity'
    BY <2>4, <2>6 DEF ScanTypeOK, WithinCapacity
  <2>8. QED
    BY <1>6, <2>2, <2>4, <2>7 DEF Deduplicate, observerVars, ScanTypeOK,
                                  ObserverTypeOK
<1>7. CASE UNCHANGED scanVars
  BY <1>7 DEF scanVars, modelVars, observerVars, ScanTypeOK, ObserverTypeOK,
              WithinCapacity
<1>8. QED
  BY <1>2, <1>3, <1>4, <1>5, <1>6, <1>7 DEF ScanNext, Scan, ScanStopped

(* The variables of the scan keep their types, no array holds more than    *)
(* its capacity, and no more diagnostics count than records were seen.     *)
THEOREM ScanTypeCorrect == ScanSpec => []ScanTypeOK
<1>1. ScanInit => ScanTypeOK
  BY ScanInitTyped
<1>2. ScanTypeOK /\ [ScanNext]_scanVars => ScanTypeOK'
  BY ScanStepTyped
<1>3. QED
  BY <1>1, <1>2, PTL DEF ScanSpec


-----------------------------------------------------------------------------
(* The owner of an expansion.                                              *)

(* While the facts are the records, an expansion inside a body is given an *)
(* owner: that of a call around it, a body around it, or its own.          *)
LEMMA OwnerIsFound ==
  ASSUME facts \in Seq(Fact), Len(facts) = Len(records),
         records \in Seq(Record),
         \A n \in 1 .. Len(facts) : facts[n] = records[n].fact,
         NEW f \in Fact, \E n \in DOMAIN records : f = records[n].fact,
         IsExpansion(f), Bodies(f) # {}
  PROVE  LET g == Owned(f) IN
           /\ \/ \E c \in Surrounding(f) : facts[c].callerUsr = g.callerUsr
              \/ \E b \in Bodies(f) : facts[b].usr = g.callerUsr
              \/ \E n \in DOMAIN records :
                   records[n].fact.caller # "" /\ records[n].fact = g
           /\ \/ g.callerUsr # ""
              \/ \E n \in DOMAIN records : Anonymous(records[n].fact)
<1>1. DOMAIN records = DOMAIN facts /\ DOMAIN facts = 1 .. Len(facts)
  OBVIOUS
<1>2. CASE ~Unowned(f)
  BY <1>2 DEF Owned, Unowned, Anonymous
<1>3. CASE Unowned(f)
  <2> DEFINE c == First(Surrounding(f))
             g == OwnedByCall(f)
             b == Narrowest(facts, Bodies(g))
  <2>1. f.caller = "" /\ Owned(f) = OwnedByBody(g)
    BY <1>3 DEF Unowned, Owned
  <2>2. c # 0 => c \in Surrounding(f)
    BY FirstFound, PositionsAreIndices
  <2>3. /\ c = 0 => g = f
        /\ c # 0 => g = [f EXCEPT !.caller = facts[c].caller,
                                  !.callerUsr = facts[c].callerUsr]
    BY DEF OwnedByCall
  <2>4. g.path = f.path /\ g.start = f.start /\ g.end = f.end
    <3> HIDE DEF g, c
    <3>1. QED
      BY <2>3 DEF Fact
  <2>5. Bodies(g) = Bodies(f)
    BY <2>4, Zenon DEF Bodies
  <2>6. b \in Bodies(f)
    BY <2>5, NarrowestBody
  <2>7. /\ g.caller # "" => Owned(f) = g
        /\ g.caller = "" =>
             Owned(f) = [g EXCEPT !.caller = facts[b].name,
                                  !.callerUsr = facts[b].usr]
    <3>1. b # 0
      BY <2>5, NarrowestBody
    <3>2. QED
      BY <2>1, <3>1 DEF OwnedByBody
  <2> HIDE DEF c, g, b
  <2>8. CASE g.caller # ""
    <3>1. c # 0
      BY <2>1, <2>3, <2>8
    <3>2. Owned(f).callerUsr = facts[c].callerUsr
      BY <2>3, <2>7, <2>8, <3>1 DEF Fact
    <3>3. facts[c].callerUsr # ""
      BY <2>2, <3>1 DEF Surrounding
    <3>4. QED
      BY <2>2, <3>1, <3>2, <3>3
  <2>9. CASE g.caller = ""
    <3>1. Owned(f).callerUsr = facts[b].usr
      <4>1. DOMAIN g = DOMAIN f /\ "callerUsr" \in DOMAIN f
        BY <2>3 DEF Fact
      <4>2. QED
        BY <2>7, <2>9, <4>1
    <3>2. b \in DOMAIN facts /\ IsDefinition(facts[b])
      BY <2>6 DEF Bodies
    <3>3. facts[b].usr = "" => Anonymous(records[b].fact)
      BY <1>1, <3>2 DEF Anonymous
    <3>4. QED
      BY <1>1, <2>6, <3>1, <3>2, <3>3
  <2>10. QED
    BY <2>8, <2>9
<1>4. QED
  BY <1>2, <1>3


(* Facts that keep kind, extent and identity can be the owner they were.   *)
LEMMA OwnerStays ==
  ASSUME records' = records, NEW g, OwnerFound(g),
         \A i \in DOMAIN facts : ~IsExpansion(facts[i]) => \E j \in DOMAIN facts' :
            /\ facts'[j].kind = facts[i].kind
            /\ facts'[j].definition <=> facts[i].definition
            /\ facts'[j].path = facts[i].path
            /\ facts'[j].start = facts[i].start /\ facts'[j].end = facts[i].end
            /\ facts'[j].usr = facts[i].usr
            /\ facts'[j].callerUsr = facts[i].callerUsr
  PROVE  OwnerFound(g)'
<1>1. ASSUME NEW c \in Surrounding(g)
      PROVE  \E d \in Surrounding(g)' : facts'[d].callerUsr = facts[c].callerUsr
  <2>1. c \in DOMAIN facts /\ ~IsExpansion(facts[c])
    BY DEF Surrounding, IsExpansion
  <2>2. PICK d \in DOMAIN facts' :
            /\ facts'[d].kind = facts[c].kind
            /\ facts'[d].path = facts[c].path
            /\ facts'[d].start = facts[c].start /\ facts'[d].end = facts[c].end
            /\ facts'[d].callerUsr = facts[c].callerUsr
    BY <2>1
  <2>3. d \in Surrounding(g)'
    BY <2>2, Zenon DEF Surrounding
  <2>4. QED
    BY <2>2, <2>3
<1>2. ASSUME NEW b \in Bodies(g)
      PROVE  \E d \in Bodies(g)' : facts'[d].usr = facts[b].usr
  <2>1. b \in DOMAIN facts /\ ~IsExpansion(facts[b])
    BY DEF Bodies, IsDefinition, IsExpansion
  <2>2. PICK d \in DOMAIN facts' :
            /\ facts'[d].kind = facts[b].kind
            /\ facts'[d].definition <=> facts[b].definition
            /\ facts'[d].path = facts[b].path
            /\ facts'[d].start = facts[b].start /\ facts'[d].end = facts[b].end
            /\ facts'[d].usr = facts[b].usr
    BY <2>1
  <2>3. d \in Bodies(g)'
    BY <2>2, Zenon DEF Bodies, IsDefinition
  <2>4. QED
    BY <2>2, <2>3
<1>3. \/ \E d \in Surrounding(g)' : facts'[d].callerUsr = g.callerUsr
      \/ \E d \in Bodies(g)' : facts'[d].usr = g.callerUsr
      \/ \E n \in DOMAIN records' :
           records'[n].fact.caller # "" /\ records'[n].fact = g
  <2>1. ASSUME NEW c \in Surrounding(g), facts[c].callerUsr = g.callerUsr
        PROVE  \E d \in Surrounding(g)' : facts'[d].callerUsr = g.callerUsr
    <3>1. PICK d \in Surrounding(g)' : facts'[d].callerUsr = facts[c].callerUsr
      BY <1>1
    <3>2. QED
      BY <2>1, <3>1
  <2>2. ASSUME NEW b \in Bodies(g), facts[b].usr = g.callerUsr
        PROVE  \E d \in Bodies(g)' : facts'[d].usr = g.callerUsr
    <3>1. PICK d \in Bodies(g)' : facts'[d].usr = facts[b].usr
      BY <1>2
    <3>2. QED
      BY <2>2, <3>1
  <2>3. \A n \in DOMAIN records : n \in DOMAIN records' /\ records'[n] = records[n]
    OBVIOUS
  <2>4. QED
    BY <2>1, <2>2, <2>3, Zenon DEF OwnerFound
<1>4. g.callerUsr # "" \/ \E n \in DOMAIN records' : Anonymous(records'[n].fact)
  BY Zenon DEF OwnerFound
<1>5. QED
  BY <1>3, <1>4, Zenon DEF OwnerFound


-----------------------------------------------------------------------------
(* What holds while the sources are scanned is inductive.                  *)

LEMMA SeenInit ==
  ScanInit => SeenInv
<1> SUFFICES ASSUME ScanInit PROVE SeenInv
  OBVIOUS
<1>1. /\ stage = "scan" /\ facts = <<>> /\ delivered = 0 /\ parseFailures = 0
  BY DEF ScanInit
<1>2. DiagnosticsIn(records, 0) \in Nat /\ DiagnosticsIn(records, 0) <= 0
  BY OneMoreSeen
<1>3. CountedInv
  BY <1>1, <1>2 DEF CountedInv
<1>4. RecordedInv
  BY <1>1 DEF RecordedInv
<1>5. QED
  BY <1>1, <1>3, <1>4 DEF SeenInv, CompleteInv, AssignedInv, KeptInv

(* The callback stores the record it counted, or the scan is over.         *)
LEMMA SeenObserve ==
  ScanTypeOK /\ SeenInv /\ ObserveSource => SeenInv'
<1> SUFFICES ASSUME ScanTypeOK, SeenInv, ObserveSource PROVE SeenInv'
  OBVIOUS
<1>1. Observe /\ ~ScanEnded /\ stage = "scan"
  BY DEF ObserveSource, Observe
<1>2. delivered \in Nat /\ parseFailures \in Nat /\ facts \in Seq(Fact)
  BY DEF ScanTypeOK, ObserverTypeOK
<1>3. /\ records' = records /\ delivered' = delivered + 1
      /\ parseFailures' = Counted(records[delivered + 1])
  BY <1>1 DEF Observe
<1>4. CountedInv'
  <2>1. parseFailures' = DiagnosticsIn(records, delivered + 1)
    BY <1>2, <1>3, OneMoreSeen DEF SeenInv, CountedInv, Counted
  <2>2. QED
    BY <1>3, <2>1 DEF CountedInv
<1>5. CASE facts' = Append(facts, records[delivered + 1].fact) /\ stage' = stage
  <2>1. /\ Len(facts) = delivered
        /\ \A n \in 1 .. delivered : facts[n] = records[n].fact
    BY <1>1 DEF SeenInv, RecordedInv
  <2>2. /\ Len(facts') = delivered + 1
        /\ \A n \in 1 .. delivered + 1 : facts'[n] = records[n].fact
    BY <1>2, <1>5, <2>1
  <2>3. RecordedInv'
    BY <1>3, <2>2 DEF RecordedInv
  <2>4. stage' = "scan"
    BY <1>1, <1>5
  <2>5. QED
    BY <1>4, <2>3, <2>4 DEF SeenInv, CompleteInv, AssignedInv, KeptInv
<1>6. CASE stage' = "exit"
  BY <1>4, <1>6 DEF SeenInv, RecordedInv, CompleteInv, AssignedInv, KeptInv
<1>7. QED
  BY <1>1, <1>5, <1>6 DEF Observe, Fails

(* assign_macro_callers gives every expansion inside a body its owner.     *)
LEMMA SeenAssign ==
  ScanTypeOK /\ SeenInv /\ AssignMacroCallers => SeenInv'
<1> SUFFICES ASSUME ScanTypeOK, SeenInv, AssignMacroCallers PROVE SeenInv'
  OBVIOUS
<1>1. /\ stage = "macros" /\ stage' = "deduplicate" /\ records' = records
      /\ delivered' = delivered /\ parseFailures' = parseFailures
  BY DEF AssignMacroCallers, observerVars
<1>2. facts \in Seq(Fact) /\ records \in Seq(Record)
  BY DEF ScanTypeOK, ObserverTypeOK
<1>3. /\ Len(facts) = Len(records)
      /\ \A n \in 1 .. Len(facts) : facts[n] = records[n].fact
  BY <1>1 DEF SeenInv, RecordedInv, CompleteInv
<1>4. facts' = [n \in 1 .. Len(facts) |-> Owned(facts[n])]
  BY <1>2 DEF AssignMacroCallers
<1>5. DOMAIN facts' = 1 .. Len(facts) /\ DOMAIN facts = 1 .. Len(facts)
      /\ Len(facts') = Len(facts)
  BY <1>2, <1>4
<1>6. \A n \in 1 .. Len(facts) :
        /\ facts[n] \in Fact /\ facts'[n] = Owned(facts[n])
        /\ facts'[n].kind = facts[n].kind
        /\ facts'[n].definition = facts[n].definition
        /\ facts'[n].path = facts[n].path
        /\ facts'[n].start = facts[n].start /\ facts'[n].end = facts[n].end
        /\ Unassigned(facts'[n]) = Unassigned(facts[n])
        /\ ~IsExpansion(facts[n]) => facts'[n] = facts[n]
  BY <1>2, <1>4, OwnedKeeps
<1>7. ASSUME NEW n \in 1 .. Len(facts), NEW g, g = facts'[n],
             IsExpansion(g), Bodies(g)' # {}
      PROVE  OwnerFound(g)'
  <2>1. PICK f \in Fact : f = facts[n]
    BY <1>6
  <2>2. /\ g = Owned(f) /\ IsExpansion(f) /\ g.path = f.path
        /\ g.start = f.start /\ g.end = f.end
    BY <1>6, <1>7, <2>1 DEF IsExpansion
  <2>3. Bodies(f) # {}
    <3>1. PICK b \in Bodies(g)' : TRUE
      BY <1>7
    <3>2. b \in Bodies(f)
      BY <1>5, <1>6, <2>2, <3>1, Zenon DEF Bodies, IsDefinition
    <3>3. QED
      BY <3>2
  <2>4. Surrounding(g) = Surrounding(f) /\ Bodies(g) = Bodies(f)
    BY <2>2, Zenon DEF Surrounding, Bodies
  <2>5. \E m \in DOMAIN records : f = records[m].fact
    BY <1>2, <1>3, <2>1
  <2>6. /\ \/ \E c \in Surrounding(f) : facts[c].callerUsr = g.callerUsr
           \/ \E b \in Bodies(f) : facts[b].usr = g.callerUsr
           \/ \E m \in DOMAIN records :
                records[m].fact.caller # "" /\ records[m].fact = g
        /\ \/ g.callerUsr # ""
           \/ \E m \in DOMAIN records : Anonymous(records[m].fact)
    BY <1>2, <1>3, <2>2, <2>3, <2>5, OwnerIsFound
  <2>7. OwnerFound(g)
    BY <2>4, <2>6 DEF OwnerFound
  <2>8. \A i \in DOMAIN facts :
          ~IsExpansion(facts[i]) => i \in DOMAIN facts' /\ facts'[i] = facts[i]
    BY <1>5, <1>6
  <2>9. QED
    BY <1>1, <2>7, <2>8, OwnerStays
<1>8. AssignedInv'
  <2>1. ASSUME NEW n \in 1 .. Len(facts)
        PROVE  (IsExpansion(facts[n]) /\ Bodies(facts[n]) # {}
                  => OwnerFound(facts[n]))'
    <3>1. PICK g : g = facts'[n]
      OBVIOUS
    <3>2. IsExpansion(g) /\ Bodies(g)' # {} => OwnerFound(g)'
      BY <1>7, <3>1
    <3>3. QED
      BY <3>1, <3>2 DEF IsExpansion, OwnerFound, Bodies, Surrounding
  <2>2. \A n \in 1 .. Len(facts) :
          Unassigned(facts'[n]) = Unassigned(records'[n].fact)
    BY <1>1, <1>3, <1>6
  <2>3. Len(facts') = Len(records')
    BY <1>1, <1>3, <1>5
  <2>4. QED
    BY <1>5, <2>1, <2>2, <2>3 DEF AssignedInv
<1>9. CountedInv' /\ RecordedInv' /\ CompleteInv' /\ KeptInv'
  BY <1>1 DEF SeenInv, CountedInv, RecordedInv, CompleteInv, KeptInv
<1>10. QED
  BY <1>8, <1>9 DEF SeenInv


(* Alike facts of one scan are interchangeable but for include and flags.  *)
LEMMA AlikeShares ==
  ASSUME NEW f \in Fact, NEW g \in Fact, Alike(f, g)
  PROVE  /\ f.kind = g.kind /\ f.path = g.path
         /\ f.definition <=> g.definition
         /\ f.start = g.start /\ f.end = g.end
         /\ f.usr = g.usr /\ f.callerUsr = g.callerUsr
         /\ Alike(Unassigned(f), Unassigned(g))
<1>1. SameFields(f, g)
  BY AlikeIsSameFields
<1>2. f.kind = g.kind
  BY <1>1, Fields, KindRanks DEF SameFields
<1>3. f.path = g.path /\ f.usr = g.usr /\ f.callerUsr = g.callerUsr
  <2>1. \A t, u \in Texts : Rank[t] = Rank[u] => t = u
    BY WrapperAssumption, Zenon
  <2>2. QED
    BY <1>1, <2>1, Fields, Zenon DEF SameFields
<1>4. f.definition <=> g.definition
  BY <1>1 DEF SameFields
<1>5. f.start = g.start /\ f.end = g.end
  BY <1>1 DEF SameFields
<1>6. Alike(Unassigned(f), Unassigned(g))
  <2>1. IsExpansion(f) <=> IsExpansion(g)
    BY <1>2, <1>4 DEF IsExpansion
  <2>2. CASE ~IsExpansion(f)
    BY <2>1, <2>2 DEF Unassigned
  <2>3. CASE IsExpansion(f)
    <3> DEFINE p == [f EXCEPT !.caller = "", !.callerUsr = ""]
               q == [g EXCEPT !.caller = "", !.callerUsr = ""]
    <3>1. p \in Fact /\ q \in Fact
      BY WrapperAssumption DEF Fact
    <3>2. SameFields(p, q)
      BY <1>1 DEF SameFields, Fact
    <3>3. QED
      BY <2>1, <2>3, <3>1, <3>2, AlikeIsSameFields DEF Unassigned
  <2>4. QED
    BY <2>2, <2>3
<1>7. QED
  BY <1>2, <1>3, <1>4, <1>5, <1>6

(* deduplicate_facts loses no fact, invents none and keeps every owner.    *)
LEMMA SeenDeduplicate ==
  ScanTypeOK /\ SeenInv /\ Deduplicate => SeenInv'
<1> SUFFICES ASSUME ScanTypeOK, SeenInv, Deduplicate PROVE SeenInv'
  OBVIOUS
<1>1. /\ stage = "deduplicate" /\ stage' = "scanned" /\ records' = records
      /\ delivered' = delivered /\ parseFailures' = parseFailures
  BY DEF Deduplicate, observerVars
<1>2. facts \in Seq(Fact) /\ records \in Seq(Record)
  BY DEF ScanTypeOK, ObserverTypeOK
<1>3. /\ DOMAIN facts = DOMAIN records
      /\ \A n \in DOMAIN facts :
           /\ facts[n] \in Fact
           /\ Unassigned(facts[n]) = Unassigned(records[n].fact)
           /\ IsExpansion(facts[n]) /\ Bodies(facts[n]) # {}
                => OwnerFound(facts[n])
  BY <1>1, <1>2 DEF SeenInv, AssignedInv
<1>4. PICK K \in Representatives : facts' = InOrder(K)
  BY DEF Deduplicate
<1>5. /\ facts' \in Seq(Fact) /\ InFactOrder(facts')
      /\ \A i \in DOMAIN facts : \E n \in DOMAIN facts' : Alike(facts'[n], facts[i])
      /\ \A n \in DOMAIN facts' : \E i \in DOMAIN facts : facts'[n] = facts[i]
  BY <1>2, <1>4, KeptInOrder
<1>6. \A n \in DOMAIN facts' : facts'[n] \in Fact
  BY <1>3, <1>5
<1>7. ASSUME NEW i \in DOMAIN facts
      PROVE  \E j \in DOMAIN facts' :
               /\ facts'[j].kind = facts[i].kind
               /\ facts'[j].definition <=> facts[i].definition
               /\ facts'[j].path = facts[i].path
               /\ facts'[j].start = facts[i].start
               /\ facts'[j].end = facts[i].end
               /\ facts'[j].usr = facts[i].usr
               /\ facts'[j].callerUsr = facts[i].callerUsr
               /\ Alike(Unassigned(facts'[j]), Unassigned(facts[i]))
  <2>1. PICK j \in DOMAIN facts' : Alike(facts'[j], facts[i])
    BY <1>5
  <2>2. facts'[j] \in Fact /\ facts[i] \in Fact
    BY <1>3, <1>6
  <2>3. QED
    BY <2>1, <2>2, AlikeShares
<1>8. ASSUME NEW n \in DOMAIN facts', NEW g, g = facts'[n],
             IsExpansion(g), Bodies(g)' # {}
      PROVE  OwnerFound(g)'
  <2>1. PICK i \in DOMAIN facts : g = facts[i]
    BY <1>5, <1>8
  <2>2. PICK b \in Bodies(g)' : TRUE
    BY <1>8
  <2>3. /\ b \in DOMAIN facts' /\ facts'[b].kind = "FUNCTION"
        /\ facts'[b].definition /\ facts'[b].start <= facts'[b].end
        /\ g.start <= g.end /\ facts'[b].path = g.path
        /\ facts'[b].start <= g.start /\ g.end <= facts'[b].end
    BY <2>2, Zenon DEF Bodies, IsDefinition
  <2>4. PICK a \in DOMAIN facts : facts'[b] = facts[a]
    BY <1>5, <2>3
  <2>5. a \in Bodies(g)
    BY <2>3, <2>4 DEF Bodies, IsDefinition
  <2>6. OwnerFound(g)
    BY <1>3, <1>8, <2>1, <2>5
  <2>7. QED
    BY <1>1, <1>7, <2>6, OwnerStays
<1>9. KeptInv'
  <2>1. ASSUME NEW n \in DOMAIN facts'
        PROVE  (IsExpansion(facts[n]) /\ Bodies(facts[n]) # {}
                  => OwnerFound(facts[n]))'
    <3>1. PICK g : g = facts'[n]
      OBVIOUS
    <3>2. IsExpansion(g) /\ Bodies(g)' # {} => OwnerFound(g)'
      BY <1>8, <3>1
    <3>3. QED
      BY <3>1, <3>2 DEF IsExpansion, OwnerFound, Bodies, Surrounding
  <2>2. \A n \in DOMAIN records' : \E i \in DOMAIN facts' :
          Alike(Unassigned(facts'[i]), Unassigned(records'[n].fact))
    BY <1>1, <1>3, <1>7
  <2>3. \A i \in DOMAIN facts' : \E n \in DOMAIN records' :
          Unassigned(facts'[i]) = Unassigned(records'[n].fact)
    BY <1>1, <1>3, <1>5
  <2>4. QED
    BY <1>5, <2>1, <2>2, <2>3 DEF KeptInv, InFactOrder
<1>10. CountedInv' /\ RecordedInv' /\ CompleteInv' /\ AssignedInv'
  BY <1>1 DEF SeenInv, CountedInv, RecordedInv, CompleteInv, AssignedInv
<1>11. QED
  BY <1>9, <1>10 DEF SeenInv

LEMMA SeenStep ==
  ScanTypeOK /\ SeenInv /\ [ScanNext]_scanVars => SeenInv'
<1> SUFFICES ASSUME ScanTypeOK, SeenInv, [ScanNext]_scanVars PROVE SeenInv'
  OBVIOUS
<1>1. CASE SourceScanFails
  BY <1>1 DEF SourceScanFails, ScanFails, Fails, SeenInv, CountedInv,
              RecordedInv, CompleteInv, AssignedInv, KeptInv
<1>2. CASE SourceScanEnds
  BY <1>2 DEF SourceScanEnds, ScanEnded, modelVars, observerVars, SeenInv,
              CountedInv, RecordedInv, CompleteInv, AssignedInv, KeptInv
<1>3. CASE UNCHANGED scanVars
  <2>1. /\ stage' = stage /\ facts' = facts /\ records' = records
        /\ delivered' = delivered /\ parseFailures' = parseFailures
    BY <1>3 DEF scanVars, modelVars, observerVars
  <2>2. CountedInv' /\ RecordedInv' /\ CompleteInv'
    BY <2>1 DEF SeenInv, CountedInv, RecordedInv, CompleteInv
  <2>3. ASSUME NEW n \in DOMAIN facts,
               IsExpansion(facts[n]) /\ Bodies(facts[n]) # {}
                 => OwnerFound(facts[n])
        PROVE  (IsExpansion(facts[n]) /\ Bodies(facts[n]) # {}
                  => OwnerFound(facts[n]))'
    <3>1. PICK g : g = facts[n]
      OBVIOUS
    <3>2. Bodies(g)' = Bodies(g)
      BY <2>1, Zenon DEF Bodies
    <3>3. OwnerFound(g) => OwnerFound(g)'
      BY <2>1, OwnerStays
    <3>4. IsExpansion(g) /\ Bodies(g)' # {} => OwnerFound(g)'
      BY <2>3, <3>1, <3>2, <3>3
    <3>5. g = facts'[n]
      BY <2>1, <3>1
    <3>6. QED
      BY <3>4, <3>5 DEF IsExpansion, OwnerFound, Bodies, Surrounding
  <2>4. AssignedInv'
    BY <2>1, <2>3 DEF SeenInv, AssignedInv
  <2>5. KeptInv'
    BY <2>1, <2>3 DEF SeenInv, KeptInv, InFactOrder
  <2>6. QED
    BY <2>2, <2>4, <2>5 DEF SeenInv
<1>4. QED
  BY <1>1, <1>2, <1>3, SeenObserve, SeenAssign, SeenDeduplicate
     DEF ScanNext, Scan, ScanStopped

LEMMA SeenAlways == ScanSpec => []SeenInv
<1>1. ScanInit => ScanTypeOK /\ SeenInv
  BY ScanInitTyped, SeenInit
<1>2. (ScanTypeOK /\ SeenInv) /\ [ScanNext]_scanVars => (ScanTypeOK /\ SeenInv)'
  BY ScanStepTyped, SeenStep
<1>3. QED
  BY <1>1, <1>2, PTL DEF ScanSpec

(* Whatever order qsort leaves alike facts in, the scan ends with every    *)
(* record's fact once, in order, invents none, and counts each diagnostic. *)
THEOREM ScanIsExact == ScanSpec => []ScannedIsWhatWasSeen
<1>1. SeenInv => ScannedIsWhatWasSeen
  BY DEF SeenInv, CountedInv, KeptInv, ScannedIsWhatWasSeen
<1>2. QED
  BY <1>1, SeenAlways, PTL

(* An expansion inside a function body belongs to a function afterwards,   *)
(* and deduplication drops neither the owner nor what lent it.             *)
THEOREM OwnersFound == ScanSpec => []ExpansionsOwned
<1>1. SeenInv => ExpansionsOwned
  BY DEF SeenInv, KeptInv, ExpansionsOwned
<1>2. QED
  BY <1>1, SeenAlways, PTL


-----------------------------------------------------------------------------
(* What holds while the inventory is loaded.                               *)

Scanning == stage \in {"rootscan", "roles", "publics"}

LoadTypeOK ==
  /\ stage \in {"manifests", "roots", "rootscan", "roles", "publics", "loaded",
                "exit"}
  /\ facts \in Seq(Fact) /\ inventory \in Seq(Mapping)
  /\ records \in Seq(Record) /\ delivered \in 0 .. Len(records)
  /\ manifests \in Seq(Manifest) /\ manifest \in 0 .. Len(manifests)
  /\ row \in Nat
  /\ roots \in Seq(Root) /\ root \in 0 .. Len(roots)
  /\ first = 0 /\ at \in 0 .. Len(facts)
  /\ parseFailures \in Nat

(* The facts are those of the root being read, and none between roots.     *)
RootFactsInv ==
  /\ stage \in {"manifests", "roots", "loaded"} => facts = <<>>
  /\ stage \notin {"manifests", "exit"} => manifest = Len(manifests)
  /\ stage = "loaded" => root = Len(roots)
  /\ Scanning =>
       /\ root < Len(roots) /\ records = roots[root + 1].records
       /\ Len(facts) = delivered
       /\ \A n \in 1 .. delivered : facts[n] = records[n].fact
  /\ stage = "rootscan" => at = 0
  /\ stage \in {"roles", "publics"} => delivered = Len(records)

(* A wrapper named in one source has an entry, with a native identity if   *)
(* that source gave one.                                                   *)
Listed(wrapperUsr, originalUsr) ==
  /\ \E i \in DOMAIN inventory : inventory[i].wrapperUsr = wrapperUsr
  /\ originalUsr # "" =>
       \E i \in DOMAIN inventory : /\ inventory[i].wrapperUsr = wrapperUsr
                                   /\ inventory[i].originalUsr # ""

RowRead(m, r) == m <= manifest \/ (m = manifest + 1 /\ r <= row)
RoleRead(r, n) ==
  \/ r <= root
  \/ r = root + 1 /\ stage = "publics"
  \/ r = root + 1 /\ stage = "roles" /\ n <= at
PublicRead(r, n) ==
  \/ r <= root
  \/ r = root + 1 /\ stage = "publics" /\ n <= at

RowsListedInv ==
  stage # "exit" =>
    \A m \in DOMAIN manifests : \A r \in DOMAIN manifests[m].rows :
      RowRead(m, r) => LET entry == RowMapping(manifests[m].rows[r]) IN
                         Listed(entry.wrapperUsr, entry.originalUsr)

RolesListedInv ==
  stage # "exit" =>
    \A r \in DOMAIN roots : \A n \in DOMAIN roots[r].records :
      LET f == roots[r].records[n].fact IN
        RoleRead(r, n) /\ IsRole(f) => Listed(f.callerUsr, Native(f))

PublicsListedInv ==
  stage # "exit" =>
    \A r \in DOMAIN roots : \A n \in DOMAIN roots[r].records :
      LET f == roots[r].records[n].fact IN
        PublicRead(r, n) /\ IsPublic(f, roots[r]) => Listed(f.usr, "")

(* An entry is one a source asked for.                                     *)
Sourced(wrapperUsr, originalUsr) ==
  \/ originalUsr \in Natives(wrapperUsr)
  \/ originalUsr = "" /\ wrapperUsr \in Publics

SourcedInv ==
  \A i \in DOMAIN inventory :
    Sourced(inventory[i].wrapperUsr, inventory[i].originalUsr)

UniqueInv ==
  \A i, j \in DOMAIN inventory :
    inventory[i].wrapperUsr = inventory[j].wrapperUsr
      /\ inventory[i].wrapperUsr # "" => i = j

RecordSeen(r, n) ==
  \/ r <= root
  \/ r = root + 1 /\ Scanning /\ n <= delivered

(* The diagnostics delivered so far, each by its root and place in it.     *)
DiagnosticsSeen ==
  UNION {{<<r, n>> : n \in
            {k \in DOMAIN roots[r].records :
               /\ roots[r].records[k].fact.kind = "DIAGNOSTIC"
               /\ RecordSeen(r, k)}} :
         r \in DOMAIN roots}

DiagnosticsInv ==
  stage # "exit" => /\ IsFiniteSet(DiagnosticsSeen)
                    /\ parseFailures = Cardinality(DiagnosticsSeen)

LoadInv ==
  /\ LoadTypeOK /\ RootFactsInv
  /\ RowsListedInv /\ RolesListedInv /\ PublicsListedInv
  /\ SourcedInv /\ UniqueInv /\ DiagnosticsInv


-----------------------------------------------------------------------------
(* add_inventory_mapping.                                                  *)

(* What loading never takes back.                                          *)
Kept ==
  /\ Len(inventory') >= Len(inventory)
  /\ \A i \in DOMAIN inventory :
       /\ i \in DOMAIN inventory'
       /\ inventory'[i].wrapperUsr = inventory[i].wrapperUsr
       /\ inventory[i].originalUsr # "" => inventory'[i] = inventory[i]

LEMMA MappingFields ==
  ASSUME NEW m \in Mapping
  PROVE  /\ m.original \in Texts /\ m.originalUsr \in Texts
         /\ m.wrapper \in Texts /\ m.wrapperUsr \in Texts
BY DEF Mapping

(* The entry Known finds, and what it says when it finds none.             *)
LEMMA KnownEntry ==
  ASSUME inventory \in Seq(Mapping), NEW usr
  PROVE  /\ Known(usr) # 0 => /\ Known(usr) \in DOMAIN inventory /\ usr # ""
                              /\ inventory[Known(usr)].wrapperUsr = usr
         /\ Known(usr) = 0 => \/ usr = ""
                              \/ \A i \in DOMAIN inventory :
                                   inventory[i].wrapperUsr # usr
<1> DEFINE entries == {i \in DOMAIN inventory :
                         usr # "" /\ inventory[i].wrapperUsr = usr}
<1>1. Known(usr) = First(entries)
  BY DEF Known
<1>2. entries \subseteq Nat \ {0}
  <2>1. DOMAIN inventory = 1 .. Len(inventory) /\ Len(inventory) \in Nat
    OBVIOUS
  <2>2. entries \subseteq DOMAIN inventory
    OBVIOUS
  <2>3. 1 .. Len(inventory) \subseteq Nat \ {0}
    BY <2>1
  <2> HIDE DEF entries
  <2>4. QED
    BY <2>1, <2>2, <2>3, Zenon
<1>3. First(entries) = 0 <=> entries = {}
  BY <1>2, FirstFound
<1>4. entries # {} => First(entries) \in entries
  BY <1>2, FirstFound
<1>5. QED
  BY <1>1, <1>3, <1>4

(* Improving an entry keeps its wrapper and the native identity it has.    *)
LEMMA ImprovedEntry ==
  ASSUME NEW entry \in Mapping, NEW m \in Mapping
  PROVE  /\ Improved(entry, m) \in Mapping
         /\ Improved(entry, m).wrapperUsr = entry.wrapperUsr
         /\ entry.originalUsr # "" => Improved(entry, m) = entry
         /\ \/ Improved(entry, m) = entry
            \/ Improved(entry, m).originalUsr = m.originalUsr
         /\ m.originalUsr # "" => Improved(entry, m).originalUsr # ""
BY DEF Improved, Mapping

(* Adding a mapping keeps what was known, and lists its wrapper.           *)
LEMMA MappingAdded ==
  ASSUME inventory \in Seq(Mapping), UniqueInv, NEW m \in Mapping,
         AddMapping(m)
  PROVE  /\ inventory' \in Seq(Mapping) /\ Kept /\ UniqueInv'
         /\ \A j \in DOMAIN inventory' :
              \/ j \in DOMAIN inventory /\ inventory'[j] = inventory[j]
              \/ /\ inventory'[j].wrapperUsr = m.wrapperUsr
                 /\ inventory'[j].originalUsr = m.originalUsr
         /\ stage' # "exit" => Listed(m.wrapperUsr, m.originalUsr)'
         /\ stage' \in {stage, "exit"}
<1> DEFINE i == Known(m.wrapperUsr)
<1>1. /\ DOMAIN inventory = 1 .. Len(inventory) /\ Len(inventory) \in Nat
      /\ \A j \in DOMAIN inventory : inventory[j] \in Mapping
  OBVIOUS
<1>2. /\ i # 0 => /\ i \in DOMAIN inventory /\ m.wrapperUsr # ""
                  /\ inventory[i].wrapperUsr = m.wrapperUsr
      /\ i = 0 => \/ m.wrapperUsr = ""
                  \/ \A j \in DOMAIN inventory :
                       inventory[j].wrapperUsr # m.wrapperUsr
  BY KnownEntry
<1>3. CASE i # 0 /\ stage' = stage
           /\ inventory' = [inventory EXCEPT ![i] = Improved(@, m)]
  <2>1. PICK new \in Mapping : new = Improved(inventory[i], m)
    BY <1>1, <1>2, <1>3, ImprovedEntry
  <2>2. /\ new.wrapperUsr = inventory[i].wrapperUsr
        /\ inventory[i].originalUsr # "" => new = inventory[i]
        /\ new = inventory[i] \/ new.originalUsr = m.originalUsr
        /\ m.originalUsr # "" => new.originalUsr # ""
    BY <1>1, <1>2, <1>3, <2>1, ImprovedEntry
  <2>3. inventory' = [inventory EXCEPT ![i] = new]
    BY <1>3, <2>1
  <2> HIDE DEF i
  <2>4. /\ inventory' \in Seq(Mapping) /\ Len(inventory') = Len(inventory)
        /\ DOMAIN inventory' = DOMAIN inventory
        /\ inventory'[i] = new
        /\ \A j \in DOMAIN inventory : j # i => inventory'[j] = inventory[j]
    <3>1. i \in DOMAIN inventory
      BY <1>2, <1>3
    <3>2. inventory' \in Seq(Mapping) /\ Len(inventory') = Len(inventory)
      BY <2>3, <3>1
    <3>3. QED
      BY <2>3, <3>1, <3>2
  <2>5. Kept
    <3>1. Len(inventory') >= Len(inventory)
      BY <1>1, <2>4
    <3>2. QED
      BY <2>2, <2>4, <3>1, Zenon DEF Kept
  <2>6. \A j \in DOMAIN inventory' : inventory'[j].wrapperUsr = inventory[j].wrapperUsr
    BY <2>2, <2>4
  <2>7. UniqueInv'
    BY <2>4, <2>6 DEF UniqueInv
  <2>8. Listed(m.wrapperUsr, m.originalUsr)'
    BY <1>2, <1>3, <2>2, <2>4 DEF Listed
  <2>9. QED
    BY <1>2, <1>3, <2>2, <2>4, <2>5, <2>7, <2>8
<1>4. CASE i = 0 /\ stage' = stage /\ inventory' = Append(inventory, m)
  <2> HIDE DEF i
  <2>1. /\ inventory' \in Seq(Mapping) /\ Len(inventory') = Len(inventory) + 1
        /\ DOMAIN inventory' = 1 .. Len(inventory) + 1
        /\ inventory'[Len(inventory) + 1] = m
        /\ \A j \in DOMAIN inventory : inventory'[j] = inventory[j]
    BY <1>1, <1>4
  <2>2. Kept
    <3>1. Len(inventory') >= Len(inventory)
      BY <1>1, <2>1
    <3>2. DOMAIN inventory \subseteq DOMAIN inventory'
      BY <1>1, <2>1
    <3>3. QED
      BY <2>1, <3>1, <3>2, Zenon DEF Kept
  <2>3. \A j \in DOMAIN inventory' :
          \/ j \in DOMAIN inventory /\ inventory'[j] = inventory[j]
          \/ j = Len(inventory) + 1 /\ inventory'[j] = m
    BY <1>1, <2>1
  <2>4. UniqueInv'
    BY <1>2, <1>4, <2>3 DEF UniqueInv
  <2>5. Len(inventory) + 1 \in DOMAIN inventory'
    BY <1>1, <2>1
  <2>6. Listed(m.wrapperUsr, m.originalUsr)'
    BY <2>1, <2>5 DEF Listed
  <2>7. QED
    BY <1>4, <2>1, <2>2, <2>3, <2>4, <2>6
<1>5. CASE stage' = "exit" /\ inventory' = inventory
  <2>1. Len(inventory') >= Len(inventory)
    BY <1>1, <1>5
  <2>2. Kept
    BY <1>5, <2>1, Zenon DEF Kept
  <2>3. UniqueInv'
    BY <1>5 DEF UniqueInv
  <2>4. QED
    BY <1>5, <2>2, <2>3
<1>6. QED
  BY <1>3, <1>4, <1>5 DEF AddMapping, Fails


-----------------------------------------------------------------------------
(* The variables of the load stay in their types.                          *)

LEMMA RootTyped ==
  ASSUME LoadTypeOK, root < Len(roots)
  PROVE  /\ root + 1 \in DOMAIN roots /\ roots[root + 1] \in Root
         /\ roots[root + 1].records \in Seq(Record)
<1>1. root + 1 \in 1 .. Len(roots)
  BY DEF LoadTypeOK
<1>2. roots[root + 1] \in Root
  BY <1>1 DEF LoadTypeOK
<1>3. QED
  BY <1>1, <1>2 DEF LoadTypeOK, Root

(* A row as it is read is a mapping.                                       *)
LEMMA RowTyped ==
  ASSUME LoadTypeOK, NEW m \in DOMAIN manifests, NEW r \in DOMAIN manifests[m].rows
  PROVE  RowMapping(manifests[m].rows[r]) \in Mapping
<1>1. manifests[m] \in Manifest
  BY DEF LoadTypeOK
<1>2. manifests[m].rows \in Seq(Row)
  BY <1>1 DEF Manifest
<1>3. manifests[m].rows[r] \in Row
  BY <1>2
<1>4. PICK mapping \in Mapping : mapping = manifests[m].rows[r].mapping
  BY <1>3 DEF Row
<1>5. \A t \in Texts : Plain(t) \in Texts
  BY WrapperAssumption DEF Plain
<1>6. Plain(mapping.original) \in Texts /\ Plain(mapping.originalUsr) \in Texts
  BY <1>5, MappingFields
<1>7. RowMapping(manifests[m].rows[r])
        = [mapping EXCEPT !.original = Plain(mapping.original),
                          !.originalUsr = Plain(mapping.originalUsr)]
  BY <1>4 DEF RowMapping
<1>8. QED
  BY <1>6, <1>7 DEF Mapping

LEMMA CurrentRowTyped ==
  ASSUME LoadTypeOK, Reading, row < Len(CurrentManifest.rows)
  PROVE  /\ manifest + 1 \in DOMAIN manifests
         /\ row + 1 \in DOMAIN manifests[manifest + 1].rows
         /\ CurrentRow = manifests[manifest + 1].rows[row + 1]
         /\ RowMapping(CurrentRow) \in Mapping
<1>1. manifest + 1 \in 1 .. Len(manifests) /\ manifests \in Seq(Manifest)
  BY DEF LoadTypeOK, Reading
<1>2. manifests[manifest + 1] \in Manifest /\ manifest + 1 \in DOMAIN manifests
  BY <1>1
<1>3. manifests[manifest + 1].rows \in Seq(Row)
  BY <1>2 DEF Manifest
<1>4. row + 1 \in DOMAIN manifests[manifest + 1].rows
  BY <1>3 DEF LoadTypeOK, CurrentManifest
<1>5. CurrentRow = manifests[manifest + 1].rows[row + 1]
  BY DEF CurrentRow, CurrentManifest
<1>6. QED
  BY <1>2, <1>4, <1>5, RowTyped

(* The function a role is about is one of the facts.                       *)
LEMMA AnnotatedFact ==
  ASSUME LoadTypeOK, NEW f, Annotated(f) # 0
  PROVE  /\ Annotated(f) \in DOMAIN facts /\ facts[Annotated(f)] \in Fact
         /\ facts[Annotated(f)].usr = f.callerUsr
         /\ facts[Annotated(f)].usr # ""
<1> DEFINE places == {i \in first + 1 .. Len(facts) :
                        /\ facts[i].kind = "FUNCTION" /\ facts[i].usr # ""
                        /\ facts[i].usr = f.callerUsr}
<1>1. DOMAIN facts = 1 .. Len(facts) /\ Len(facts) \in Nat /\ first = 0
      /\ facts \in Seq(Fact)
  BY DEF LoadTypeOK
<1>2. places \subseteq first + 1 .. Len(facts)
  OBVIOUS
<1>3. first + 1 .. Len(facts) \subseteq DOMAIN facts
      /\ first + 1 .. Len(facts) \subseteq Nat \ {0}
  BY <1>1
<1>4. places \subseteq Nat \ {0}
  BY <1>2, <1>3, Zenon
<1>5. Annotated(f) = First(places)
  BY DEF Annotated
<1>6. First(places) \in places
  <2> HIDE DEF places
  <2>1. QED
    BY <1>4, <1>5, FirstFound
<1>7. Annotated(f) \in DOMAIN facts
  BY <1>3, <1>5, <1>6
<1>8. facts[Annotated(f)].usr = f.callerUsr /\ facts[Annotated(f)].usr # ""
  BY <1>5, <1>6
<1>9. facts[Annotated(f)] \in Fact
  BY <1>1, <1>7
<1>10. QED
  BY <1>7, <1>8, <1>9

(* The mappings roles and declarations stand for.                          *)
RoleMapping(f) == [original |-> "", originalUsr |-> Native(f),
                   wrapper |-> facts[Annotated(f)].name,
                   wrapperUsr |-> facts[Annotated(f)].usr]
PublicMapping(f) == [original |-> "", originalUsr |-> "",
                     wrapper |-> f.name, wrapperUsr |-> f.usr]

LEMMA RoleMappingTyped ==
  ASSUME LoadTypeOK, NEW f, ~Unusable(f)
  PROVE  /\ RoleMapping(f) \in Mapping
         /\ RoleMapping(f).wrapperUsr = f.callerUsr
         /\ RoleMapping(f).originalUsr = Native(f)
<1>1. /\ facts[Annotated(f)] \in Fact
      /\ facts[Annotated(f)].usr = f.callerUsr
  BY AnnotatedFact DEF Unusable
<1>2. Native(f) \in Texts /\ "" \in Texts
  BY WrapperAssumption, InventoryAssumption DEF Native
<1>3. facts[Annotated(f)].name \in Texts /\ facts[Annotated(f)].usr \in Texts
  BY <1>1, Fields
<1>4. QED
  BY <1>1, <1>2, <1>3 DEF RoleMapping, Mapping

LEMMA PublicMappingTyped ==
  ASSUME NEW f \in Fact
  PROVE  PublicMapping(f) \in Mapping
BY Fields, WrapperAssumption DEF PublicMapping, Mapping

(* The loop over the facts of a root looks at one of them.                 *)
LEMMA LookedAt ==
  ASSUME LoadTypeOK, NEW where, Looking(where)
  PROVE  /\ stage = where /\ at + 1 \in DOMAIN facts /\ facts[at + 1] \in Fact
         /\ at \in Nat /\ at + 1 \in 0 .. Len(facts)
<1>1. facts \in Seq(Fact) /\ at \in 0 .. Len(facts) /\ at < Len(facts)
  BY DEF LoadTypeOK, Looking
<1>2. at + 1 \in 1 .. Len(facts) /\ at \in Nat /\ at + 1 \in 0 .. Len(facts)
  BY <1>1
<1>3. QED
  BY <1>1, <1>2 DEF Looking


LEMMA LoadInitTyped ==
  InventoryInit => LoadTypeOK /\ RootFactsInv
<1> SUFFICES ASSUME InventoryInit PROVE LoadTypeOK /\ RootFactsInv
  OBVIOUS
<1>1. /\ stage = "manifests" /\ facts = <<>> /\ inventory = <<>>
      /\ parseFailures = 0 /\ records = <<>> /\ delivered = 0
      /\ manifest = 0 /\ row = 0 /\ root = 0 /\ first = 0 /\ at = 0
  BY DEF InventoryInit
<1>2. manifests \in Seq(Manifest) /\ roots \in Seq(Root)
  BY InventoryAssumption DEF InventoryInit
<1>3. /\ facts \in Seq(Fact) /\ inventory \in Seq(Mapping)
      /\ records \in Seq(Record) /\ Len(facts) = 0 /\ Len(records) = 0
  BY <1>1
<1>4. Len(manifests) \in Nat /\ Len(roots) \in Nat
  BY <1>2
<1>5. LoadTypeOK
  BY <1>1, <1>2, <1>3, <1>4 DEF LoadTypeOK
<1>6. QED
  BY <1>1, <1>5 DEF RootFactsInv, Scanning

(* What adding a mapping changes besides the inventory and its capacity.   *)
LEMMA AddingChanges ==
  ASSUME LoadTypeOK, UniqueInv, NEW m \in Mapping, AddMapping(m)
  PROVE  inventory' \in Seq(Mapping) /\ stage' \in {stage, "exit"}
BY MappingAdded DEF LoadTypeOK

LEMMA LoadStepTyped ==
  LoadTypeOK /\ RootFactsInv /\ UniqueInv /\ [InventoryNext]_loadVars
    => LoadTypeOK' /\ RootFactsInv'
<1> SUFFICES ASSUME LoadTypeOK, RootFactsInv, UniqueInv,
                    [InventoryNext]_loadVars
             PROVE  LoadTypeOK' /\ RootFactsInv'
  OBVIOUS
<1> USE DEF LoadTypeOK, RootFactsInv, Scanning
<1>1. CASE ManifestFails
  BY <1>1 DEF ManifestFails, Fails, modelVars, observerVars, inventoryVars
<1>2. CASE ReadRow
  <2>1. RowMapping(CurrentRow) \in Mapping
    BY <1>2, CurrentRowTyped DEF ReadRow
  <2>2. inventory' \in Seq(Mapping) /\ stage' \in {"manifests", "exit"}
    BY <1>2, <2>1, AddingChanges DEF ReadRow, Reading
  <2>3. /\ stage = "manifests" /\ row' \in Nat /\ facts' = facts
        /\ parseFailures' = parseFailures /\ records' = records
        /\ delivered' = delivered /\ manifests' = manifests
        /\ manifest' = manifest /\ roots' = roots /\ root' = root
        /\ at' = at /\ first' = first
    BY <1>2 DEF ReadRow, Reading, observerVars
  <2>4. LoadTypeOK'
    BY <2>2, <2>3
  <2>5. RootFactsInv'
    BY <2>2, <2>3
  <2>6. QED
    BY <2>4, <2>5
<1>3. CASE ManifestEnds
  BY <1>3 DEF ManifestEnds, Reading, modelVars, observerVars
<1>4. CASE ManifestsEnd
  BY <1>4 DEF ManifestsEnd, modelVars, observerVars, inventoryVars
<1>5. CASE StartRoot
  <2>1. roots[root + 1].records \in Seq(Record)
    BY <1>5, RootTyped DEF StartRoot
  <2>2. facts = <<>> /\ Len(facts) = 0
    BY <1>5 DEF StartRoot
  <2>3. QED
    BY <1>5, <2>1, <2>2 DEF StartRoot, StartScan, modelVars
<1>6. CASE ObserveRoot
  <2>1. ~ScanEnded /\ ObserverTypeOK
    BY <1>6 DEF ObserveRoot, Observe, ObserverTypeOK
  <2>2. /\ delivered + 1 \in DOMAIN records /\ delivered \in Nat
        /\ records[delivered + 1].fact \in Fact
    BY <2>1, RecordStored
  <2>3. /\ records' = records /\ delivered' = delivered + 1
        /\ inventory' = inventory /\ parseFailures' \in Nat
        /\ stage = "rootscan"
    BY <1>6 DEF ObserveRoot, Observe, Counted
  <2>4. CASE facts' = Append(facts, records[delivered + 1].fact) /\ stage' = stage
    <3>1. /\ facts' \in Seq(Fact) /\ Len(facts') = delivered + 1
          /\ \A n \in 1 .. delivered + 1 : facts'[n] = records[n].fact
      BY <2>2, <2>3, <2>4
    <3>2. QED
      BY <1>6, <2>2, <2>3, <2>4, <3>1 DEF ObserveRoot, inventoryVars
  <2>5. CASE facts' = facts /\ stage' = "exit"
    BY <1>6, <2>2, <2>3, <2>5 DEF ObserveRoot, inventoryVars
  <2>6. QED
    BY <1>6, <2>4, <2>5 DEF ObserveRoot, Observe, Fails
<1>7. CASE RootScanFails
  BY <1>7 DEF RootScanFails, ScanFails, Fails, inventoryVars
<1>8. CASE RootScanEnds
  BY <1>8 DEF RootScanEnds, ScanEnded, modelVars, observerVars, inventoryVars
<1>9. CASE ReadRole
  <2>1. /\ stage = "roles" /\ at + 1 \in 0 .. Len(facts)
    BY <1>9, LookedAt DEF ReadRole
  <2>2. inventory' \in Seq(Mapping) /\ stage' \in {"roles", "exit"}
    <3> DEFINE f == facts[at + 1]
    <3>1. CASE inventory' = inventory
      BY <1>9, <2>1, <3>1, MappingAdded DEF ReadRole, Fails, AddMapping
    <3>2. CASE ~Unusable(f) /\ AddMapping(RoleMapping(f))
      BY <2>1, <3>2, RoleMappingTyped, AddingChanges
    <3>3. QED
      BY <1>9, <3>1, <3>2 DEF ReadRole, RoleMapping
  <2>3. QED
    BY <1>9, <2>1, <2>2 DEF ReadRole, observerVars
<1>10. CASE RolesEnd
  BY <1>10 DEF RolesEnd, modelVars, observerVars
<1>11. CASE ReadPublic
  <2>1. /\ stage = "publics" /\ at + 1 \in 0 .. Len(facts)
        /\ facts[at + 1] \in Fact
    BY <1>11, LookedAt DEF ReadPublic
  <2>2. inventory' \in Seq(Mapping) /\ stage' \in {"publics", "exit"}
    <3> DEFINE f == facts[at + 1]
    <3>1. CASE inventory' = inventory /\ stage' = stage
      BY <2>1, <3>1
    <3>2. CASE AddMapping(PublicMapping(f))
      BY <2>1, <3>2, PublicMappingTyped, AddingChanges
    <3>3. QED
      BY <1>11, <3>1, <3>2 DEF ReadPublic, PublicMapping
  <2>3. QED
    BY <1>11, <2>1, <2>2 DEF ReadPublic, observerVars
<1>12. CASE RootEnds
  <2>1. facts' = <<>>
    BY <1>12 DEF RootEnds, RolledBack
  <2>2. facts' \in Seq(Fact) /\ Len(facts') = 0
    BY <2>1
  <2>3. QED
    BY <1>12, <2>1, <2>2 DEF RootEnds, observerVars
<1>13. CASE LoadEnds
  BY <1>13 DEF LoadEnds, modelVars, observerVars, inventoryVars
<1>14. CASE UNCHANGED loadVars
  BY <1>14 DEF loadVars, modelVars, observerVars, inventoryVars
<1>15. QED
  BY <1>1, <1>2, <1>3, <1>4, <1>5, <1>6, <1>7, <1>8, <1>9, <1>10, <1>11,
     <1>12, <1>13, <1>14 DEF InventoryNext, Load, LoadStopped


-----------------------------------------------------------------------------
(* Every mapping added is one a source asked for.                          *)

(* The fact looked at in a root is one of the facts its scan delivers.     *)
LEMMA LookedAtSeen ==
  ASSUME LoadTypeOK, RootFactsInv, NEW where \in {"roles", "publics"},
         Looking(where)
  PROVE  /\ root + 1 \in DOMAIN roots
         /\ at + 1 \in DOMAIN roots[root + 1].records
         /\ facts[at + 1] = roots[root + 1].records[at + 1].fact
         /\ facts[at + 1] \in Seen(roots[root + 1])
<1>1. stage = where /\ at + 1 \in DOMAIN facts /\ at \in Nat
  BY LookedAt
<1>2. /\ root < Len(roots) /\ records = roots[root + 1].records
      /\ Len(facts) = Len(records)
      /\ \A n \in 1 .. Len(facts) : facts[n] = records[n].fact
  BY <1>1 DEF RootFactsInv, Scanning
<1>3. root + 1 \in DOMAIN roots
  BY <1>2, RootTyped
<1>4. DOMAIN facts = 1 .. Len(facts) /\ DOMAIN records = 1 .. Len(records)
  BY DEF LoadTypeOK
<1>5. at + 1 \in DOMAIN records /\ facts[at + 1] = records[at + 1].fact
  BY <1>1, <1>2, <1>4
<1>6. QED
  BY <1>2, <1>3, <1>5 DEF Seen

LEMMA RowSourced ==
  ASSUME NEW m \in DOMAIN manifests, NEW r \in DOMAIN manifests[m].rows
  PROVE  LET entry == RowMapping(manifests[m].rows[r]) IN
           Sourced(entry.wrapperUsr, entry.originalUsr)
<1> DEFINE entry == RowMapping(manifests[m].rows[r])
<1>1. entry \in Rows
  BY DEF Rows
<1> HIDE DEF entry
<1>2. Sourced(entry.wrapperUsr, entry.originalUsr)
  BY <1>1 DEF Sourced, Natives
<1>3. QED
  BY <1>2 DEF entry

LEMMA RoleSourced ==
  ASSUME NEW r \in DOMAIN roots, NEW f \in Seen(roots[r]), IsRole(f)
  PROVE  Sourced(f.callerUsr, Native(f))
<1> DEFINE role == [wrapperUsr |-> f.callerUsr, originalUsr |-> Native(f)]
<1>1. f \in {g \in Seen(roots[r]) : IsRole(g)}
  OBVIOUS
<1>2. role \in {[wrapperUsr |-> g.callerUsr, originalUsr |-> Native(g)] :
                  g \in {h \in Seen(roots[r]) : IsRole(h)}}
  BY <1>1
<1>3. role \in Roles
  BY <1>2, Zenon DEF Roles
<1>4. role.wrapperUsr = f.callerUsr /\ role.originalUsr = Native(f)
  OBVIOUS
<1> HIDE DEF role
<1>5. QED
  BY <1>3, <1>4 DEF Sourced, Natives

LEMMA PublicSourced ==
  ASSUME NEW r \in DOMAIN roots, NEW f \in Seen(roots[r]), IsPublic(f, roots[r])
  PROVE  Sourced(f.usr, "")
<1>1. f.usr \in Publics
  BY DEF Publics
<1>2. QED
  BY <1>1 DEF Sourced

LEMMA InventoryStep ==
  ASSUME LoadTypeOK, RootFactsInv, [InventoryNext]_loadVars
  PROVE  \/ inventory' = inventory
         \/ \E m \in Mapping :
              AddMapping(m) /\ Sourced(m.wrapperUsr, m.originalUsr)
<1>1. CASE ReadRow
  <2>1. PICK m \in Mapping : m = RowMapping(CurrentRow)
    BY <1>1, CurrentRowTyped DEF ReadRow
  <2>2. Sourced(m.wrapperUsr, m.originalUsr)
    BY <1>1, <2>1, CurrentRowTyped, RowSourced DEF ReadRow
  <2>3. AddMapping(m)
    BY <1>1, <2>1 DEF ReadRow
  <2>4. QED
    BY <2>2, <2>3
<1>2. CASE ReadRole
  <2>1. PICK f : f = facts[at + 1]
    OBVIOUS
  <2>2. CASE inventory' = inventory
    BY <2>2
  <2>3. CASE IsRole(f) /\ ~Unusable(f) /\ AddMapping(RoleMapping(f))
    <3>1. root + 1 \in DOMAIN roots /\ f \in Seen(roots[root + 1])
      BY <1>2, <2>1, LookedAtSeen DEF ReadRole
    <3>2. PICK m \in Mapping : m = RoleMapping(f)
      BY <2>3, RoleMappingTyped
    <3>3. m.wrapperUsr = f.callerUsr /\ m.originalUsr = Native(f)
      BY <2>3, <3>2, RoleMappingTyped
    <3>4. Sourced(m.wrapperUsr, m.originalUsr)
      BY <2>3, <3>1, <3>3, RoleSourced
    <3>5. AddMapping(m)
      BY <2>3, <3>2
    <3>6. QED
      BY <3>4, <3>5
  <2>4. QED
    BY <1>2, <2>1, <2>2, <2>3 DEF ReadRole, RoleMapping
<1>3. CASE ReadPublic
  <2>1. PICK f : f = facts[at + 1]
    OBVIOUS
  <2>2. CASE inventory' = inventory
    BY <2>2
  <2>3. CASE IsPublic(f, roots[root + 1]) /\ AddMapping(PublicMapping(f))
    <3>1. root + 1 \in DOMAIN roots /\ f \in Seen(roots[root + 1]) /\ f \in Fact
      BY <1>3, <2>1, LookedAtSeen, LookedAt DEF ReadPublic
    <3>2. PICK m \in Mapping : m = PublicMapping(f)
      BY <3>1, PublicMappingTyped
    <3>3. m.wrapperUsr = f.usr /\ m.originalUsr = ""
      BY <3>2 DEF PublicMapping
    <3>4. Sourced(m.wrapperUsr, m.originalUsr)
      BY <2>3, <3>1, <3>3, PublicSourced
    <3>5. AddMapping(m)
      BY <2>3, <3>2
    <3>6. QED
      BY <3>4, <3>5
  <2>4. QED
    BY <1>3, <2>1, <2>2, <2>3 DEF ReadPublic, PublicMapping
<1>4. ASSUME ~ReadRow, ~ReadRole, ~ReadPublic PROVE inventory' = inventory
  BY <1>4 DEF InventoryNext, Load, ManifestFails, ManifestEnds, ManifestsEnd,
     StartRoot, ObserveRoot, Observe, RootScanFails, ScanFails, RootScanEnds,
     RolesEnd, RootEnds, LoadEnds, LoadStopped, loadVars, modelVars
<1>5. QED
  BY <1>1, <1>2, <1>3, <1>4

(* The sources do not change.                                              *)
LEMMA SourcesStay ==
  ASSUME [InventoryNext]_loadVars
  PROVE  /\ manifests' = manifests /\ roots' = roots
         /\ \A usr, native : Sourced(usr, native) => Sourced(usr, native)'
<1>1. manifests' = manifests /\ roots' = roots
  BY DEF InventoryNext, Load, ManifestFails, ReadRow, ManifestEnds,
     ManifestsEnd, StartRoot, ObserveRoot, RootScanFails, RootScanEnds,
     ReadRole, RolesEnd, ReadPublic, RootEnds, LoadEnds, LoadStopped,
     loadVars, inventoryVars
<1>2. Rows' = Rows
  BY <1>1 DEF Rows
<1>3. Roles' = Roles /\ Publics' = Publics
  BY <1>1 DEF Roles, Publics
<1>4. QED
  BY <1>1, <1>2, <1>3 DEF Sourced, Natives

(* Nothing known is taken back, every wrapper keeps one entry, and every   *)
(* entry is one a source asked for.                                        *)
LEMMA EntriesStep ==
  ASSUME LoadTypeOK, RootFactsInv, UniqueInv, SourcedInv,
         [InventoryNext]_loadVars
  PROVE  Kept /\ UniqueInv' /\ SourcedInv'
<1>1. CASE inventory' = inventory
  <2>1. Kept
    <3>1. Len(inventory) \in Nat
      BY DEF LoadTypeOK
    <3>2. Len(inventory') >= Len(inventory)
      BY <1>1, <3>1
    <3>3. QED
      BY <1>1, <3>2, Zenon DEF Kept
  <2>2. UniqueInv'
    BY <1>1 DEF UniqueInv
  <2>3. SourcedInv'
    <3> SUFFICES ASSUME NEW i \in DOMAIN inventory'
                 PROVE  Sourced(inventory[i].wrapperUsr, inventory[i].originalUsr)'
      BY DEF SourcedInv
    <3>1. PICK usr, native : /\ usr = inventory'[i].wrapperUsr
                             /\ native = inventory'[i].originalUsr
      OBVIOUS
    <3>2. Sourced(usr, native)
      BY <1>1, <3>1 DEF SourcedInv
    <3>3. Sourced(usr, native)'
      BY <3>2, SourcesStay
    <3>4. QED
      BY <3>1, <3>3
  <2>4. QED
    BY <2>1, <2>2, <2>3
<1>2. CASE \E m \in Mapping :
             AddMapping(m) /\ Sourced(m.wrapperUsr, m.originalUsr)
  <2>1. PICK m \in Mapping :
          AddMapping(m) /\ Sourced(m.wrapperUsr, m.originalUsr)
    BY <1>2
  <2>2. /\ Kept /\ UniqueInv'
        /\ \A j \in DOMAIN inventory' :
              \/ j \in DOMAIN inventory /\ inventory'[j] = inventory[j]
              \/ /\ inventory'[j].wrapperUsr = m.wrapperUsr
                 /\ inventory'[j].originalUsr = m.originalUsr
    BY <2>1, MappingAdded DEF LoadTypeOK
  <2>3. SourcedInv'
    <3> SUFFICES ASSUME NEW i \in DOMAIN inventory'
                 PROVE  Sourced(inventory[i].wrapperUsr, inventory[i].originalUsr)'
      BY DEF SourcedInv
    <3>1. PICK usr, native : /\ usr = inventory'[i].wrapperUsr
                             /\ native = inventory'[i].originalUsr
      OBVIOUS
    <3>2. Sourced(usr, native)
      BY <2>1, <2>2, <3>1 DEF SourcedInv
    <3>3. Sourced(usr, native)'
      BY <3>2, SourcesStay
    <3>4. QED
      BY <3>1, <3>3
  <2>4. QED
    BY <2>2, <2>3
<1>3. QED
  BY <1>1, <1>2, InventoryStep


-----------------------------------------------------------------------------
(* Every row, role and declaration that has been read is listed.           *)

LEMMA ListedStays ==
  ASSUME Kept, NEW usr, NEW native, Listed(usr, native)
  PROVE  Listed(usr, native)'
<1>1. PICK i \in DOMAIN inventory : inventory[i].wrapperUsr = usr
  BY DEF Listed
<1>2. i \in DOMAIN inventory' /\ inventory'[i].wrapperUsr = usr
  BY <1>1 DEF Kept
<1>3. ASSUME native # ""
      PROVE  \E j \in DOMAIN inventory' : /\ inventory'[j].wrapperUsr = usr
                                          /\ inventory'[j].originalUsr # ""
  <2>1. PICK j \in DOMAIN inventory : /\ inventory[j].wrapperUsr = usr
                                      /\ inventory[j].originalUsr # ""
    BY <1>3 DEF Listed
  <2>2. j \in DOMAIN inventory' /\ inventory'[j] = inventory[j]
    BY <2>1 DEF Kept
  <2>3. QED
    BY <2>1, <2>2
<1>4. QED
  BY <1>2, <1>3 DEF Listed

(* A load that has stopped in error stays there.                           *)
LEMMA ExitStays ==
  ASSUME [InventoryNext]_loadVars, stage' # "exit"
  PROVE  stage # "exit"
BY DEF InventoryNext, Load, ManifestFails, ReadRow, Reading, ManifestEnds,
   ManifestsEnd, StartRoot, ObserveRoot, RootScanFails, RootScanEnds,
   ReadRole, Looking, RolesEnd, ReadPublic, RootEnds, LoadEnds, LoadStopped,
   loadVars

LEMMA RowsListedStep ==
  ASSUME LoadTypeOK, RootFactsInv, UniqueInv, SourcedInv, RowsListedInv,
         [InventoryNext]_loadVars
  PROVE  RowsListedInv'
<1> SUFFICES ASSUME stage' # "exit", NEW m \in DOMAIN manifests,
                    NEW r \in DOMAIN manifests[m].rows, RowRead(m, r)',
                    NEW entry, entry = RowMapping(manifests[m].rows[r])
             PROVE  Listed(entry.wrapperUsr, entry.originalUsr)'
  BY SourcesStay DEF RowsListedInv
<1>1. stage # "exit" /\ Kept
  BY ExitStays, EntriesStep
<1>2. CASE RowRead(m, r)
  BY <1>1, <1>2, ListedStays DEF RowsListedInv
<1>3. CASE ReadRow /\ ~RowRead(m, r)
  <2>1. manifest' = manifest /\ row' = row + 1 /\ stage' # "exit"
    BY <1>3 DEF ReadRow
  <2>2. /\ m \in Nat /\ r \in Nat /\ manifest \in Nat /\ row \in Nat
    <3>1. manifests \in Seq(Manifest) /\ manifests[m] \in Manifest
      BY DEF LoadTypeOK
    <3>2. manifests[m].rows \in Seq(Row)
      BY <3>1 DEF Manifest
    <3>3. QED
      BY <3>1, <3>2 DEF LoadTypeOK
  <2>3. m = manifest + 1 /\ r = row + 1
    BY <1>3, <2>1, <2>2 DEF RowRead
  <2>4. entry \in Mapping /\ AddMapping(entry)
    BY <1>3, <2>3, CurrentRowTyped DEF ReadRow
  <2>5. QED
    BY <2>1, <2>4, MappingAdded DEF LoadTypeOK
<1>4. CASE ManifestEnds /\ ~RowRead(m, r)
  <2>1. /\ manifest' = manifest + 1 /\ row' = 0 /\ Reading
        /\ row = Len(manifests[manifest + 1].rows)
    BY <1>4 DEF ManifestEnds, CurrentManifest
  <2>2. m \in Nat /\ manifest \in Nat /\ r \in 1 .. Len(manifests[m].rows)
    <3>1. manifests \in Seq(Manifest) /\ manifests[m] \in Manifest
      BY DEF LoadTypeOK
    <3>2. manifests[m].rows \in Seq(Row)
      BY <3>1 DEF Manifest
    <3>3. QED
      BY <3>1, <3>2 DEF LoadTypeOK
  <2>3. CASE m = manifest + 1
    BY <1>4, <2>1, <2>2, <2>3 DEF RowRead
  <2>4. CASE m # manifest + 1
    BY <1>4, <2>1, <2>2, <2>4 DEF RowRead
  <2>5. QED
    BY <2>3, <2>4
<1>5. ASSUME ~ReadRow, ~ManifestEnds
      PROVE  manifest' = manifest /\ row' = row
  BY <1>5 DEF InventoryNext, Load, ManifestFails, ManifestsEnd,
     StartRoot, ObserveRoot, RootScanFails, RootScanEnds, ReadRole,
     RolesEnd, ReadPublic, RootEnds, LoadEnds, LoadStopped, loadVars,
     inventoryVars
<1>6. CASE ~ReadRow /\ ~ManifestEnds
  BY <1>2, <1>5, <1>6 DEF RowRead
<1>7. QED
  BY <1>2, <1>3, <1>4, <1>6


(* What a root's records are numbered by.                                  *)
LEMMA RecordPlace ==
  ASSUME LoadTypeOK, NEW r \in DOMAIN roots, NEW n \in DOMAIN roots[r].records
  PROVE  /\ r \in Nat /\ n \in 1 .. Len(roots[r].records)
         /\ roots[r].records[n].fact \in Fact
         /\ roots[r].records[n].fact \in Seen(roots[r])
<1>1. r \in Nat /\ roots[r] \in Root
  BY DEF LoadTypeOK
<1>2. roots[r].records \in Seq(Record)
  BY <1>1 DEF Root
<1>3. n \in 1 .. Len(roots[r].records) /\ roots[r].records[n] \in Record
  BY <1>2
<1>4. QED
  BY <1>1, <1>3 DEF Record, Seen

(* A step reads at most the fact its loop is at.                           *)
LEMMA OneRead ==
  ASSUME LoadTypeOK, RootFactsInv, [InventoryNext]_loadVars, stage' # "exit",
         NEW r \in DOMAIN roots, NEW n \in DOMAIN roots[r].records
  PROVE  /\ RoleRead(r, n)' /\ ~RoleRead(r, n)
              => ReadRole /\ r = root + 1 /\ n = at + 1
         /\ PublicRead(r, n)' /\ ~PublicRead(r, n)
              => ReadPublic /\ r = root + 1 /\ n = at + 1
<1> USE DEF RoleRead, PublicRead
<1>1. /\ r \in Nat /\ root \in Nat /\ at \in Nat
      /\ n \in 1 .. Len(roots[r].records) /\ n \in Nat
  BY RecordPlace DEF LoadTypeOK
<1>2. ASSUME stage \in {"roles", "publics"}
      PROVE  Len(facts) = Len(roots[root + 1].records)
  BY <1>2 DEF RootFactsInv, Scanning
<1>3. CASE ReadRole
  <2>1. stage = "roles" /\ at' = at + 1 /\ root' = root
    BY <1>3 DEF ReadRole, Looking
  <2>2. \A m : AddMapping(m) => stage' \in {stage, "exit"}
    BY DEF AddMapping, Fails
  <2>3. stage' = "roles"
    BY <1>3, <2>1, <2>2 DEF ReadRole, Fails
  <2>4. QED
    BY <1>1, <1>3, <2>1, <2>3
<1>4. CASE ReadPublic
  <2>1. stage = "publics" /\ at' = at + 1 /\ root' = root
    BY <1>4 DEF ReadPublic, Looking
  <2>2. \A m : AddMapping(m) => stage' \in {stage, "exit"}
    BY DEF AddMapping, Fails
  <2>3. stage' = "publics"
    BY <1>4, <2>1, <2>2 DEF ReadPublic
  <2>4. QED
    BY <1>1, <1>4, <2>1, <2>3
<1>5. CASE RolesEnd
  BY <1>1, <1>2, <1>5 DEF RolesEnd, LoadTypeOK
<1>6. CASE RootEnds
  BY <1>1, <1>2, <1>6 DEF RootEnds
<1>7. CASE StartRoot
  BY <1>1, <1>7 DEF StartRoot
<1>8. CASE RootScanEnds
  BY <1>1, <1>8 DEF RootScanEnds, inventoryVars, RootFactsInv
<1>9. CASE LoadEnds
  BY <1>1, <1>9 DEF LoadEnds, inventoryVars
<1>10. CASE ManifestsEnd
  BY <1>1, <1>10 DEF ManifestsEnd, inventoryVars
<1>11. CASE ReadRow \/ ManifestEnds
  <2>1. stage = "manifests" /\ root' = root
    BY <1>11 DEF ReadRow, ManifestEnds, Reading
  <2>2. stage' \in {stage, "exit"}
    BY <1>11 DEF ReadRow, ManifestEnds, AddMapping, Fails
  <2>3. QED
    BY <1>1, <2>1, <2>2
<1>12. CASE ObserveRoot
  BY <1>1, <1>12 DEF ObserveRoot, Observe, Fails, inventoryVars
<1>13. CASE UNCHANGED loadVars
  BY <1>1, <1>13 DEF loadVars, inventoryVars
<1>14. QED
  BY <1>3, <1>4, <1>5, <1>6, <1>7, <1>8, <1>9, <1>10, <1>11, <1>12, <1>13
     DEF InventoryNext, Load, LoadStopped, ManifestFails, RootScanFails,
         ScanFails, Fails

LEMMA RolesListedStep ==
  ASSUME LoadTypeOK, RootFactsInv, UniqueInv, SourcedInv, RolesListedInv,
         [InventoryNext]_loadVars
  PROVE  RolesListedInv'
<1> SUFFICES ASSUME stage' # "exit", NEW r \in DOMAIN roots,
                    NEW n \in DOMAIN roots[r].records,
                    NEW f, f = roots[r].records[n].fact,
                    RoleRead(r, n)', IsRole(f)
             PROVE  Listed(f.callerUsr, Native(f))'
  BY SourcesStay DEF RolesListedInv
<1>1. stage # "exit" /\ Kept
  BY ExitStays, EntriesStep
<1>2. CASE RoleRead(r, n)
  BY <1>1, <1>2, ListedStays DEF RolesListedInv
<1>3. CASE ~RoleRead(r, n)
  <2>1. ReadRole /\ r = root + 1 /\ n = at + 1
    BY <1>3, OneRead
  <2>2. f = facts[at + 1]
    BY <2>1, LookedAtSeen DEF ReadRole
  <2>3. ~Unusable(f) /\ AddMapping(RoleMapping(f))
    BY <2>1, <2>2 DEF ReadRole, Fails, RoleMapping
  <2>4. PICK m \in Mapping : /\ m = RoleMapping(f)
                             /\ m.wrapperUsr = f.callerUsr
                             /\ m.originalUsr = Native(f)
    BY <2>3, RoleMappingTyped
  <2>5. Listed(m.wrapperUsr, m.originalUsr)'
    BY <2>3, <2>4, MappingAdded DEF LoadTypeOK
  <2>6. QED
    BY <2>4, <2>5
<1>4. QED
  BY <1>2, <1>3

LEMMA PublicsListedStep ==
  ASSUME LoadTypeOK, RootFactsInv, UniqueInv, SourcedInv, PublicsListedInv,
         [InventoryNext]_loadVars
  PROVE  PublicsListedInv'
<1> SUFFICES ASSUME stage' # "exit", NEW r \in DOMAIN roots,
                    NEW n \in DOMAIN roots[r].records,
                    NEW f, f = roots[r].records[n].fact,
                    PublicRead(r, n)', IsPublic(f, roots[r])
             PROVE  Listed(f.usr, "")'
  BY SourcesStay DEF PublicsListedInv
<1>1. stage # "exit" /\ Kept
  BY ExitStays, EntriesStep
<1>2. CASE PublicRead(r, n)
  BY <1>1, <1>2, ListedStays DEF PublicsListedInv
<1>3. CASE ~PublicRead(r, n)
  <2>1. ReadPublic /\ r = root + 1 /\ n = at + 1
    BY <1>3, OneRead
  <2>2. f = facts[at + 1] /\ f \in Fact
    BY <2>1, LookedAtSeen, RecordPlace DEF ReadPublic
  <2>3. AddMapping(PublicMapping(f))
    BY <2>1, <2>2 DEF ReadPublic, PublicMapping
  <2>4. PICK m \in Mapping : /\ m = PublicMapping(f) /\ m.wrapperUsr = f.usr
                             /\ m.originalUsr = ""
    BY <2>2, PublicMappingTyped DEF PublicMapping
  <2>5. Listed(m.wrapperUsr, m.originalUsr)'
    BY <2>3, <2>4, MappingAdded DEF LoadTypeOK
  <2>6. QED
    BY <2>4, <2>5
<1>4. QED
  BY <1>2, <1>3


-----------------------------------------------------------------------------
(* Every diagnostic of a root counts once.                                 *)

LEMMA OneSeen ==
  ASSUME LoadTypeOK, RootFactsInv, [InventoryNext]_loadVars, stage' # "exit",
         NEW r \in DOMAIN roots, NEW n \in DOMAIN roots[r].records
  PROVE  RecordSeen(r, n)' <=>
           \/ RecordSeen(r, n)
           \/ ObserveRoot /\ r = root + 1 /\ n = delivered + 1
<1> USE DEF RecordSeen, Scanning
<1>1. /\ r \in Nat /\ root \in Nat /\ delivered \in Nat
      /\ n \in 1 .. Len(roots[r].records) /\ n \in Nat
  BY RecordPlace DEF LoadTypeOK
<1>2. CASE ReadRole
  <2>1. stage = "roles" /\ root' = root /\ delivered' = delivered
    BY <1>2 DEF ReadRole, Looking, observerVars
  <2>2. \A m : AddMapping(m) => stage' \in {stage, "exit"}
    BY DEF AddMapping, Fails
  <2>3. stage' = "roles"
    BY <1>2, <2>1, <2>2 DEF ReadRole, Fails
  <2>4. QED
    BY <1>1, <2>1, <2>3 DEF ObserveRoot
<1>3. CASE ReadPublic
  <2>1. stage = "publics" /\ root' = root /\ delivered' = delivered
    BY <1>3 DEF ReadPublic, Looking, observerVars
  <2>2. \A m : AddMapping(m) => stage' \in {stage, "exit"}
    BY DEF AddMapping, Fails
  <2>3. stage' = "publics"
    BY <1>3, <2>1, <2>2 DEF ReadPublic
  <2>4. QED
    BY <1>1, <2>1, <2>3 DEF ObserveRoot
<1>4. CASE RolesEnd
  BY <1>1, <1>4 DEF RolesEnd, observerVars, ObserveRoot
<1>5. CASE RootEnds
  <2>1. delivered = Len(roots[root + 1].records) /\ stage = "publics"
    BY <1>5 DEF RootEnds, RootFactsInv
  <2>2. stage' = "roots" /\ root' = root + 1
    BY <1>5 DEF RootEnds
  <2>3. QED
    BY <1>1, <2>1, <2>2 DEF ObserveRoot
<1>6. CASE StartRoot
  BY <1>1, <1>6 DEF StartRoot, StartScan, ObserveRoot
<1>7. CASE RootScanEnds
  <2>1. stage = "rootscan" /\ stage' = "roles" /\ ScanEnded
        /\ root' = root /\ delivered' = delivered
    BY <1>7 DEF RootScanEnds, observerVars, inventoryVars
  <2>2. QED
    BY <1>1, <2>1 DEF ObserveRoot, Observe
<1>8. CASE LoadEnds
  BY <1>1, <1>8 DEF LoadEnds, inventoryVars, observerVars, ObserveRoot
<1>9. CASE ManifestsEnd
  BY <1>1, <1>9 DEF ManifestsEnd, inventoryVars, observerVars, ObserveRoot
<1>10. CASE ReadRow \/ ManifestEnds
  <2>1. stage = "manifests" /\ root' = root /\ delivered' = delivered
    BY <1>10 DEF ReadRow, ManifestEnds, Reading, observerVars
  <2>2. stage' = "manifests"
    BY <1>10, <2>1 DEF ReadRow, ManifestEnds, AddMapping, Fails
  <2>3. QED
    BY <1>1, <2>1, <2>2 DEF ObserveRoot
<1>11. CASE ObserveRoot
  <2>1. /\ stage = "rootscan" /\ stage' = stage /\ root' = root
        /\ delivered' = delivered + 1
    BY <1>11 DEF ObserveRoot, Observe, Fails, inventoryVars
  <2>2. QED
    BY <1>1, <1>11, <2>1
<1>12. CASE UNCHANGED loadVars
  <2>1. /\ stage' = stage /\ root' = root /\ delivered' = delivered
    BY <1>12 DEF loadVars, inventoryVars, observerVars
  <2>2. ~ObserveRoot
    BY <1>1, <2>1 DEF ObserveRoot, Observe
  <2>3. QED
    BY <1>1, <2>1, <2>2
<1>13. QED
  BY <1>2, <1>3, <1>4, <1>5, <1>6, <1>7, <1>8, <1>9, <1>10, <1>11, <1>12
     DEF InventoryNext, Load, LoadStopped, ManifestFails, RootScanFails,
         ScanFails, Fails

LEMMA DiagnosticPlaces ==
  /\ \A p : p \in DiagnosticsSeen <=>
       \E r \in DOMAIN roots : \E n \in DOMAIN roots[r].records :
         /\ p = <<r, n>> /\ roots[r].records[n].fact.kind = "DIAGNOSTIC"
         /\ RecordSeen(r, n)
  /\ \A p : p \in DiagnosticsSeen' <=>
       \E r \in DOMAIN roots' : \E n \in DOMAIN roots'[r].records :
         /\ p = <<r, n>> /\ roots'[r].records[n].fact.kind = "DIAGNOSTIC"
         /\ RecordSeen(r, n)'
<1>1. \A p : p \in DiagnosticsSeen <=>
        \E r \in DOMAIN roots : \E n \in DOMAIN roots[r].records :
          /\ p = <<r, n>> /\ roots[r].records[n].fact.kind = "DIAGNOSTIC"
          /\ RecordSeen(r, n)
  BY DEF DiagnosticsSeen
<1>2. \A p : p \in DiagnosticsSeen' <=>
        \E r \in DOMAIN roots' : \E n \in DOMAIN roots'[r].records :
          /\ p = <<r, n>> /\ roots'[r].records[n].fact.kind = "DIAGNOSTIC"
          /\ RecordSeen(r, n)'
  BY DEF DiagnosticsSeen
<1>3. QED
  BY <1>1, <1>2

LEMMA DiagnosticsStep ==
  ASSUME LoadTypeOK, RootFactsInv, DiagnosticsInv, [InventoryNext]_loadVars
  PROVE  DiagnosticsInv'
<1> SUFFICES ASSUME stage' # "exit"
             PROVE  /\ IsFiniteSet(DiagnosticsSeen')
                    /\ parseFailures' = Cardinality(DiagnosticsSeen')
  BY DEF DiagnosticsInv
<1>1. /\ IsFiniteSet(DiagnosticsSeen)
      /\ parseFailures = Cardinality(DiagnosticsSeen)
  BY ExitStays DEF DiagnosticsInv
<1>2. roots' = roots
  BY SourcesStay
<1> DEFINE here == <<root + 1, delivered + 1>>
           record == roots[root + 1].records[delivered + 1]
<1>3. CASE ObserveRoot
  <2>1. /\ stage = "rootscan" /\ ~ScanEnded /\ ObserverTypeOK
        /\ parseFailures' = Counted(records[delivered + 1])
    BY <1>3 DEF ObserveRoot, Observe, LoadTypeOK, ObserverTypeOK
  <2>2. /\ root < Len(roots) /\ records = roots[root + 1].records
    BY <2>1 DEF RootFactsInv, Scanning
  <2>3. root + 1 \in DOMAIN roots /\ delivered + 1 \in DOMAIN records
        /\ delivered \in Nat /\ root \in Nat
    BY <2>1, <2>2, RootTyped, RecordStored DEF LoadTypeOK
  <2>4. ~RecordSeen(root + 1, delivered + 1)
    BY <2>3 DEF RecordSeen
  <2>5. here \notin DiagnosticsSeen
    BY <2>4, DiagnosticPlaces
  <2>6. CASE record.fact.kind = "DIAGNOSTIC"
    <3>1. DiagnosticsSeen' = DiagnosticsSeen \cup {here}
      <4>1. \A p : p \in DiagnosticsSeen' =>
                     p \in DiagnosticsSeen \/ p = here
        BY <1>2, DiagnosticPlaces, OneSeen
      <4>2. \A p : p \in DiagnosticsSeen => p \in DiagnosticsSeen'
        BY <1>2, DiagnosticPlaces, OneSeen
      <4>3. here \in DiagnosticsSeen'
        <5>1. PICK r, n : r = root + 1 /\ n = delivered + 1
          OBVIOUS
        <5>2. r \in DOMAIN roots /\ n \in DOMAIN roots[r].records
          BY <2>2, <2>3, <5>1
        <5>3. RecordSeen(r, n)'
          BY <1>3, <5>1, <5>2, OneSeen
        <5>4. roots[r].records[n].fact.kind = "DIAGNOSTIC" /\ here = <<r, n>>
          BY <2>6, <5>1
        <5>5. QED
          BY <1>2, <5>2, <5>3, <5>4, DiagnosticPlaces
      <4>4. QED
        BY <4>1, <4>2, <4>3
    <3>2. parseFailures' = parseFailures + 1
      BY <2>1, <2>2, <2>6 DEF Counted
    <3>3. QED
      BY <1>1, <2>5, <3>1, <3>2, FS_AddElement
  <2>7. CASE record.fact.kind # "DIAGNOSTIC"
    <3>1. DiagnosticsSeen' = DiagnosticsSeen
      BY <1>2, <2>7, DiagnosticPlaces, OneSeen
    <3>2. parseFailures' = parseFailures
      BY <2>1, <2>2, <2>7 DEF Counted, LoadTypeOK
    <3>3. QED
      BY <1>1, <3>1, <3>2
  <2>8. QED
    BY <2>6, <2>7
<1>4. CASE ~ObserveRoot
  <2>1. DiagnosticsSeen' = DiagnosticsSeen
    BY <1>2, <1>4, DiagnosticPlaces, OneSeen
  <2>2. parseFailures' = parseFailures
    BY <1>4 DEF InventoryNext, Load, ManifestFails, ReadRow, ManifestEnds,
       ManifestsEnd, StartRoot, RootScanFails, ScanFails, RootScanEnds,
       ReadRole, RolesEnd, ReadPublic, RootEnds, LoadEnds, LoadStopped,
       loadVars, modelVars
  <2>3. QED
    BY <1>1, <2>1, <2>2
<1>5. QED
  BY <1>3, <1>4


-----------------------------------------------------------------------------
(* What holds while the inventory is loaded holds throughout.              *)

LEMMA LoadInitInv ==
  InventoryInit => LoadInv
<1> SUFFICES ASSUME InventoryInit PROVE LoadInv
  OBVIOUS
<1>1. LoadTypeOK /\ RootFactsInv
  BY LoadInitTyped
<1>2. /\ inventory = <<>> /\ parseFailures = 0 /\ stage = "manifests"
      /\ manifest = 0 /\ row = 0 /\ root = 0
  BY DEF InventoryInit
<1>3. SourcedInv /\ UniqueInv
  BY <1>2 DEF SourcedInv, UniqueInv
<1>4. RowsListedInv
  <2> SUFFICES ASSUME NEW m \in DOMAIN manifests,
                      NEW r \in DOMAIN manifests[m].rows
               PROVE  ~RowRead(m, r)
    BY DEF RowsListedInv
  <2>1. m \in Nat \ {0} /\ manifests[m] \in Manifest
    BY <1>1 DEF LoadTypeOK
  <2>2. manifests[m].rows \in Seq(Row)
    BY <2>1 DEF Manifest
  <2>3. r \in Nat \ {0}
    BY <2>2
  <2>4. QED
    BY <1>2, <2>1, <2>3 DEF RowRead
<1>5. \A r \in DOMAIN roots : r \in Nat \ {0}
  BY <1>1 DEF LoadTypeOK
<1>6. RolesListedInv /\ PublicsListedInv
  <2>1. \A r \in DOMAIN roots : \A n : ~RoleRead(r, n) /\ ~PublicRead(r, n)
    BY <1>2, <1>5 DEF RoleRead, PublicRead
  <2>2. QED
    BY <2>1, Zenon DEF RolesListedInv, PublicsListedInv
<1>7. DiagnosticsInv
  <2>1. \A r \in DOMAIN roots : \A n : ~RecordSeen(r, n)
    BY <1>2, <1>5 DEF RecordSeen, Scanning
  <2>2. DiagnosticsSeen = {}
    BY <2>1, DiagnosticPlaces
  <2>3. QED
    BY <1>2, <2>2, FS_EmptySet DEF DiagnosticsInv
<1>8. QED
  BY <1>1, <1>3, <1>4, <1>6, <1>7 DEF LoadInv

LEMMA LoadStepInv ==
  LoadInv /\ [InventoryNext]_loadVars => LoadInv'
<1> SUFFICES ASSUME LoadInv, [InventoryNext]_loadVars PROVE LoadInv'
  OBVIOUS
<1> USE DEF LoadInv
<1>1. LoadTypeOK' /\ RootFactsInv'
  BY LoadStepTyped
<1>2. UniqueInv' /\ SourcedInv'
  BY EntriesStep
<1>3. RowsListedInv'
  BY RowsListedStep
<1>4. RolesListedInv'
  BY RolesListedStep
<1>5. PublicsListedInv'
  BY PublicsListedStep
<1>6. DiagnosticsInv'
  BY DiagnosticsStep
<1>7. QED
  BY <1>1, <1>2, <1>3, <1>4, <1>5, <1>6

LEMMA LoadAlways == InventorySpec => []LoadInv
<1>1. QED
  BY LoadInitInv, LoadStepInv, PTL DEF InventorySpec

-----------------------------------------------------------------------------
(* A complete load.                                                        *)

LEMMA AllListed ==
  ASSUME LoadInv, stage = "loaded"
  PROVE  /\ \A m \in Rows \cup Roles : Listed(m.wrapperUsr, m.originalUsr)
         /\ \A usr \in Publics : Listed(usr, "")
<1> USE DEF LoadInv
<1>1. manifest = Len(manifests) /\ root = Len(roots)
  BY DEF RootFactsInv
<1>2. ASSUME NEW m \in Rows PROVE Listed(m.wrapperUsr, m.originalUsr)
  <2>1. PICK k \in DOMAIN manifests : \E r \in DOMAIN manifests[k].rows :
          m = RowMapping(manifests[k].rows[r])
    BY DEF Rows
  <2>2. PICK r \in DOMAIN manifests[k].rows :
          m = RowMapping(manifests[k].rows[r])
    BY <2>1
  <2>3. RowRead(k, r)
    BY <1>1 DEF LoadTypeOK, RowRead
  <2>4. stage # "exit"
    OBVIOUS
  <2>5. QED
    BY <2>2, <2>3, <2>4 DEF RowsListedInv
<1>3. \A r \in DOMAIN roots : r <= root
  BY <1>1 DEF LoadTypeOK
<1>4. ASSUME NEW m \in Roles PROVE Listed(m.wrapperUsr, m.originalUsr)
  <2>1. PICK r \in DOMAIN roots : \E f \in Seen(roots[r]) :
          /\ IsRole(f)
          /\ m = [wrapperUsr |-> f.callerUsr, originalUsr |-> Native(f)]
    BY DEF Roles
  <2>2. PICK f \in Seen(roots[r]) :
          /\ IsRole(f)
          /\ m = [wrapperUsr |-> f.callerUsr, originalUsr |-> Native(f)]
    BY <2>1
  <2>3. PICK n \in DOMAIN roots[r].records : f = roots[r].records[n].fact
    BY <2>2 DEF Seen
  <2>4. Listed(f.callerUsr, Native(f))
    BY <1>3, <2>2, <2>3 DEF RolesListedInv, RoleRead
  <2>5. m.wrapperUsr = f.callerUsr /\ m.originalUsr = Native(f)
    BY <2>2
  <2>6. QED
    BY <2>4, <2>5
<1>5. ASSUME NEW usr \in Publics PROVE Listed(usr, "")
  <2>1. PICK r \in DOMAIN roots : \E f \in Seen(roots[r]) :
          IsPublic(f, roots[r]) /\ usr = f.usr
    BY DEF Publics
  <2>2. PICK f \in Seen(roots[r]) : IsPublic(f, roots[r]) /\ usr = f.usr
    BY <2>1
  <2>3. PICK n \in DOMAIN roots[r].records : f = roots[r].records[n].fact
    BY <2>2 DEF Seen
  <2>4. QED
    BY <1>3, <2>2, <2>3 DEF PublicsListedInv, PublicRead
<1>6. QED
  BY <1>2, <1>4, <1>5

(* What the diagnostics of the roots are counted against.                  *)
LEMMA AllDiagnostics ==
  ASSUME LoadInv, stage = "loaded"
  PROVE  DiagnosticsSeen =
           UNION {{<<r, n>> : n \in
             {k \in DOMAIN roots[r].records :
                roots[r].records[k].fact.kind = "DIAGNOSTIC"}} :
             r \in DOMAIN roots}
<1>1. root = Len(roots)
  BY DEF LoadInv, RootFactsInv
<1>2. \A r \in DOMAIN roots : \A n : RecordSeen(r, n)
  BY <1>1 DEF LoadInv, LoadTypeOK, RecordSeen
<1>3. QED
  BY <1>2 DEF DiagnosticsSeen

(* Whatever the manifests and the header roots say, and in whatever order, *)
(* a complete load lists exactly the wrappers they name, each once and     *)
(* with a native identity whenever one of them gives one.                  *)
THEOREM InventoryIsExact == InventorySpec => []InventoryIsTheSources
<1>1. LoadInv => InventoryIsTheSources
  <2> SUFFICES ASSUME LoadInv PROVE InventoryIsTheSources
    OBVIOUS
  <2>1. \A i, j \in DOMAIN inventory :
          inventory[i].wrapperUsr = inventory[j].wrapperUsr
            /\ inventory[i].wrapperUsr # "" => i = j
    BY DEF LoadInv, UniqueInv
  <2>2. ASSUME stage = "loaded",
               NEW usr \in {m.wrapperUsr : m \in Rows \cup Roles} \cup Publics
        PROVE  \E i \in DOMAIN inventory :
                 /\ inventory[i].wrapperUsr = usr
                 /\ \/ inventory[i].originalUsr \in Natives(usr) \ {""}
                    \/ inventory[i].originalUsr = "" /\ Natives(usr) \subseteq {""}
    <3>1. CASE Natives(usr) \subseteq {""}
      <4>1. PICK native : Listed(usr, native)
        BY <2>2, AllListed
      <4>2. PICK i \in DOMAIN inventory : inventory[i].wrapperUsr = usr
        BY <4>1 DEF Listed
      <4>3. Sourced(usr, inventory[i].originalUsr)
        BY <4>2 DEF LoadInv, SourcedInv
      <4>4. inventory[i].originalUsr = ""
        BY <3>1, <4>3 DEF Sourced
      <4>5. QED
        BY <3>1, <4>2, <4>4
    <3>2. CASE ~(Natives(usr) \subseteq {""})
      <4>1. PICK m \in Rows \cup Roles :
              m.wrapperUsr = usr /\ m.originalUsr # ""
        BY <3>2 DEF Natives
      <4>2. PICK i \in DOMAIN inventory :
              inventory[i].wrapperUsr = usr /\ inventory[i].originalUsr # ""
        BY <2>2, <4>1, AllListed DEF Listed
      <4>3. Sourced(usr, inventory[i].originalUsr)
        BY <4>2 DEF LoadInv, SourcedInv
      <4>4. QED
        BY <4>2, <4>3 DEF Sourced
    <3>3. QED
      BY <3>1, <3>2
  <2>3. ASSUME stage = "loaded", NEW i \in DOMAIN inventory
        PROVE  \/ inventory[i].wrapperUsr \in Publics
               \/ inventory[i].originalUsr \in Natives(inventory[i].wrapperUsr)
    BY DEF LoadInv, SourcedInv, Sourced
  <2>4. stage = "loaded" => facts = <<>>
    BY DEF LoadInv, RootFactsInv
  <2>5. stage = "loaded" => parseFailures = Cardinality(DiagnosticsSeen)
    BY DEF LoadInv, DiagnosticsInv
  <2>6. QED
    BY <2>1, <2>2, <2>3, <2>4, <2>5, AllDiagnostics DEF InventoryIsTheSources
<1>2. QED
  BY <1>1, LoadAlways, PTL

(* No step of the load loses an entry or replaces a native identity.       *)
THEOREM NeverForgotten == InventorySpec => KnownIsKept
<1>1. ASSUME LoadInv, [InventoryNext]_loadVars
      PROVE  [/\ Len(inventory') >= Len(inventory)
              /\ \A i \in DOMAIN inventory :
                   /\ inventory'[i].wrapperUsr = inventory[i].wrapperUsr
                   /\ inventory[i].originalUsr # ""
                        => inventory'[i] = inventory[i]]_loadVars
  <2>1. Kept
    BY <1>1, EntriesStep DEF LoadInv
  <2>2. QED
    BY <2>1 DEF Kept
<1>2. QED
  BY <1>1, LoadAlways, PTL DEF InventorySpec, KnownIsKept

=============================================================================
