---------------------------- MODULE WrapperFacts ----------------------------
(***************************************************************************)
(* The state the stages of audit-wrappers share, struct p101_wrapper_model *)
(* (src/include/model.h), and what the stages compute from it: the order   *)
(* of facts, the function a fact lies in, the wrapper of a native call.    *)
(*                                                                         *)
(* A text (path, name, USR) is a string compared only for equality and by  *)
(* the rank strcmp would give it; "" is the empty text.  What the code     *)
(* finds out by looking inside a text is a table: which patterns match a   *)
(* path, which headers belong to one platform, which USRs are lowered.     *)
(***************************************************************************)
EXTENDS Integers, Sequences, FiniteSets

CONSTANTS
  Rank,             \* where compare_text puts a text: a function on the texts
  Lowered,          \* canonical_native_usr: lowered USR -> canonical USR
  TypeIdentity,     \* USR with an "@T@" marker -> the identity rules use
  MacroIdentity,    \* macro name -> the text "macro:<name>"
  Aliases,          \* is_wrapper_implementation: <<lowered USR, wrapper USR>>
  ErrnoProviders,   \* the USRs errno lowers to
  InitialCapacity   \* INITIAL_CAPACITY of the three growing arrays

Texts == DOMAIN Rank

ASSUME WrapperAssumption ==
  /\ \A t \in Texts : Rank[t] \in Nat
  /\ \A t, u \in Texts : Rank[t] = Rank[u] => t = u
  /\ "" \in Texts /\ Rank[""] = 0
  /\ DOMAIN Lowered \subseteq Texts \ {""}
  /\ \A u \in DOMAIN Lowered : Lowered[u] \in Texts
  /\ DOMAIN TypeIdentity \subseteq Texts \ {""}
  /\ \A u \in DOMAIN TypeIdentity : TypeIdentity[u] \in Texts \ {""}
  /\ DOMAIN MacroIdentity = Texts
  /\ \A n \in Texts : MacroIdentity[n] # ""
  /\ Aliases \subseteq Texts \X Texts
  /\ ErrnoProviders \subseteq Texts
  /\ InitialCapacity \in Nat \ {0}

(* enum p101_c_analysis_kind, as far as the stages tell kinds apart.       *)
Kinds == {"INCLUDE", "FUNCTION", "CALL", "MACRO", "NOTE", "DIAGNOSTIC"}
KindRank == [k \in Kinds |->
  CASE k = "INCLUDE" -> 1 [] k = "FUNCTION" -> 2 [] k = "CALL" -> 3
    [] k = "MACRO" -> 4 [] k = "NOTE" -> 5 [] k = "DIAGNOSTIC" -> 6]

(* struct p101_wrapper_fact.  platform is what include_is_platform_specific *)
(* answers for the name and the resolved path of an INCLUDE.               *)
Fact == [kind : Kinds, path : Texts, line : Nat, column : Nat, name : Texts,
         caller : Texts, usr : Texts, callerUsr : Texts,
         start : Nat, end : Nat,
         definition : BOOLEAN, public : BOOLEAN, indirect : BOOLEAN,
         platform : BOOLEAN]

(* struct p101_wrapper_inventory and struct p101_wrapper_finding.          *)
Mapping == [original : Texts, originalUsr : Texts,
            wrapper : Texts, wrapperUsr : Texts]

VARIABLES
  stage,          \* the point main has reached
  err,            \* the sticky p101_error
  facts,          \* model->facts[0 .. fact_count - 1]
  inventory,      \* model->inventory
  findings,       \* model->findings
  parseFailures,  \* model->parse_failures
  capacity        \* the three capacities

modelVars == <<facts, inventory, findings, parseFailures, capacity>>

Arrays == {"facts", "inventory", "findings"}

(* Mutant of Doubled: an empty array is doubled too.                       *)
DoubledOnly(c) == 2 * c
(* grow_facts, grow_inventory and grow_findings: the next capacity.        *)
Doubled(c) == IF c = 0 THEN InitialCapacity ELSE 2 * c

(* Appending to an array makes room first when it is full.  MakeRoom is    *)
(* the case where that succeeds, NoRoom the case where realloc fails.      *)
MakeRoom(array, count) ==
  capacity' = [capacity EXCEPT ![array] = IF count = @ THEN Doubled(@) ELSE @]
NoRoom(array, count) ==
  /\ count = capacity[array]
  /\ UNCHANGED capacity

(* What every element stored in the three arrays relies on.                *)
WithinCapacity ==
  /\ Len(facts) <= capacity["facts"]
  /\ Len(inventory) <= capacity["inventory"]
  /\ Len(findings) <= capacity["findings"]

-----------------------------------------------------------------------------
(* compare_facts.                                                          *)

(* The fields compared, in the order they are compared.  What is not here  *)
(* (the resolved include, the flags but one) does not tell facts apart.    *)
FactKey(f) ==
  <<Rank[f.path], f.line, f.column, KindRank[f.kind], Rank[f.name],
    Rank[f.caller], Rank[f.usr], Rank[f.callerUsr], f.start, f.end,
    IF f.definition THEN 1 ELSE 0>>

Before(f, g) ==
  LET a == FactKey(f)
      b == FactKey(g)
  IN \E k \in 1 .. 11 : a[k] < b[k] /\ \A j \in 1 .. k - 1 : a[j] = b[j]

Alike(f, g) == FactKey(f) = FactKey(g)

(* A set of facts of which no two are alike, as qsort leaves it.           *)
Sorted(S) ==
  [n \in 1 .. Cardinality(S) |->
     CHOOSE f \in S : Cardinality({g \in S : Before(g, f)}) = n - 1]

InFactOrder(s) == \A i, j \in DOMAIN s : i < j => Before(s[i], s[j])

-----------------------------------------------------------------------------
(* Where a fact lies.                                                      *)

(* The first of a set of array positions; 0 when there is none.            *)
First(positions) ==
  IF positions = {} THEN 0
  ELSE CHOOSE i \in positions : \A j \in positions : i <= j

(* The first of the positions in s whose fact spans the least.             *)
Narrowest(s, positions) ==
  First({i \in positions :
           \A j \in positions : s[i].end - s[i].start <= s[j].end - s[j].start})

IsDefinition(f) == f.kind = "FUNCTION" /\ f.definition
IsExpansion(f)  == f.kind = "MACRO" /\ ~f.definition

(* p101_wrapper_semantic_caller_usr: the caller the fact names, else the   *)
(* narrowest definition around its start.                                  *)
Enclosing(f) ==
  {i \in DOMAIN facts :
     /\ IsDefinition(facts[i]) /\ facts[i].start <= facts[i].end
     /\ facts[i].path = f.path
     /\ facts[i].start <= f.start /\ f.start < facts[i].end}

SemanticCaller(f) ==
  IF f.callerUsr # "" THEN f.callerUsr
  ELSE LET i == Narrowest(facts, Enclosing(f)) IN
         IF i = 0 THEN "" ELSE facts[i].usr

-----------------------------------------------------------------------------
(* What a call is known as.                                                *)

CanonicalUsr(usr) == IF usr \in DOMAIN Lowered THEN Lowered[usr] ELSE usr

(* find_wrapper: the first entry for the native function a fact names; the *)
(* position in the inventory, 0 when there is none.                        *)
IsFor(m, f) ==
  \/ CanonicalUsr(f.usr) # "" /\ m.originalUsr = CanonicalUsr(f.usr)
  \/ f.kind = "MACRO" /\ m.original # "" /\ m.original = f.name

FindWrapper(f) == First({i \in DOMAIN inventory : IsFor(inventory[i], f)})

(* fact_callee_identity: the text an allow rule must name to cover a fact. *)
CalleeIdentity(f, w) ==
  LET usr == CanonicalUsr(f.usr)
      plain == IF usr \in DOMAIN TypeIdentity THEN TypeIdentity[usr] ELSE usr
  IN IF f.kind = "MACRO" /\ w # 0 /\ inventory[w].originalUsr # ""
     THEN inventory[w].originalUsr
     ELSE IF f.kind = "MACRO" /\ plain = "" THEN MacroIdentity[f.name]
     ELSE plain
=============================================================================
