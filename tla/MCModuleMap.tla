---------------------------- MODULE MCModuleMap -----------------------------
(***************************************************************************)
(* Instances of ModuleMap for TLC: streams of up to six records, each one  *)
(* about a few rules or limits, read in every order; a header's records    *)
(* come twice.  Tables hold three records (includes four, notes one).      *)
(***************************************************************************)
EXTENDS ModuleMap

SmallLimit == [t \in TableNames |->
  CASE t = "includes" -> 4 [] t = "notes" -> 1 [] OTHER -> 3]

List == [base |-> <<"list">>, header |-> FALSE]
ListH == [base |-> <<"p101", "list">>, header |-> TRUE]
Item == [base |-> <<"item">>, header |-> FALSE]
ItemH == [base |-> <<"item">>, header |-> TRUE]
MainC == [base |-> <<"main">>, header |-> FALSE]

Fact(kind, path, line, name, usr) ==
  [kind |-> kind, path |-> path, line |-> line, name |-> name, usr |-> usr,
   symbol |-> "", definition |-> TRUE, static |-> FALSE, local |-> FALSE,
   target |-> [dir |-> "", base |-> <<"item">>]]
Decl(path, line, name, usr) ==
  [Fact("FUNCTION", path, line, name, usr) EXCEPT !.definition = FALSE]
Def(path, line, name, usr) == Fact("FUNCTION", path, line, name, usr)
Static(path, line, name, usr) ==
  [Def(path, line, name, usr) EXCEPT !.static = TRUE]
Call(path, line, name, usr) == Fact("CALL", path, line, name, usr)
Macro(path, line, name) == Fact("MACRO", path, line, name, "")
Type(path, line, name) == Fact("TYPE", path, line, name, "")
Note(path, line, name, symbol) ==
  [Fact("NOTE", path, line, name, "") EXCEPT !.symbol = symbol]
Include(path, line, dir, base) ==
  [Fact("INCLUDE", path, line, <<>>, "")
     EXCEPT !.local = TRUE, !.target = [dir |-> dir, base |-> base]]
System(path, line) == Fact("INCLUDE", path, line, <<>>, "")
File(path) == Fact("FILE", path, 1, <<>>, "")

Create == <<"list", "create">>
Destroy == <<"list", "destroy">>
GuardOf(base) == <<"p101">> \o base \o <<"h">>

Is(f) == [is |-> "fact", fact |-> f]
Odd(is) == [is |-> is]
Copies(r) == IF r.is = "fact" /\ r.fact.path.header THEN 2 ELSE 1
Stream(native, records) ==
  [native |-> native, copies |-> [r \in records |-> Copies(r)]]
Of(facts) == Stream(TRUE, {Is(f) : f \in facts})
Saved(records) == Stream(FALSE, records)

UsesList == Include(MainC, 1, ".", <<"p101", "list">>)
OwnList == Include(List, 1, "", <<"p101", "list">>)
ListGuard == Macro(ListH, 1, GuardOf(<<"p101", "list">>))

FunctionStreams ==
  {Of({Decl(ListH, 3, Create, "u:c"), Def(List, 5, Create, "u:c"),
       Call(MainC, 7, Create, "u:c"), Def(MainC, 5, <<"main">>, MainUsr),
       UsesList}),
   Of({Decl(ListH, 3, Create, "u:c"), Static(List, 5, Create, "u:c"),
       Def(List, 9, Destroy, "u:d"), Call(List, 7, Destroy, "u:d")}),
   Of({Def(List, 5, Create, "u:c"), Def(List, 9, Destroy, "u:d"),
       Def(List, 12, <<"item", "at">>, "u:a"), Call(Item, 7, Destroy, "u:d")}),
   Of({Def(List, 5, <<"p101", "count">>, "u:c"), Def(List, 9, <<"p101", "at">>, "u:d"),
       Def(Item, 12, <<"item", "count">>, "u:i"), Decl(List, 2, Create, "u:x")}),
   Of({Def(List, 5, <<"p101", "list", "open">>, "u:o"),
       Call(List, 6, <<"list", "open">>, "u:n"),
       Def(Item, 5, <<"item", "open">>, "u:i"),
       Static(Item, 7, <<"item", "close">>, "u:s")}),
   Of({Def(List, 5, <<"list", "init">>, "u:i"), Def(Item, 5, <<"list", "fini">>, "u:f"),
       Def(List, 9, <<"list", "from", "name">>, "u:n"),
       Call(MainC, 3, <<"list", "fini">>, "u:f")}),
   (* A project without a fault.                                           *)
   Of({Decl(ListH, 3, Destroy, "u:d"), Def(List, 5, Destroy, "u:d"),
       ListGuard, OwnList, UsesList})}
IncludeStreams ==
  {Of({Include(ListH, 2, "", <<"item">>), Include(ItemH, 2, "p101", <<"p101", "list">>),
       Macro(ItemH, 1, GuardOf(<<"item">>))}),
   Of({OwnList, Include(List, 2, "other", <<"item">>), File(ListH), File(Item)}),
   Of({Include(List, 1, "@", <<"item">>), Include(List, 2, ".", <<"p101", "list">>),
       File(ListH), File(ItemH), System(List, 3)}),
   Of({Include(List, 1, "", <<"list", "internal">>), Include(List, 2, "", <<"item">>),
       File(ListH), Macro(ListH, 3, <<"list", "h">>)})}
LimitStreams ==
  {Of({Macro(ListH, l, <<"list", "size">>) : l \in 1 .. 2} \cup
      {Macro(ListH, 3, GuardOf(<<"list">>)), Macro(ListH, 4, <<"x">>),
       Call(Item, 1, <<"x">>, "u:x")}),
   Of({Type(ListH, 1, <<"list", "t">>), Type(ListH, 2, <<"list">>),
       Type(Item, 1, <<"errno", "t">>), ListGuard}),
   Of({Fact("ENUM", ItemH, l, <<"item">>, "") : l \in 1 .. 4}),
   Of({Note(List, l, "ALLOC_SIZEOF_TYPE", "f") : l \in 1 .. 2}
      \cup {Note(ListH, 3, "SIGNATURE_ENV_ORDER", "g")}),
   Of({Note(List, 1, "SIGNATURE_ENV_ORDER", "f"), Note(List, 1, "ERROR_USE", "f")}),
   Of({Call(List, l, <<"x">>, "u:x") : l \in 1 .. 4}),
   Of({Include(ListH, l, "", <<"p101", "list">>) : l \in 1 .. 3}),
   Of({File(List), File(ListH), File(Item), File(ItemH)}),
   Of({Def(List, l, <<"list", "f">>, "u:f") : l \in 1 .. 4}),
   Of({Static(List, l, <<"list", "f">>, "u:f") : l \in 1 .. 4}),
   Of({File(List), Def(List, 1, Create, NoUsr)}),
   Of({File(List), Call(List, 1, Create, NoUsr)}),
   Of({})}
OddStreams ==
  {Stream(TRUE, {Is(File(List)), Odd("diagnostic")}),
   Stream(TRUE, {Is(File(List)), Odd("pathless")}),
   Saved({Is(File(List)), Odd("invalid"), Odd("other")}),
   Saved({Is(File(List)), Is(Def(List, 3, Destroy, "u:d")), Odd("long")}),
   Saved({Odd("other"), Odd("long")}), Saved({Odd("pathless")}), Saved({}),
   Saved({Is(Decl(ListH, 3, Destroy, "u:d")), Is(Def(List, 5, Destroy, "u:d")),
          Is(ListGuard), Is(OwnList), Is(UsesList)})}
FewStreams == FunctionStreams \cup IncludeStreams \cup LimitStreams \cup OddStreams

NoLayers == [is |-> "none"]
Layers == [is |-> "file",
           edges |-> {<<<<"main">>, Module(<<"list">>)>>}]
Plain == [help |-> FALSE, malformed |-> FALSE, empty |-> FALSE, facts |-> FALSE,
          database |-> FALSE, library |-> FALSE, file |-> TRUE,
          maxFunctions |-> 3, maxPublic |-> 1, layer |-> NoLayers]
FewArguments ==
  {Plain, [Plain EXCEPT !.library = TRUE, !.file = FALSE],
   [Plain EXCEPT !.layer = Layers, !.maxFunctions = 1, !.maxPublic = 2],
   [Plain EXCEPT !.layer = [is |-> "unreadable"]],
   [Plain EXCEPT !.facts = TRUE],
   [Plain EXCEPT !.facts = TRUE, !.database = TRUE],
   [Plain EXCEPT !.help = TRUE],
   [Plain EXCEPT !.help = TRUE, !.malformed = TRUE],
   [Plain EXCEPT !.malformed = TRUE], [Plain EXCEPT !.empty = TRUE],
   [Plain EXCEPT !.maxPublic = 0], [Plain EXCEPT !.maxFunctions = 0]}
=============================================================================
