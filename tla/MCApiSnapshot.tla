--------------------------- MODULE MCApiSnapshot ---------------------------
(***************************************************************************)
(* Instances of ApiSnapshot for TLC: workspaces of two libraries and up to *)
(* three identities, one of them a type and not a function, whose facts    *)
(* are read in every order; each of them alone, and those that a snapshot  *)
(* can be made of compared with each other.                                *)
(***************************************************************************)
EXTENDS ApiSnapshot

Api(usr, header, platforms) ==
  [is |-> "api", usr |-> usr, header |-> header, platforms |-> platforms]
Blank == [is |-> "blank"]
Ragged == [is |-> "ragged"]
Manifest(library, rows) == [library |-> library, columns |-> TRUE, rows |-> rows]

Said1(is, usr, text) == [is |-> is, usr |-> usr, text |-> text, public |-> TRUE]
Type(usr, text) == Said1("function", usr, text)
Role(usr, text) == Said1("role", usr, text)
Value(usr, kind, text) ==
  [is |-> "value", usr |-> usr, text |-> text, public |-> TRUE, kind |-> kind,
   library |-> "lib_a", header |-> "a.h"]
Private(f) == [f EXCEPT !.public = FALSE]
Invalid == [is |-> "invalid", usr |-> 0]

Workspace(manifests, facts) == [manifests |-> manifests, facts |-> facts]
Unix == {"linux", "macos"}

Plain ==
  Workspace(<<Manifest("lib_a", <<Api(2, "a.h", Unix), Blank, Api(1, "", Unix)>>)>>,
            {Type(2, "t"), Type(1, "t"), Role(1, "owned"), Value(3, "type-layout", "8"),
             Private(Type(2, "u"))})
Moved ==
  Workspace(<<Manifest("lib_a", <<Api(2, "b.h", {"macos", "freebsd"})>>),
              Manifest("lib_b", <<Api(1, "a.h", Platforms)>>)>>,
            {Type(2, "t"), Type(1, "t"), Role(2, "owned"), Value(3, "type-layout", "16"),
             Private(Value(3, "type-layout", "4"))})
Changed ==
  Workspace(<<Manifest("lib_a", <<Api(1, "a.h", Unix)>>)>>,
            {Type(1, "u"), Role(1, "borrowed"), Role(2, "owned"),
             Value(3, "macro-value", "1")})
Larger ==
  Workspace(<<Manifest("lib_a", <<Api(1, "a.h", Platforms), Api(2, "a.h", Platforms)>>)>>,
            {Type(1, "t"), Type(2, "t"), Role(1, "owned"), Value(3, "type-layout", "8"),
             Value(4, "enum-value", "0")})
Sound == {Plain, Moved, Changed, Larger}

(* A struct of the same name and layout in the headers of two libraries.   *)
Shared ==
  Workspace(<<Manifest("lib_a", <<Api(1, "a.h", Unix)>>)>>,
            {Type(1, "t"), Value(3, "type-layout", "8"),
             [Value(3, "type-layout", "8") EXCEPT !.library = "lib_b", !.header = "b.h"]})
One(facts) == Workspace(<<Manifest("lib_a", <<Api(1, "a.h", Unix)>>)>>, facts)
Faulty ==
  {One({}), One({Type(1, "t"), Type(1, "u")}),
   One({Type(1, "t"), Role(1, "owned"), Role(1, "borrowed")}),
   One({Type(1, "t"), Value(1, "macro-value", "1")}),
   One({Type(1, "t"), Value(2, "enum-value", "1"), Value(2, "enum-value", "2")}),
   One({Type(1, "t"), Invalid}), Workspace(<<>>, {}),
   Workspace(<<Manifest("lib_a", <<Blank>>)>>, {}),
   Workspace(<<Manifest("lib_a", <<Api(1, "a.h", Unix), Ragged>>)>>, {Type(1, "t")}),
   Workspace(<<[Manifest("lib_a", <<Api(1, "a.h", Unix)>>) EXCEPT !.columns = FALSE]>>, {}),
   Workspace(<<Manifest("lib_a", <<Api(1, "a.h", Unix), Api(1, "a.h", Unix)>>)>>,
             {Type(1, "t")}),
   Workspace(<<Manifest("lib_a", <<Api(1, "a.h", Unix)>>),
               Manifest("lib_b", <<Api(1, "b.h", Unix)>>)>>, {Type(1, "t")})}

Snapshot(workspace, output) ==
  [is |-> "snapshot", workspace |-> workspace, output |-> output]
Compare == [is |-> "compare", old |-> "old", new |-> "new"]
Scripts ==
  {<<Snapshot(o, "old"), Snapshot(n, "new"), Compare>> : o, n \in Sound}
  \cup {<<Snapshot(w, "new"), Compare>> : w \in Faulty \cup {Plain, Shared}}
  \cup {<<[is |-> "help"]>>, <<[is |-> "usage"]>>}

(* What an earlier version left for the comparison.                        *)
Left == <<[usr |-> 1, library |-> "lib_a", header |-> "a.h", platforms |-> Unix,
           signature |-> "t", ownership |-> "owned", kind |-> "enum-value"]>>
Leftovers ==
  {[old |-> f, new |-> NoFile] : f \in {File(v, Left, FALSE) : v \in 1 .. 4}
                                       \cup {NoFile, File(0, <<>>, FALSE), File(4, Left, TRUE)}}
=============================================================================
