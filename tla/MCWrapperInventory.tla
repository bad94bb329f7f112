------------------------- MODULE MCWrapperInventory -------------------------
(***************************************************************************)
(* Instances of WrapperInventory for TLC: up to two manifests of up to two *)
(* rows about two wrappers, and up to two header roots of up to three      *)
(* records, with and without native identities, in every order.            *)
(***************************************************************************)
EXTENDS WrapperInventory, SequencesExt

TextOrder == <<"", "-", "in.h", "out.h", "read", "usr:p", "usr:q", "usr:read",
               "usr:recv", "wrapper", "wrapper-of:", "wrapper-of:recv">>
FewTexts == {TextOrder[i] : i \in DOMAIN TextOrder}
TextRank == [t \in FewTexts |-> (CHOOSE i \in DOMAIN TextOrder :
                                   TextOrder[i] = t) - 1]
None == [t \in {} |-> t]
MacroText == [n \in FewTexts |-> "macro:" \o n]
OfRecv == [n \in {"wrapper-of:", "wrapper-of:recv"} |->
             IF n = "wrapper-of:" THEN "" ELSE "usr:recv"]

Means(original, originalUsr, wrapperUsr) ==
  [mapping |-> [original |-> original, originalUsr |-> originalUsr,
                wrapper |-> "read", wrapperUsr |-> wrapperUsr],
   malformed |-> FALSE]
Bad == [Means("-", "-", "usr:p") EXCEPT !.malformed = TRUE]
SomeRows == {Means("read", "-", "usr:p"), Means("read", "usr:read", "usr:p"),
             Means("-", "usr:recv", "usr:p"), Means("read", "usr:read", "usr:q")}
FewManifests ==
  {<<>>} \cup {<<[columns |-> TRUE, rows |-> r]>> : r \in BoundedSeq(SomeRows, 2)}
  \cup {<<[columns |-> TRUE, rows |-> <<r>>], [columns |-> c, rows |-> <<q>>]>> :
          r \in SomeRows, q \in SomeRows \cup {Bad}, c \in BOOLEAN}
  \cup {<<[columns |-> TRUE, rows |-> <<r>>], [columns |-> TRUE, rows |-> <<>>]>> :
          r \in SomeRows}

At(kind, path, name, usr, callerUsr) ==
  [fact |->
     [kind |-> kind, path |-> path, line |-> 1, column |-> 1, name |-> name,
      caller |-> "", usr |-> usr, callerUsr |-> callerUsr, start |-> 1,
      end |-> 2, definition |-> FALSE, public |-> kind = "FUNCTION",
      indirect |-> FALSE, platform |-> FALSE],
   fits |-> TRUE]
SomeRecords ==
  {At("FUNCTION", "in.h", "read", "usr:p", ""),
   At("FUNCTION", "out.h", "read", "usr:q", ""),
   At("NOTE", "in.h", "wrapper", "", "usr:p"),
   At("NOTE", "in.h", "wrapper-of:recv", "", "usr:p"),
   At("NOTE", "out.h", "wrapper-of:recv", "", "usr:q"),
   At("NOTE", "in.h", "wrapper-of:", "", "usr:p"),
   At("DIAGNOSTIC", "in.h", "", "", "")}
Under(list) == [records |-> list, paths |-> {"in.h"}]
FewRoots ==
  {<<>>} \cup {<<Under(l)>> : l \in BoundedSeq(SomeRecords, 2)}
  \cup {<<Under(<<a, b, c>>)>> : a \in {At("FUNCTION", "in.h", "read", "usr:p", "")},
          b \in {At("FUNCTION", "out.h", "read", "usr:q", "")}, c \in SomeRecords}
  \cup {<<Under(<<At("FUNCTION", "in.h", "read", "usr:p", "")>>), Under(<<a, b>>)>> :
          a \in SomeRecords, b \in {At("FUNCTION", "in.h", "read", "usr:p", "")}}
=============================================================================
