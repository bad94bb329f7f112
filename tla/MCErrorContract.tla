-------------------------- MODULE MCErrorContract ---------------------------
(***************************************************************************)
(* Instances of ErrorContract for TLC: one file with up to three functions *)
(* that are recorded once or twice, and every short list of what can be    *)
(* recorded inside the first; a handler, the calls it leads to, in every   *)
(* order and in a cycle; the ownership of two files; tables that are too   *)
(* small by one; saved lines that are too long.                            *)
(***************************************************************************)
EXTENDS ErrorContract, SequencesExt

At(kind, line, callerUsr) ==
  [kind |-> kind, path |-> "a.c", usr |-> "", callerUsr |-> callerUsr,
   line |-> line, column |-> 1, start |-> 0, end |-> 0,
   env |-> FALSE, error |-> FALSE, fits |-> TRUE, long |-> FALSE]
Body(usr, line, start, end) ==
  [At("FUNCTION", line, "") EXCEPT !.usr = usr, !.start = start, !.end = end]
Call(line, callerUsr, usr) == [At("CALL", line, callerUsr) EXCEPT !.usr = usr]

F == Body("f", 1, 10, 20)
G == Body("g", 5, 50, 60)
H == Body("h", 8, 0, 0)
Wrapped == [Call(2, "f", "p101") EXCEPT !.env = TRUE, !.error = TRUE,
                                        !.start = 12]

(* What can be recorded inside F; the last three name no caller.           *)
Inside ==
  {Wrapped, [Wrapped EXCEPT !.line = 3, !.start = 14],
   At("ENV_CONTRACT", 1, "f"), At("ERROR_CONTRACT", 1, "f"),
   At("TERMINATION_ADAPTER", 1, "f"),
   At("ENV_USE", 3, "f"), At("ERROR_USE", 2, "f"),
   [At("ERROR_OPTIONAL", 2, "f") EXCEPT !.start = 12],
   [At("ERROR_DISCARD", 2, "f") EXCEPT !.start = 12],
   At("ERROR_UNCHECKED_CHAIN", 3, "f"),
   At("FUNCTION_RETURN", 3, "f"), At("FUNCTION_RETURN", 4, "f"),
   At("FUNCTION_EARLY_RETURN", 3, "f"),
   Call(4, "f", "exit"), At("PATH_TOCTOU", 3, "f"),
   [At("ERROR_CHECK", 4, "") EXCEPT !.start = 15],
   At("TRACE_USE", 6, ""), At("FUNCTION_RETURN", 9, "")}

ContractLists ==
  {p \o q : p \in {<<F>>, <<F, F>>, <<F, G>>}, q \in BoundedSeq(Inside, 2)}
  \cup {<<r>> \o <<F>> \o <<Wrapped, r>> : r \in Inside}
  \cup {<<F, Wrapped>> \o q : q \in BoundedSeq({At("ENV_USE", 3, "f"),
          At("ERROR_USE", 2, "f"), At("FUNCTION_RETURN", 4, "f")}, 3)}

Handler == At("SIGNAL_HANDLER_REGISTERED", 9, "f")
SignalSets ==
  {{Handler, Call(2, "f", "g"), Call(6, "g", "h"), Call(9, "h", "printf")},
   {Handler, Call(2, "f", "g"), Call(6, "g", "f"), Call(3, "f", "write")},
   {Handler, Call(2, "f", "exit"), At("SIGNAL_SHARED_OBJECT_ACCESS", 6, "g"),
    Call(3, "f", "g")},
   {Call(2, "f", "g"), At("SIGNAL_HANDLER_REGISTERED", 9, "g"),
    Call(6, "g", "h"), At("SIGNAL_SHARED_OBJECT_ACCESS", 1, "f")}}
SignalLists ==
  UNION {{p \o q : p \in {<<F, G, H>>, <<F, F, G>>}, q \in SetToSeqs(S)} :
           S \in SignalSets}

Role(kind, path) == [At(kind, 3, "f") EXCEPT !.path = path]
OwnershipLists ==
  BoundedSeq({Role(k, "a.c") : k \in Roles} \cup {Role("ERROR_ACQUIRE", "b.c")}, 3)

Long(r) == [r EXCEPT !.long = TRUE]
LongLists ==
  {<<Long(F)>>, <<Long(F), At("OTHER", 1, "")>>,
   <<F, Long(At("DIAGNOSTIC", 1, ""))>>, <<F, Long(Wrapped), Wrapped>>,
   <<F, G, H, Long(F)>>, <<Long(Role("ERROR_ACQUIRE", "a.c")), F>>,
   <<Role("ERROR_ACQUIRE", "a.c"), Long(Role("ERROR_RELEASE", "a.c"))>>}

LimitLists ==
  {<<F, G, H, F>>, <<F>> \o [n \in 1 .. 5 |-> At("ENV_USE", n, "f")],
   <<F, [Wrapped EXCEPT !.fits = FALSE]>>, <<[F EXCEPT !.fits = FALSE]>>,
   <<F, At("DIAGNOSTIC", 1, "")>>, <<At("OTHER", 1, ""), F>>,
   <<Role("ENV_ACQUIRE", "a.c"), Role("ENV_ACQUIRE", "b.c"),
     Role("ENV_ACQUIRE", "c.c"), Role("ENV_ACQUIRE", "d.c")>>}

Native == [help |-> FALSE, malformed |-> FALSE, empty |-> FALSE, facts |-> FALSE,
           database |-> FALSE, strict |-> TRUE]
FewArguments ==
  {Native, [Native EXCEPT !.facts = TRUE, !.strict = FALSE],
   [Native EXCEPT !.facts = TRUE, !.database = TRUE], [Native EXCEPT !.empty = TRUE],
   [Native EXCEPT !.malformed = TRUE], [Native EXCEPT !.help = TRUE],
   [Native EXCEPT !.help = TRUE, !.malformed = TRUE]}

FewLists == ContractLists \cup SignalLists \cup OwnershipLists
            \cup LimitLists \cup LongLists
=============================================================================
