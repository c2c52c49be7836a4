---------------------------- MODULE GuardDetector -----------------------------
(***************************************************************************)
(* check_guard of actenon_scan/detectors/guards.py: is the sink preceded   *)
(* by a guard that dominates it, is bound to its data and has its result   *)
(* used?  Everything is read off the nesting of the statements and the     *)
(* names in the calls.  Decorators and protected callbacks are left out.   *)
(***************************************************************************)
EXTENDS FunctionBody

(* ast.walk goes through the tree level by level. *)
WalksBefore(i, j) == Depth(i) < Depth(j) \/ (Depth(i) = Depth(j) /\ i < j)

(* _resolve_guard_style: by the definition in the module, else by name.    *)
AssertStyle(g) == IF body[g].defined THEN body[g].raises ELSE body[g].asserting

ResultUsed(g) == body[g].test = "guard" \/ body[g].target # ""

(* Mutant of Swallows: a raise somewhere in the try is enough. *)
SwallowsNothing(t) == FALSE

(* _except_handler_swallows: a broad handler without any raise in it.      *)
Swallows(t) ==
    /\ body[t].broad
    /\ \A i \in Lines : PartOf(t, i) = "handler" => body[i].kind # "raise"

(* What in the walk from the guard to the function refuses it.             *)
Refused(a, g, s) ==
    LET from == PartOf(a, g)
        to == PartOf(a, s)
    IN  CASE body[a].kind = "if" -> body[a].test = "false" \/ (from # "" /\ from # to)
          [] body[a].kind = "try" /\ from = "handler" -> to # "handler"
          [] body[a].kind = "try" /\ from = "body" -> to # "body" /\ Swallows(a)
          [] body[a].kind = "def" -> TRUE
          [] OTHER -> FALSE

(* _dominates *)
WalkDominates(g, s) == \A a \in Around(g) : ~Refused(a, g, s)

-----------------------------------------------------------------------------
(* _collect_arg_names: arguments that are plain names.                     *)
ArgNames(i) ==
    {body[i].args[k].of[1] : k \in {j \in 1 .. Len(body[i].args) : body[i].args[j].op = "name"}}

Copies == {i \in Lines : body[i].kind = "assign" /\ body[i].args[1].op = "name"}

(* _build_alias_map: the aliases a source has when its copy is walked.     *)
Aliases ==
    LET upto[k \in 0 .. Cardinality(Copies)] ==
          IF k = 0 THEN [n \in Names |-> {}]
          ELSE LET i == CHOOSE c \in Copies : Cardinality({d \in Copies : WalksBefore(d, c)}) = k - 1
                   source == body[i].args[1].of[1]
               IN  [upto[k - 1] EXCEPT ![body[i].target] =
                       @ \cup {source} \cup upto[k - 1][source]]
    IN  upto[Cardinality(Copies)]

(* _is_bound *)
Bound(g, s) ==
    \/ ArgNames(g) = {} \/ ArgNames(s) = {}
    \/ (ArgNames(g) \cup UNION {Aliases[n] : n \in ArgNames(g)}) \cap ArgNames(s) # {}

Bindings(n) == {i \in Lines : body[i].target = n}

(* _name_is_constant: constants, or names that are, down to constants, and *)
(* no name met twice on the way.                                           *)
ConstantName(n) ==
    LET holds[k \in 0 .. Cardinality(Names)] ==
          IF k = 0 THEN {}
          ELSE {m \in Names \ Params :
                  /\ Bindings(m) # {}
                  /\ \A i \in Bindings(m) :
                       /\ body[i].kind = "assign"
                       /\ \/ body[i].args[1].op = "const"
                          \/ body[i].args[1].op = "name" /\ body[i].args[1].of[1] \in holds[k - 1]}
        met[k \in 0 .. Cardinality(Names)] ==
          IF k = 0 THEN {n} ELSE met[k - 1] \cup UNION {{body[i].args[1].of[1] : i \in Copies \cap Bindings(m)} :
                                                          m \in met[k - 1]}
        copied == {i \in Copies : body[i].target \in met[Cardinality(Names)]}
    IN  /\ n \in holds[Cardinality(Names)]
        /\ \A i \in copied : body[i].args[1].of[1] # n
        /\ \A i, j \in copied : i # j => body[i].args[1].of[1] # body[j].args[1].of[1]

(* _is_counterfeit_binding: variables are passed, constants arrive.        *)
Counterfeit(g, s) ==
    /\ ArgNames(g) # {} /\ ArgNames(s) # {}
    /\ \A k \in 1 .. Len(body[g].args) :
         LET e == body[g].args[k]
         IN  e.op = "const" \/ (e.op = "name" /\ ConstantName(e.of[1]))

-----------------------------------------------------------------------------
(* The guards that dominate s; the first one walked decides.               *)
Dominating(s) == {g \in Guards : g < s /\ WalkDominates(g, s)}

Deciding(s) == CHOOSE g \in Dominating(s) : \A h \in Dominating(s) \ {g} : WalksBefore(g, h)

(* check_guard *)
CheckGuard(s) ==
    LET g == Deciding(s)
    IN  CASE Dominating(s) = {} -> "none"
          [] Dominating(s) # {} /\ AssertStyle(g) ->
               IF ~Bound(g, s) /\ Counterfeit(g, s) THEN "unbound" ELSE "guarded"
          [] Dominating(s) # {} /\ ~AssertStyle(g) /\ ~Bound(g, s) -> "unbound"
          [] OTHER -> IF ResultUsed(g) THEN "guarded" ELSE "weak"
=============================================================================
