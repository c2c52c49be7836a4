--------------------------- MODULE AuthorityBinding ---------------------------
(***************************************************************************)
(* actenon_scan/repository/taint.py and authority_binding.py: where the    *)
(* arguments of a guard and of a sink come from, and whether they are the  *)
(* same.                                                                   *)
(***************************************************************************)
EXTENDS FunctionBody

LOCAL INSTANCE GuardSemantics

(* _LATTICE_ORDER, of the states that arise. *)
TaintOrder == <<"untainted", "external", "model_controlled", "unknown">>

Rank(state) == CHOOSE k \in 1 .. Len(TaintOrder) : TaintOrder[k] = state

JoinTaint(a, b) == IF Rank(a) >= Rank(b) THEN a ELSE b

(* A TaintFact; origin "" is None.  "a" is what helper() calls its         *)
(* parameter.                                                              *)
Fact(state, origin) == [state |-> state, origin |-> origin]

UnknownFact == Fact("unknown", "")

NameFact(env, n) == IF n \in DOMAIN env THEN env[n] ELSE UnknownFact

(* Mutant of TaintOf: what another call returns has the taint of its       *)
(* argument.                                                               *)
TaintThroughCalls(e, env) ==
    CASE e.op = "const" -> Fact("untainted", "")
      [] OTHER -> NameFact(env, e.of[1])

(* _taint_of_expression: a parameter is looked up before the environment   *)
(* for an attribute, after it for a name.                                  *)
TaintOf(e, env) ==
    CASE e.op = "const" -> Fact("untainted", "")
      [] e.op = "attr" /\ e.of[1] \in Params -> Fact("model_controlled", e.of[1])
      [] e.op \in {"name", "cast", "wrap"} \/ (e.op = "attr" /\ e.of[1] \notin Params) ->
           NameFact(env, e.of[1])
      [] e.op = "concat" ->
           LET l == NameFact(env, e.of[1])
               r == NameFact(env, e.of[2])
           IN  Fact(JoinTaint(l.state, r.state), IF l.origin # "" THEN l.origin ELSE r.origin)
      [] e.op = "wrapattr" -> Fact("model_controlled", "a")
      [] OTHER -> UnknownFact

(* function_local_dataflow: every assignment of the function, nested ones  *)
(* too, in the order of ast.walk; the environment at the end is what the   *)
(* arguments are read in.                                                  *)
Assigns == {i \in Lines : body[i].target # ""}

TaintEnv ==
    LET first(i) == {j \in Assigns : Depth(j) < Depth(i) \/ (Depth(j) = Depth(i) /\ j < i)}
        upto[k \in 0 .. Cardinality(Assigns)] ==
          IF k = 0 THEN [p \in Params |-> Fact("external", p)]
          ELSE LET i == CHOOSE a \in Assigns : Cardinality(first(a)) = k - 1
                   f == IF body[i].kind = "assign" THEN TaintOf(body[i].args[1], upto[k - 1])
                        ELSE UnknownFact
               IN  [n \in DOMAIN upto[k - 1] \cup {body[i].target} |->
                       IF n = body[i].target THEN f ELSE upto[k - 1][n]]
    IN  upto[Cardinality(Assigns)]

(* _arg_taint: an untainted argument that is no constant is unknown too.   *)
ArgTaint(e) ==
    LET f == TaintOf(e, TaintEnv) IN IF f.state \in {"untainted", "unknown"} THEN UnknownFact ELSE f

(* compare_authority_to_sink; any two constants are the same one.          *)
Compare(a, b) ==
    CASE a.op = "const" /\ b.op = "const" -> "bound"
      [] (a.op = "const") # (b.op = "const") -> "unbound"
      [] a.op # "const" /\ b.op # "const" ->
           LET l == ArgTaint(a)
               r == ArgTaint(b)
           IN  IF l.origin = "" \/ r.origin = "" THEN "unknown"
               ELSE IF l.origin = r.origin THEN "bound" ELSE "unbound"
      [] OTHER -> "unknown"

Pairs(g, s) ==
    {k \in 1 .. Len(body[g].args) : k <= Len(body[s].args)}

(* compare_all_authority_to_sink_params and overall_binding_state: the     *)
(* worst of the pairs, unbound where the calls name different actions;     *)
(* nothing is proven of no pair.                                           *)
BindingState(g, s) ==
    LET states == {IF OtherAction(body[g].name, body[s].name) THEN "unbound"
                   ELSE Compare(body[g].args[k], body[s].args[k]) : k \in Pairs(g, s)}
    IN  CASE "unbound" \in states -> "unbound"
          [] "unbound" \notin states /\ (states = {} \/ "unknown" \in states) -> "unknown"
          [] OTHER -> "bound"
=============================================================================
