--------------------------- MODULE FunctionAnalysis ---------------------------
(***************************************************************************)
(* What actenon-scan concludes about one function, against what that       *)
(* function does.  First the control flow graph and its dominators are     *)
(* computed, step by step; then the function runs, taking any branch and   *)
(* raising wherever it may, and every conclusion has to hold of the run.   *)
(***************************************************************************)
EXTENDS ControlFlow, GuardDetector, AuthorityBinding

vars == <<body, runVars, cfgVars>>

Init == FunctionInit /\ CfgInit

Analyse == Dominators /\ UNCHANGED <<body, runVars>>

Execute == Known /\ Run /\ UNCHANGED <<body, cfgVars>>

Next == Analyse \/ Execute

Spec == Init /\ [][Next]_vars /\ WF_vars(Analyse)

-----------------------------------------------------------------------------
(* The nodes a path leads to from the entry without going through `wall`.  *)
ReachedAvoiding(wall) ==
    LET from == {Entry} \ wall
        near[k \in 0 .. Cardinality(Nodes)] ==
          IF k = 0 THEN from
          ELSE near[k - 1] \cup ((UNION {Succ(n) : n \in near[k - 1]}) \ wall)
    IN  near[Cardinality(Nodes)]

(* The chains of immediate dominators say exactly what dominance is: every *)
(* path from the entry goes through d (cfg.py: dominators, dominates), and *)
(* the nodes without a path are left out.                                  *)
IdomIsDominance ==
    Known =>
      /\ DOMAIN idom = ReachedAvoiding({})
      /\ \A d \in DOMAIN idom :
           LET around == ReachedAvoiding({d})
           IN  \A n \in DOMAIN idom : DominatesNode(d, n) <=> n \notin around

(* Guards the graph does not see as they are: inside a try or a nested     *)
(* function, and in the else of a loop, which a break jumps over (both are *)
(* named as limitations in cfg.py).                                        *)
BlindInGraph(g) ==
    \E p \in Around(g) : \/ body[p].kind \in Opaque
                         \/ body[p].kind = "while" /\ PartOf(p, g) = "orelse"

(* When the sink runs, a guard whose node dominates the sink's has been    *)
(* passed: also when nested breaks and continues, which the graph takes    *)
(* for dead ends, have moved control (cfg.py: build_cfg, dominates).        *)
GraphDominanceHolds ==
    at \in Sinks =>
      \A g \in Guards : g < at /\ ~BlindInGraph(g) /\ CfgDominates(g, at) => g \in DOMAIN passed

(* Contexts the walk up from a guard does not look at: a loop the sink is  *)
(* outside of; a try whose handler takes some exceptions only, or raises   *)
(* somewhere, or has the sink in it; the else of a try.                    *)
BlindInWalk(g, s) ==
    \E p \in Around(g) :
       /\ PartOf(p, g) # PartOf(p, s)
       /\ \/ body[p].kind = "while"
          \/ /\ body[p].kind = "try"
             /\ PartOf(p, g) = "orelse" \/ ~body[p].broad
                  \/ \E i \in Lines : PartOf(p, i) = "handler" /\ body[i].kind = "raise"

(* Elsewhere, a guard that the walk up the syntax tree accepts has been    *)
(* passed whenever the sink runs, and a sink runs as guarded only behind   *)
(* one that raises or shares a name with it (guards.py: _dominates,        *)
(* check_guard).                                                           *)
WalkDominanceHolds ==
    at \in Sinks =>
      /\ \A g \in Guards : g < at /\ WalkDominates(g, at) /\ ~BlindInWalk(g, at) => g \in DOMAIN passed
      /\ CheckGuard(at) = "guarded" =>
           LET g == Deciding(at)
           IN  \/ BlindInWalk(g, at)
               \/ g \in DOMAIN passed /\ (AssertStyle(g) \/ Bound(g, at))

AssignedOnce ==
    \A n \in Names : Cardinality(Bindings(n)) <= IF n \in Params THEN 0 ELSE 1

(* Assignments are statements of the function's own block, and no name     *)
(* that guard g is given is assigned again between it and sink s.          *)
ReadInOrder(g, s) ==
    \A i \in Assigns :
        /\ Around(i) = {} /\ i < s
        /\ i < g \/ \A k \in 1 .. Len(body[g].args) : \A m \in DOMAIN body[g].args[k].of :
              body[g].args[k].of[m] # body[i].target

HelpersReturnArguments ==
    \A i \in Lines : \A k \in 1 .. Len(body[i].args) : body[i].args[k].op # "wrapattr"

Shares(a, b) == a = {} \/ b = {} \/ a \cap b # {}

(* "BOUND - proven that authority parameters and sink parameters trace     *)
(* back to the same value" (authority_binding.py): arguments called bound  *)
(* are computed from the same parameter in every run, and so are, for      *)
(* check_guard, those that make the guard bound.  The environment they are *)
(* read in is that of the end of the function: where neither ReadInOrder   *)
(* nor AssignedOnce holds, this is not so (x = p; authorize(x); x = q;     *)
(* sink(x)), nor where a helper returns something else than its argument.  *)
BoundSharesOrigin ==
    HelpersReturnArguments => \A a \in acted : \A g \in DOMAIN a.passed :
      /\ (AssignedOnce \/ ReadInOrder(g, a.sink)) /\ BindingState(g, a.sink) = "bound" =>
           \A k \in Pairs(g, a.sink) : Shares(a.passed[g][k], a.args[k])
      /\ AssignedOnce /\ Bound(g, a.sink) /\ ArgNames(g) # {} /\ ArgNames(a.sink) # {} =>
           \E k \in 1 .. Len(a.passed[g]), m \in 1 .. Len(a.args) : Shares(a.passed[g][k], a.args[m])

=============================================================================
