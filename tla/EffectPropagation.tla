-------------------------- MODULE EffectPropagation --------------------------
(***************************************************************************)
(* propagate_effects of actenon_scan/repository/effect_summary.py: the     *)
(* fixed point that tells, for every function, the kinds of consequential  *)
(* effect it can produce, directly or through what it calls, and whether   *)
(* it calls something that could not be resolved.                          *)
(*                                                                         *)
(* One step is the visit of one function, or the end of one of the three   *)
(* nested loops: a pass over a component, the passes of a component, an    *)
(* iteration over all components.  A summary's `effects` is abstracted to  *)
(* the set of concrete sinks in its provenance: its keys are their types.  *)
(***************************************************************************)
EXTENDS Integers, Sequences

CONSTANTS
    Functions,      \* nodes of the call graph
    Sinks,          \* concrete sink locations
    EffectOf,       \* the effect type of each sink
    Inputs,         \* what the function is given: see Input
    MaxIterations   \* the max_iterations argument

(* resolved and heuristic edges are both followed *)
Edge == [callee : Functions, followed : BOOLEAN]

(* order: the strongly connected components, callees before callers. *)
Input == [out : [Functions -> SUBSET Edge],
          seeds : [Functions -> SUBSET Sinks],
          order : Seq(Seq(Functions))]

Covers(order, f) ==
    \E s \in 1 .. Len(order) : \E k \in 1 .. Len(order[s]) : order[s][k] = f

(* A call that is followed leads into the same component or an earlier one. *)
CalleesFirst(x) ==
    \A s \in 1 .. Len(x.order) : \A k \in 1 .. Len(x.order[s]) :
        \A e \in x.out[x.order[s][k]] :
            e.followed =>
                \E r \in 1 .. s : \E j \in 1 .. Len(x.order[r]) : x.order[r][j] = e.callee

ASSUME InputAssumption ==
    /\ Inputs \subseteq Input
    /\ \A x \in Inputs : CalleesFirst(x) /\ \A f \in Functions : Covers(x.order, f)
    /\ MaxIterations \in Nat \ {0}

VARIABLES
    input,         \* graph, direct sinks and component order: constant
    prov,          \* concrete sinks in the summary of each function
    unresolved,    \* has_unresolved_callee of each summary
    scc, pass, pos,  \* loop counters: component, pass over it, member
    localChanged,  \* this pass changed a summary
    changed,       \* this iteration changed a summary
    iterations,    \* iterations completed
    done           \* the function has returned

counters == <<scc, pass, pos, localChanged, changed, iterations, done>>
vars == <<input, prov, unresolved, counters>>

Types(sinks) == {EffectOf[s] : s \in sinks}

Followed(f) == {e.callee : e \in {d \in input.out[f] : d.followed}}

(* Some call in f has no known target. *)
CallsUnknown(f) == \E e \in input.out[f] : ~e.followed

-----------------------------------------------------------------------------
(* Each summary is seeded with the sinks in the function's own body. *)
Init ==
    /\ input \in Inputs
    /\ prov = input.seeds
    /\ unresolved = [f \in Functions |-> FALSE]
    /\ scc = 1 /\ pass = 1 /\ pos = 1
    /\ localChanged = FALSE
    /\ changed = FALSE
    /\ iterations = 0
    /\ done = FALSE

(* Mutant of Inherited: calls that were not resolved are followed too. *)
InheritedFromAll(f) == UNION {prov[e.callee] : e \in input.out[f]}

(* add_from every callee that is followed. *)
Inherited(f) == UNION {prov[g] : g \in Followed(f)}

NewProvenance(f) == prov[f] \cup Inherited(f)

(* Mutant of NewUnresolved: the flag is not inherited from a callee. *)
NewUnresolvedLocal(f) == unresolved[f] \/ CallsUnknown(f)

NewUnresolved(f) ==
    \/ unresolved[f]
    \/ CallsUnknown(f)
    \/ \E g \in Followed(f) : unresolved[g]

(* What counts as a change: the effect types and the flag, not the sinks. *)
Changes(f) ==
    \/ Types(NewProvenance(f)) # Types(prov[f])
    \/ NewUnresolved(f) # unresolved[f]

InPass == ~done /\ scc <= Len(input.order) /\ pos <= Len(input.order[scc])

(* The body of the innermost loop for one function. *)
Visit ==
    /\ InPass
    /\ LET f == input.order[scc][pos]
       IN  /\ prov' = [prov EXCEPT ![f] = NewProvenance(f)]
           /\ unresolved' = [unresolved EXCEPT ![f] = NewUnresolved(f)]
           /\ localChanged' = (localChanged \/ Changes(f))
    /\ pos' = pos + 1
    /\ UNCHANGED <<input, scc, pass, changed, iterations, done>>

PassEnded == ~done /\ scc <= Len(input.order) /\ pos > Len(input.order[scc])

MaxPasses(members) == Len(members) + 1

(* The pass changed something and another pass is allowed. *)
NextPass ==
    /\ PassEnded
    /\ localChanged
    /\ pass < MaxPasses(input.order[scc])
    /\ pass' = pass + 1
    /\ pos' = 1
    /\ localChanged' = FALSE
    /\ changed' = TRUE
    /\ UNCHANGED <<input, prov, unresolved, scc, iterations, done>>

(* The component is stable, or the passes are used up. *)
NextComponent ==
    /\ PassEnded
    /\ ~localChanged \/ pass >= MaxPasses(input.order[scc])
    /\ scc' = scc + 1
    /\ pass' = 1
    /\ pos' = 1
    /\ localChanged' = FALSE
    /\ changed' = (changed \/ localChanged)
    /\ UNCHANGED <<input, prov, unresolved, iterations, done>>

IterationEnded == ~done /\ scc > Len(input.order)

(* Something changed and another iteration is allowed. *)
NextIteration ==
    /\ IterationEnded
    /\ iterations' = iterations + 1
    /\ changed /\ iterations' < MaxIterations
    /\ scc' = 1
    /\ changed' = FALSE
    /\ UNCHANGED <<input, prov, unresolved, pass, pos, localChanged, done>>

Return ==
    /\ IterationEnded
    /\ iterations' = iterations + 1
    /\ ~changed \/ iterations' = MaxIterations
    /\ done' = TRUE
    /\ UNCHANGED <<input, prov, unresolved, scc, pass, pos, localChanged, changed>>

Next == Visit \/ NextPass \/ NextComponent \/ NextIteration \/ Return

Spec == Init /\ [][Next]_vars /\ WF_vars(Next)

-----------------------------------------------------------------------------
LoopsOK ==
    /\ scc \in 1 .. Len(input.order) + 1
    /\ pass \in Nat \ {0}
    /\ pos \in Nat \ {0}
    /\ IF scc <= Len(input.order)
       THEN /\ pass <= MaxPasses(input.order[scc])
            /\ pos <= Len(input.order[scc]) + 1
       ELSE pass = 1 /\ pos = 1

IterationsOK ==
    /\ iterations \in 0 .. MaxIterations
    /\ ~done => iterations < MaxIterations

FlagsOK == localChanged \in BOOLEAN /\ changed \in BOOLEAN /\ done \in BOOLEAN

CountersOK == LoopsOK /\ IterationsOK /\ FlagsOK

(* Types of the variables and ranges of the counters. *)
TypeOK ==
    /\ input \in Input
    /\ prov \in [Functions -> SUBSET Sinks]
    /\ unresolved \in [Functions -> BOOLEAN]
    /\ CountersOK

(* Reference definition: what f can call, directly or not, through edges   *)
(* that are followed, is the least set with f that those edges never leave. *)
Callable(f) ==
    {g \in Functions :
        \A S \in SUBSET Functions :
            f \in S /\ (\A h \in S : Followed(h) \subseteq S) => g \in S}

CallableSinks(f) == UNION {input.seeds[g] : g \in Callable(f)}

(* "An effect is only added when we have direct or propagated evidence":   *)
(* every sink in a summary lies in a function that can really be called,   *)
(* and a summary is incomplete only if an unknown call can be reached.     *)
OnlyCallableEffects ==
    \A f \in Functions :
        /\ prov[f] \subseteq CallableSinks(f)
        /\ unresolved[f] => \E g \in Callable(f) : CallsUnknown(g)

(* "The unknown is explicit, never silently promoted": when the function   *)
(* returns, a summary lists every effect type its function can cause, and  *)
(* is marked incomplete if a call it can reach is unknown.                 *)
NoEffectMissed ==
    done =>
        \A f \in Functions :
            /\ Types(CallableSinks(f)) \subseteq Types(prov[f])
            /\ (\E g \in Callable(f) : CallsUnknown(g)) => unresolved[f]

(* "An effect never disappears from a summary once added (monotonic)." *)
SummariesGrow ==
    [][\A f \in Functions :
          /\ prov[f] \subseteq prov'[f]
          /\ unresolved[f] => unresolved'[f]]_vars

-----------------------------------------------------------------------------
(* The summaries a caller may rely on: they contain the seeds and, along   *)
(* every edge that is followed, the summary of the callee.                 *)
ClosedSinks(F) ==
    \A f \in Functions :
        /\ input.seeds[f] \subseteq F[f]
        /\ \A g \in Followed(f) : F[g] \subseteq F[f]

(* Least: a summary holds no sink that some closed assignment leaves out.  *)
BelowEveryClosed ==
    \A F \in [Functions -> SUBSET Sinks] :
        ClosedSinks(F) => \A f \in Functions : prov[f] \subseteq F[f]

(* The summary of f accounts for every call in f. *)
Accounts(f) ==
    /\ \A g \in Followed(f) : Types(prov[g]) \subseteq Types(prov[f])
    /\ CallsUnknown(f) => unresolved[f]
    /\ \A g \in Followed(f) : unresolved[g] => unresolved[f]

(* When an iteration without change ended the loop, every summary accounts *)
(* for every call of its function.                                         *)
QuietMeansClosed ==
    done /\ ~changed => \A f \in Functions : Accounts(f)
=============================================================================
