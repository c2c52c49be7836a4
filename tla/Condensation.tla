----------------------------- MODULE Condensation -----------------------------
(***************************************************************************)
(* What CallGraph.sccs promises the passes that consume it: the strongly   *)
(* connected components of the call graph, each exactly once, and none     *)
(* before a component it calls into.                                       *)
(***************************************************************************)
EXTENDS Integers, Sequences

CONSTANT Nodes

VARIABLES
    succ,     \* the callees of every node, a sequence
    result    \* the components given out so far, sequences of nodes

Callees(f) == {succ[f][i] : i \in 1 .. Len(succ[f])}

Closed(S) == \A f \in S : Callees(f) \subseteq S

(* What f reaches is in every set with f that calls do not lead out of.    *)
Reachable(f) == {g \in Nodes : \A S \in SUBSET Nodes : f \in S /\ Closed(S) => g \in S}

Component(f) == {g \in Reachable(f) : f \in Reachable(g)}

Members(component) == {component[k] : k \in 1 .. Len(component)}

Emitted == UNION {Members(result[i]) : i \in 1 .. Len(result)}

Init == result = <<>>

(* A component all of whose callees have been given out, in any order of   *)
(* its members.                                                            *)
Emit ==
    \E f \in Nodes \ Emitted :
        /\ Len(result') = Len(result) + 1
        /\ \A i \in 1 .. Len(result) : result'[i] = result[i]
        /\ Members(result'[Len(result')]) = Component(f)
        /\ \A g \in Component(f) : Callees(g) \subseteq Emitted \cup Component(f)
        /\ UNCHANGED succ

(* No component is given out early, twice or in pieces. *)
InOrder == Init /\ [][Emit]_<<succ, result>>

(* In the end every node has been given out. *)
Spec == InOrder /\ <>(Emitted = Nodes)
=============================================================================
