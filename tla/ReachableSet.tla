----------------------------- MODULE ReachableSet -----------------------------
(***************************************************************************)
(* The promise of transitive_reachable, stripped of how it searches: the   *)
(* keys of its result grow from nothing, and a key is added only if it is  *)
(* an entrypoint or the callee of a key that is already there.             *)
(***************************************************************************)
CONSTANT Nodes

VARIABLES
    edges,    \* pairs <<caller, callee>>
    starts,   \* the entrypoints
    found     \* the nodes claimed reachable

vars == <<edges, starts, found>>

Init ==
    /\ edges \subseteq Nodes \X Nodes
    /\ starts \subseteq Nodes
    /\ found = {}

Justified(n) == n \in starts \/ \E m \in found : <<m, n>> \in edges

Find(n) ==
    /\ n \in Nodes \ found
    /\ Justified(n)
    /\ found' = found \cup {n}
    /\ UNCHANGED <<edges, starts>>

Next == \E n \in Nodes : Find(n)

Spec == Init /\ [][Next]_vars
=============================================================================
