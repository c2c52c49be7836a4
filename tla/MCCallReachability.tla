-------------------------- MODULE MCCallReachability --------------------------
(***************************************************************************)
(* CallReachability on every graph of a family over four functions: two    *)
(* callees in either order, self calls, cycles, two chains of different    *)
(* length and certainty to one node, and a chain one call longer than the  *)
(* bound.  Mutants of the search follow at the end.                        *)
(***************************************************************************)
EXTENDS CallReachability, FiniteSets

MCNodes == 1 .. 4

(* Lists of at most k edges out of n, to different callees. *)
Lists(n, k, callees, certainties) ==
    LET E == {[caller |-> n, callee |-> m, certainty |-> c] :
                 m \in callees, c \in certainties}
    IN  {<<>>} \cup {<<e>> : e \in E}
        \cup IF k < 2 THEN {}
             ELSE {<<e, f>> : e, f \in E} \ {<<e, f>> \in E \X E : e.callee = f.callee}

Certain == {"resolved"}
Mixed == {"resolved", "heuristic"}

MCGraphs ==
    {<<a, b, c, d>> :
        a \in Lists(1, 2, {2, 3, 4}, Certain) \cup Lists(1, 2, {2, 4}, Mixed),
        b \in Lists(2, 2, {1, 3, 4}, Certain) \cup Lists(2, 1, {2, 3}, {"heuristic"}),
        c \in Lists(3, 1, {1, 3, 4}, Certainty),
        d \in Lists(4, 1, {1}, Certain)}

MCEntrypointLists == {<<1>>, <<2, 1, 2>>}
=============================================================================
