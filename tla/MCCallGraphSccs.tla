--------------------------- MODULE MCCallGraphSccs ---------------------------
(***************************************************************************)
(* CallGraphSccs on every call graph of four functions in which a function *)
(* calls at most two others, in either order, the last one at most one.    *)
(***************************************************************************)
EXTENDS CallGraphSccs

MCNodes == 1 .. 4
MCSorted == <<1, 2, 3, 4>>

Lists(n, k) ==
    {<<>>} \cup {<<a>> : a \in MCNodes}
      \cup IF k < 2 THEN {} ELSE {<<a, b>> : a, b \in MCNodes \ {n}} \ {<<a, a>> : a \in MCNodes}

MCGraphs == {<<a, b, c, d>> : a \in Lists(1, 2), b \in Lists(2, 2), c \in Lists(3, 2), d \in Lists(4, 1)}
=============================================================================
