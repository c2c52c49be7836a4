----------------------------- MODULE ControlFlow ------------------------------
(***************************************************************************)
(* actenon_scan/repository/cfg.py: the control flow graph of one function, *)
(* its reverse post-order by an iterative depth-first search, and the      *)
(* immediate dominators by the algorithm of Cooper, Harvey and Kennedy.    *)
(*                                                                         *)
(* A node is <<"s", i>>, made for statement i, or <<"x", i>>, the exit     *)
(* placeholder of loop i, which takes in the first simple statement after  *)
(* the loop.  try and nested functions are single opaque nodes.            *)
(***************************************************************************)
EXTENDS FunctionBody

VARIABLES
    graph,      \* [node: line -> node, edges: set of pairs]
    dfs,        \* the stack of the search, top last
    visited,
    rpo,        \* reverse_postorder(cfg)
    idom,       \* node -> immediate dominator
    pos,        \* place in rpo of the node looked at next, 0 between passes
    changed

cfgVars == <<graph, dfs, visited, rpo, idom, pos, changed>>

Opaque == {"try", "def"}
Compound == {"if", "while"}
Terminators == {"return", "raise", "break", "continue"}

(* The statements that get a node: no ancestor is opaque. *)
Processed == {i \in Lines : \A p \in Around(i) : body[p].kind \notin Opaque}

Exit(i) == <<"x", i>>

(* process_statements: the nodes from which control goes on after          *)
(* statement i, where `node` gives the nodes made so far.                  *)
ExitsOf(node, i) ==
    LET exits[k \in Lines] ==
          LET of(slot) == IF Block(k, slot) = {} THEN {} ELSE exits[LastIn(Block(k, slot))]
          IN  CASE body[k].kind \in Terminators -> {}
                [] body[k].kind = "if" ->
                     of("body") \cup (IF Block(k, "orelse") = {} THEN {node[k]} ELSE of("orelse"))
                [] body[k].kind = "while" -> IF Block(k, "orelse") = {} THEN {Exit(k)} ELSE of("orelse")
                [] OTHER -> {node[k]}
    IN  exits[i]

(* The predecessors control comes from when statement i is processed.      *)
Before(node, i) ==
    LET p == body[i].parent
        earlier == {k \in Block(p, body[i].slot) : k < i}
    IN  CASE earlier # {} -> ExitsOf(node, LastIn(earlier))
          [] earlier = {} /\ p = 0 -> {}
          [] earlier = {} /\ p # 0 /\ body[p].kind = "while" /\ body[i].slot = "orelse" -> {Exit(p)}
          [] OTHER -> {node[p]}

(* _append_simple: a single empty placeholder is filled, not followed.     *)
NodeFor(node, i) ==
    LET before == Before(node, i)
        empty == {p \in before : p[1] = "x" /\ \A k \in DOMAIN node : node[k] # p}
    IN  IF body[i].kind \notin Compound \cup Terminators /\ before = empty
           /\ Cardinality(before) = 1
        THEN CHOOSE p \in before : TRUE
        ELSE <<"s", i>>

(* Statements are processed in source order. *)
NodeMap ==
    LET made[n \in 0 .. Len(body)] ==
          IF n = 0 THEN [i \in {} |-> <<>>]
          ELSE IF n \notin Processed THEN made[n - 1]
          ELSE [i \in DOMAIN made[n - 1] \cup {n} |->
                  IF i = n THEN NodeFor(made[n - 1], n) ELSE made[n - 1][i]]
    IN  made[Len(body)]

(* Mutant of LoopEdges: control never leaves a loop but by a break. *)
LoopEdgesClosed(node, l) ==
    LET inside == Block(l, "body")
    IN  {<<e, node[l]>> : e \in ExitsOf(node, LastIn(inside))}
          \cup {<<node[b], Exit(l)>> : b \in {k \in inside : body[k].kind = "break"}}
          \cup {<<node[c], node[l]>> : c \in {k \in inside : body[k].kind = "continue"}}

(* _process_loop and _process_loop_body: the header may be left at once;   *)
(* only a break or continue at the top level of the body is linked.        *)
LoopEdges(node, l) ==
    LET inside == Block(l, "body")
    IN  {<<node[l], Exit(l)>>}
          \cup {<<e, node[l]>> : e \in ExitsOf(node, LastIn(inside))}
          \cup {<<node[b], Exit(l)>> : b \in {k \in inside : body[k].kind = "break"}}
          \cup {<<node[c], node[l]>> : c \in {k \in inside : body[k].kind = "continue"}}

Loops == {l \in Processed : body[l].kind = "while"}

(* build_cfg *)
Graph ==
    LET node == NodeMap
    IN  [node |-> node,
         edges |-> UNION {{<<p, node[i]>> : p \in Before(node, i) \ {node[i]}} : i \in Processed}
                     \cup UNION {LoopEdges(node, l) : l \in Loops}]

Entry == graph.node[1]
Nodes == {graph.node[i] : i \in DOMAIN graph.node} \cup {Exit(l) : l \in Loops}
Succ(n) == {e[2] : e \in {d \in graph.edges : d[1] = n}}
Pred(n) == {e[1] : e \in {d \in graph.edges : d[2] = n}}

-----------------------------------------------------------------------------
CfgInit ==
    /\ graph = [node |-> [i \in {} |-> <<>>], edges |-> {}]
    /\ dfs = <<>> /\ visited = {} /\ rpo = <<>>
    /\ idom = [n \in {} |-> <<>>]
    /\ pos = 0 /\ changed = TRUE

Built == graph.edges # {} \/ DOMAIN graph.node # {}

BuildCfg ==
    /\ ~Built
    /\ graph' = Graph
    /\ dfs' = <<Graph.node[1]>> /\ visited' = {Graph.node[1]}
    /\ UNCHANGED <<rpo, idom, pos, changed>>

(* The next successor of the node on top, or the end of that node.         *)
Search ==
    /\ dfs # <<>>
    /\ LET new == Succ(dfs[Len(dfs)]) \ visited
       IN  \/ \E n \in new : /\ dfs' = Append(dfs, n)
                             /\ visited' = visited \cup {n}
                             /\ UNCHANGED rpo
           \/ /\ new = {}
              /\ rpo' = <<dfs[Len(dfs)]>> \o rpo
              /\ dfs' = SubSeq(dfs, 1, Len(dfs) - 1)
              /\ UNCHANGED visited
    /\ UNCHANGED <<graph, idom, pos, changed>>

Assign(f, k, v) == [x \in DOMAIN f \cup {k} |-> IF x = k THEN v ELSE f[x]]

Place(n) == CHOOSE i \in 1 .. Len(rpo) : rpo[i] = n

(* The two fingers climb until they meet. *)
Intersect(a, b) ==
    LET meet[p \in 1 .. Len(rpo), q \in 1 .. Len(rpo)] ==
          CASE p = q -> rpo[p]
            [] p > q -> meet[Place(idom[rpo[p]]), q]
            [] p < q -> meet[p, Place(idom[rpo[q]])]
    IN  meet[Place(a), Place(b)]

(* Mutant of NewIdom: the other predecessors are not looked at. *)
NewIdomOfFirst(known) == CHOOSE p \in known : TRUE

(* All predecessors that have an immediate dominator already, folded.      *)
NewIdom(known) ==
    LET fold[S \in SUBSET known] ==
          LET p == CHOOSE p \in S : TRUE
          IN  IF S = {p} THEN p ELSE Intersect(p, fold[S \ {p}])
    IN  fold[known]

StartPass ==
    /\ Built /\ dfs = <<>> /\ changed /\ pos = 0
    /\ idom' = IF DOMAIN idom = {} THEN Assign(idom, Entry, Entry) ELSE idom
    /\ pos' = 1 /\ changed' = FALSE
    /\ UNCHANGED <<graph, dfs, visited, rpo>>

Visit ==
    /\ pos \in 1 .. Len(rpo)
    /\ LET n == rpo[pos]
           known == Pred(n) \cap DOMAIN idom
       IN  IF n = Entry \/ known = {} \/ (n \in DOMAIN idom /\ idom[n] = NewIdom(known))
           THEN UNCHANGED <<idom, changed>>
           ELSE /\ idom' = Assign(idom, n, NewIdom(known))
                /\ changed' = TRUE
    /\ pos' = (pos + 1) % (Len(rpo) + 1)
    /\ UNCHANGED <<graph, dfs, visited, rpo>>

Dominators == BuildCfg \/ Search \/ StartPass \/ Visit

Known == Built /\ dfs = <<>> /\ ~changed /\ pos = 0

(* dominates: the chain of immediate dominators.  A node that no path      *)
(* reaches is dominated by itself alone.                                   *)
DominatesNode(d, n) ==
    LET up[k \in 0 .. Len(rpo)] == IF k = 0 THEN n ELSE idom[up[k - 1]]
    IN  \/ d = n
        \/ d \in DOMAIN idom /\ n \in DOMAIN idom /\ \E k \in 1 .. Len(rpo) : up[k] = d

(* find_node_containing_line: the node of the statement, or of the opaque  *)
(* one around it.                                                          *)
NodeAt(i) == graph.node[LastIn(({i} \cup Around(i)) \cap DOMAIN graph.node)]

CfgDominates(g, s) == DominatesNode(NodeAt(g), NodeAt(s))
=============================================================================
