--------------------------- MODULE CallReachability ---------------------------
(***************************************************************************)
(* The breadth-first search of actenon_scan/repository/call_graph.py       *)
(* (transitive_reachable): which functions can an agent entrypoint reach,  *)
(* and along which chain of calls.  The chain is the evidence a finding of *)
(* the repository layer shows.                                             *)
(*                                                                         *)
(* One step is one iteration of a loop of that function: Seed for an       *)
(* entrypoint, PopVisited, PopAtBound and PopOpen for a queue entry, and   *)
(* FollowEdge for one out-edge of the node that was opened.                *)
(***************************************************************************)
EXTENDS Integers, Sequences

CONSTANTS
    Nodes,            \* qualified names of the graph: callers and callees
    Graphs,           \* the call graphs to search: out-edges of every node
    EntrypointLists,  \* the entrypoint lists to search from, in input order
    MaxDepth          \* the bound on the length of a chain

Certainty == {"resolved", "heuristic", "unresolved"}

Edge == [caller : Nodes, callee : Nodes, certainty : Certainty]

Path == [edges : Seq(Edge), truncated : BOOLEAN]

QueueItem == [node : Nodes, path : Path, depth : Nat]

ASSUME GraphAssumption ==
    /\ Graphs \subseteq [Nodes -> Seq(Edge)]
    /\ \A g \in Graphs : \A n \in Nodes : \A i \in 1 .. Len(g[n]) :
           g[n][i].caller = n
    /\ EntrypointLists \subseteq Seq(Nodes)
    /\ MaxDepth \in Nat

VARIABLES
    out,         \* edges_by_caller: constant during the search
    roots,       \* the entrypoints argument: constant during the search
    pending,     \* entrypoints the first loop has not looked at yet
    queue,       \* the deque of (node, path, depth)
    best,        \* node -> the path returned for it, a dict that grows
    visited,     \* nodes whose out-edges have been or are being explored
    current,     \* the queue entry popped last
    todo         \* out-edges of `current` the inner loop has still to follow

vars == <<out, roots, pending, queue, best, visited, current, todo>>

EmptyPath == [edges |-> <<>>, truncated |-> FALSE]

(* dict assignment f[k] = v, k new or not *)
Assign(f, k, v) ==
    [x \in DOMAIN f \cup {k} |-> IF x = k THEN v ELSE f[x]]

-----------------------------------------------------------------------------
Init ==
    /\ out \in Graphs
    /\ roots \in EntrypointLists
    /\ pending = roots
    /\ queue = <<>>
    /\ best = [n \in {} |-> EmptyPath]
    /\ visited = {}
    /\ current \in {[node |-> n, path |-> EmptyPath, depth |-> 0] : n \in Nodes}
    /\ current.node = CHOOSE n \in Nodes : TRUE
    /\ todo = <<>>

(* Mutant of Seed: appendleft instead of append. *)
SeedInFront ==
    /\ pending # <<>>
    /\ pending' = Tail(pending)
    /\ LET ep == Head(pending)
       IN  IF ep \in DOMAIN best
           THEN UNCHANGED <<best, queue>>
           ELSE /\ best' = Assign(best, ep, EmptyPath)
                /\ queue' = <<[node |-> ep, path |-> EmptyPath, depth |-> 0]>> \o queue
    /\ UNCHANGED <<out, roots, visited, current, todo>>

(* An entrypoint is reachable from itself by the empty path; a repeated    *)
(* one is ignored.                                                         *)
Seed ==
    /\ pending # <<>>
    /\ pending' = Tail(pending)
    /\ LET ep == Head(pending)
       IN  IF ep \in DOMAIN best
           THEN UNCHANGED <<best, queue>>
           ELSE /\ best' = Assign(best, ep, EmptyPath)
                /\ queue' = Append(queue,
                       [node |-> ep, path |-> EmptyPath, depth |-> 0])
    /\ UNCHANGED <<out, roots, visited, current, todo>>

(* The outer loop can take the next entry. *)
Popping == pending = <<>> /\ todo = <<>> /\ queue # <<>>

(* Mutant of AtBound: one call too early. *)
AtBoundEarly(item) == item.depth + 1 >= MaxDepth

AtBound(item) == item.depth >= MaxDepth

(* Mutant of PopVisited: the entry is looked at but not taken. *)
PopVisitedPeeks ==
    /\ Popping
    /\ Head(queue).node \in visited
    /\ UNCHANGED vars

(* A node may be in the queue several times; only its first entry counts.  *)
PopVisited ==
    /\ Popping
    /\ Head(queue).node \in visited
    /\ queue' = Tail(queue)
    /\ UNCHANGED <<out, roots, pending, best, visited, current, todo>>

(* At the bound the node is kept, its path is marked, and its out-edges    *)
(* are not followed.                                                       *)
PopAtBound ==
    /\ Popping
    /\ LET item == Head(queue)
       IN  /\ item.node \notin visited
           /\ AtBound(item)
           /\ visited' = visited \cup {item.node}
           /\ best' = IF item.node \in DOMAIN best
                      THEN [best EXCEPT ![item.node].truncated = TRUE]
                      ELSE best
    /\ queue' = Tail(queue)
    /\ UNCHANGED <<out, roots, pending, current, todo>>

(* Mutant of PopOpen: edges that are not resolved are dropped. *)
PopOpenDropsUncertain ==
    /\ Popping
    /\ LET item == Head(queue)
           resolved(e) == e.certainty = "resolved"
       IN  /\ item.node \notin visited
           /\ ~AtBound(item)
           /\ visited' = visited \cup {item.node}
           /\ current' = item
           /\ todo' = SelectSeq(out[item.node], resolved)
    /\ queue' = Tail(queue)
    /\ UNCHANGED <<out, roots, pending, best>>

PopOpen ==
    /\ Popping
    /\ LET item == Head(queue)
       IN  /\ item.node \notin visited
           /\ ~AtBound(item)
           /\ visited' = visited \cup {item.node}
           /\ current' = item
           /\ todo' = out[item.node]
    /\ queue' = Tail(queue)
    /\ UNCHANGED <<out, roots, pending, best>>

(* Mutant of Extend: the edge is put in front of the chain. *)
ExtendInFront(item, e) ==
    [edges |-> <<e>> \o item.path.edges, truncated |-> item.path.truncated]

(* The path to the callee of edge e when `current` is being explored. *)
Extend(item, e) ==
    [edges |-> Append(item.path.edges, e),
     truncated |-> \/ item.path.truncated
                   \/ item.depth + 1 >= MaxDepth /\ out[e.callee] # <<>>]

(* new_path replaces what best holds for node n. *)
Improves(path, n) ==
    \/ n \notin DOMAIN best
    \/ Len(path.edges) < Len(best[n].edges)

FollowEdge ==
    /\ todo # <<>>
    /\ todo' = Tail(todo)
    /\ LET e    == Head(todo)
           path == Extend(current, e)
       IN  /\ best' = IF Improves(path, e.callee)
                      THEN Assign(best, e.callee, path)
                      ELSE best
           /\ queue' = IF e.callee \notin visited
                       THEN Append(queue, [node |-> e.callee, path |-> path,
                                           depth |-> current.depth + 1])
                       ELSE queue
    /\ UNCHANGED <<out, roots, pending, visited, current>>

(* The search has returned `best`. *)
Returned == pending = <<>> /\ todo = <<>> /\ queue = <<>>

Next == Seed \/ PopVisited \/ PopAtBound \/ PopOpen \/ FollowEdge

(* The function is one sequential loop: while it can step it steps. *)
Spec == Init /\ [][Next]_vars /\ WF_vars(Next)

-----------------------------------------------------------------------------
(* Types of every variable; the stored depth is the length of the path. *)
TypeOK ==
    /\ out \in Graphs
    /\ roots \in EntrypointLists
    /\ pending \in Seq(Nodes)
    /\ queue \in Seq(QueueItem)
    /\ DOMAIN best \subseteq Nodes
    /\ best \in [DOMAIN best -> Path]
    /\ visited \subseteq Nodes
    /\ current \in QueueItem
    /\ todo \in Seq(Edge)

(* The program has a call site in m that may call n. *)
Calls(m, n) == \E i \in 1 .. Len(out[m]) : out[m][i].callee = n

Successors(S) == {n \in Nodes : \E m \in S : Calls(m, n)}

Roots == {roots[i] : i \in 1 .. Len(roots)}

(* Reference definition: the nodes a chain of at most k calls reaches. *)
WithinFrom(S, bound) ==
    LET within[k \in 0 .. bound] ==
            IF k = 0 THEN S
            ELSE LET prev == within[k - 1] IN prev \cup Successors(prev)
    IN  within

Distances(S, bound) ==
    LET w == WithinFrom(S, bound)
    IN  [n \in w[bound] |->
            CHOOSE k \in 0 .. bound :
                n \in w[k] /\ (k = 0 \/ n \notin w[k - 1])]

(* Where the chain to n begins, and where an entrypoint is first listed. *)
StartOf(edges, n) == IF edges = <<>> THEN n ELSE edges[1].caller

Position(r) ==
    CHOOSE i \in 1 .. Len(roots) : roots[i] = r /\ \A j \in 1 .. i - 1 : roots[j] # r

(* edges is a chain of real call-graph edges from an entrypoint to n. *)
IsChain(edges, n) ==
    IF edges = <<>> THEN n \in Roots
    ELSE /\ edges[1].caller \in Roots
         /\ edges[Len(edges)].callee = n
         /\ \A i \in 1 .. Len(edges) - 1 : edges[i].callee = edges[i + 1].caller
         /\ \A i \in 1 .. Len(edges) :
               \E j \in 1 .. Len(out[edges[i].caller]) :
                   out[edges[i].caller][j] = edges[i]

(* The evidence is real: every path in the result is a chain of edges of   *)
(* the call graph from an entrypoint to the node it is stored under, so a  *)
(* finding never shows a chain of calls the program does not contain.      *)
EvidenceIsReal == \A n \in DOMAIN best : IsChain(best[n].edges, n)

(* Nothing within the bound is missed: when the search returns, every node *)
(* a chain of at most MaxDepth calls reaches has an entry, in spite of     *)
(* cycles, of duplicate queue entries and of nodes marked at the bound.    *)
CompleteWithinBound ==
    Returned => DOMAIN best = WithinFrom(Roots, MaxDepth)[MaxDepth]

(* A cut is disclosed: if the search stopped before a callee of a node it  *)
(* reached, the path of that node says truncated.                          *)
CutIsDisclosed ==
    Returned =>
        \A n \in DOMAIN best :
            Successors({n}) \subseteq DOMAIN best \/ best[n].truncated

(* The path returned is a shortest one from any entrypoint, and starts at  *)
(* the first entrypoint, in input order, among those as near as that       *)
(* (docstring of transitive_reachable).                                    *)
NearestEntrypointFirst ==
    LET dist == [r \in Roots |-> Distances({r}, MaxDepth)]
    IN  Returned =>
          \A n \in DOMAIN best : \A r \in Roots :
            n \in DOMAIN dist[r] =>
              /\ Len(best[n].edges) <= dist[r][n]
              /\ Len(best[n].edges) = dist[r][n] =>
                    Position(StartOf(best[n].edges, n)) <= Position(r)

(* The search ends on every graph, cyclic or not. *)
Terminates == <>Returned

-----------------------------------------------------------------------------
(* What the search promises, without queue, order or bound: a set that     *)
(* grows from the entrypoints along the edges of the graph.                *)
CallPairs == {p \in Nodes \X Nodes : Calls(p[1], p[2])}

Abstract == INSTANCE ReachableSet
    WITH edges <- CallPairs, starts <- Roots, found <- DOMAIN best

ImplementsReachableSet == Abstract!Spec

=============================================================================
