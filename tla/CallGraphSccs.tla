---------------------------- MODULE CallGraphSccs ----------------------------
(***************************************************************************)
(* CallGraph.sccs of actenon_scan/repository/call_graph.py: Tarjan's       *)
(* algorithm, made iterative so that a deep call chain cannot exhaust the  *)
(* interpreter's stack.  The explicit work stack holds, for each function  *)
(* being explored, the iterator over its callees where it was left.        *)
(*                                                                         *)
(* One step is one start of the outer loop, one callee taken from the      *)
(* iterator on top, or the end of the function on top.                     *)
(***************************************************************************)
EXTENDS Integers, Sequences

CONSTANTS
    Nodes,     \* qualified names
    Sorted,    \* sorted(all_nodes)
    Graphs     \* successor maps to try

ASSUME SccAssumption ==
    /\ Sorted \in Seq(Nodes)
    /\ \A n \in Nodes : \E i \in 1 .. Len(Sorted) : Sorted[i] = n
    /\ Graphs \subseteq [Nodes -> Seq(Nodes)]

VARIABLES
    succ,       \* callers -> callees without duplicates: constant
    starts,     \* nodes the outer loop has still to look at
    counter,    \* index_counter[0]
    indices,    \* discovery index of each discovered node
    lowlinks,
    stack,      \* Tarjan's stack, top last
    onStack,    \* the set kept beside it
    work,       \* records [node, rest]: rest is what its iterator still yields
    result

vars == <<succ, starts, counter, indices, lowlinks, stack, onStack, work, result>>

Assign(f, k, v) == [x \in DOMAIN f \cup {k} |-> IF x = k THEN v ELSE f[x]]

MinOf(a, b) == IF a <= b THEN a ELSE b

Top == work[Len(work)]

(* lowlinks[n] = min(lowlinks[n], v) *)
Lowered(n, v) == Assign(lowlinks, n, MinOf(lowlinks[n], v))

(* The work stack after the iterator on top has yielded one callee. *)
Advanced ==
    [i \in 1 .. Len(work) |->
        IF i < Len(work) THEN work[i]
        ELSE [node |-> work[i].node, rest |-> Tail(work[i].rest)]]

Init ==
    /\ succ \in Graphs
    /\ starts = Sorted
    /\ counter = 0
    /\ indices = [n \in {} |-> 0]
    /\ lowlinks = [n \in {} |-> 0]
    /\ stack = <<>>
    /\ onStack = {}
    /\ work = <<>>
    /\ result = <<>>

(* Give n the next index and open an iterator over its callees. *)
Discover(n, rest) ==
    /\ indices' = Assign(indices, n, counter)
    /\ lowlinks' = Assign(lowlinks, n, counter)
    /\ counter' = counter + 1
    /\ stack' = Append(stack, n)
    /\ onStack' = onStack \cup {n}
    /\ work' = Append(rest, [node |-> n, rest |-> succ[n]])

SkipStart ==
    /\ work = <<>> /\ starts # <<>>
    /\ Head(starts) \in DOMAIN indices
    /\ starts' = Tail(starts)
    /\ UNCHANGED <<succ, counter, indices, lowlinks, stack, onStack, work, result>>

Start ==
    /\ work = <<>> /\ starts # <<>>
    /\ Head(starts) \notin DOMAIN indices
    /\ starts' = Tail(starts)
    /\ Discover(Head(starts), <<>>)
    /\ UNCHANGED <<succ, result>>

Descend ==
    /\ work # <<>> /\ Top.rest # <<>>
    /\ Head(Top.rest) \notin DOMAIN indices
    /\ Discover(Head(Top.rest), Advanced)
    /\ UNCHANGED <<succ, starts, result>>

(* Mutant of BackEdge: the callee need not be on the stack. *)
BackEdgeToAny ==
    /\ work # <<>> /\ Top.rest # <<>>
    /\ LET s == Head(Top.rest)
       IN  /\ s \in DOMAIN indices
           /\ lowlinks' = Lowered(Top.node, indices[s])
    /\ work' = Advanced
    /\ UNCHANGED <<succ, starts, counter, indices, stack, onStack, result>>

(* A callee on the stack belongs to a cycle through the current node. *)
BackEdge ==
    /\ work # <<>> /\ Top.rest # <<>>
    /\ LET s == Head(Top.rest)
       IN  /\ s \in DOMAIN indices /\ s \in onStack
           /\ lowlinks' = Lowered(Top.node, indices[s])
    /\ work' = Advanced
    /\ UNCHANGED <<succ, starts, counter, indices, stack, onStack, result>>

(* A callee whose component has been given out already. *)
CrossEdge ==
    /\ work # <<>> /\ Top.rest # <<>>
    /\ LET s == Head(Top.rest) IN s \in DOMAIN indices /\ s \notin onStack
    /\ work' = Advanced
    /\ UNCHANGED <<succ, starts, counter, indices, lowlinks, stack, onStack, result>>

(* work.pop(), and the caller's low link takes over the callee's. *)
Return ==
    LET rest == SubSeq(work, 1, Len(work) - 1)
        n == Top.node
    IN  /\ work' = rest
        /\ lowlinks' = IF rest = <<>> THEN lowlinks
                       ELSE Lowered(rest[Len(rest)].node, lowlinks[n])

(* A node that is not the root of its component: it stays on the stack. *)
CloseNode ==
    /\ work # <<>> /\ Top.rest = <<>>
    /\ lowlinks[Top.node] # indices[Top.node]
    /\ Return
    /\ UNCHANGED <<succ, starts, counter, indices, stack, onStack, result>>

(* Pop the stack down to and including n. *)
Popped(n) ==
    LET at == CHOOSE i \in 1 .. Len(stack) : stack[i] = n
    IN  [kept |-> SubSeq(stack, 1, at - 1),
         scc |-> [i \in 1 .. Len(stack) - at + 1 |-> stack[Len(stack) + 1 - i]]]

(* The root of a component: give it out. *)
CloseRoot ==
    /\ work # <<>> /\ Top.rest = <<>>
    /\ lowlinks[Top.node] = indices[Top.node]
    /\ LET p == Popped(Top.node)
       IN  /\ stack' = p.kept
           /\ onStack' = onStack \ {p.scc[i] : i \in 1 .. Len(p.scc)}
           /\ result' = Append(result, p.scc)
    /\ Return
    /\ UNCHANGED <<succ, starts, counter, indices>>

Next ==
    \/ SkipStart \/ Start
    \/ Descend \/ BackEdge \/ CrossEdge
    \/ CloseNode \/ CloseRoot

Spec == Init /\ [][Next]_vars /\ WF_vars(Next)

Returned == work = <<>> /\ starts = <<>>

-----------------------------------------------------------------------------
(* The variables are of their types. *)
TypeOK ==
    /\ succ \in [Nodes -> Seq(Nodes)]
    /\ starts \in Seq(Nodes)
    /\ counter \in Nat
    /\ DOMAIN indices \subseteq Nodes /\ indices \in [DOMAIN indices -> Nat]
    /\ lowlinks \in [DOMAIN indices -> Nat]
    /\ stack \in Seq(Nodes)
    /\ onStack \subseteq Nodes
    /\ work \in Seq([node : Nodes, rest : Seq(Nodes)])
    /\ result \in Seq(Seq(Nodes))

(* Every function is given out once, in the component of those it shares a *)
(* cycle with, callees first, and in the end all are: effects are          *)
(* propagated in this order.                                               *)
Abstract == INSTANCE Condensation
ImplementsCondensation == Abstract!Spec
=============================================================================
