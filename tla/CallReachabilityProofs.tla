------------------------ MODULE CallReachabilityProofs ------------------------
(***************************************************************************)
(* What CallReachability guarantees on every call graph, from every list   *)
(* of entrypoints and for every bound: its variables keep their types, the *)
(* chain stored for a node is a real chain of call-graph edges from an     *)
(* entrypoint to that node, and the keys of the result grow as             *)
(* ReachableSet says.  When the search returns, it has missed no node      *)
(* within the bound, every cut is disclosed, and every chain is a shortest *)
(* one from the first of the nearest entrypoints.                          *)
(***************************************************************************)
EXTENDS CallReachability, TLAPS, WellFoundedInduction

-----------------------------------------------------------------------------
(* Numbers and sequences.                                                  *)

(* A set of natural numbers that is not empty has a least element.         *)
LEMMA LeastNat ==
    ASSUME NEW S \in SUBSET Nat, S # {}
    PROVE  \E m \in S : \A k \in S : m <= k
<1>. DEFINE R == {ss \in Nat \X Nat : ss[1] < ss[2]}
<1>1. IsWellFoundedOn(R, Nat)
  <2>1. R = OpToRel(<, Nat)
    BY DEF OpToRel
  <2>. QED  BY <2>1, NatLessThanWellFounded, Zenon
<1>2. PICK m \in S : \A k \in S : <<k, m>> \notin R
  <2>. HIDE DEF R
  <2>. QED  BY <1>1, WFMin, Zenon
<1>3. ASSUME NEW k \in S PROVE m <= k
  <2>1. <<k, m>> \notin R /\ k \in Nat /\ m \in Nat
    BY <1>2
  <2>. QED  BY <2>1
<1>. QED  BY <1>3

(* A set with 0, and with the successor of each of its numbers, has all.   *)
LEMMA NatSetInduction ==
    ASSUME NEW S, 0 \in S, \A n \in Nat : n \in S => n + 1 \in S
    PROVE  Nat \subseteq S
<1>. SUFFICES ASSUME Nat \ S # {} PROVE FALSE
  OBVIOUS
<1>. DEFINE missing == Nat \ S
<1>1. PICK m \in missing : \A k \in missing : m <= k
  BY LeastNat, missing \in SUBSET Nat, missing # {}, Zenon
<1>2. m # 0 /\ m - 1 \in Nat
  BY <1>1
<1>3. m - 1 \in S
  BY <1>1, <1>2
<1>. QED  BY <1>1, <1>2, <1>3

(* The same up to a bound.                                                 *)
LEMMA IntervalInduction ==
    ASSUME NEW n \in Nat, NEW S, 0 \in S, \A k \in 0 .. n - 1 : k \in S => k + 1 \in S
    PROVE  0 .. n \subseteq S
<1>. DEFINE T == {k \in Nat : k \in S \/ k > n}
<1>1. 0 \in T /\ \A k \in Nat : k \in T => k + 1 \in T
  OBVIOUS
<1>2. Nat \subseteq T
  BY <1>1, NatSetInduction, Zenon
<1>. QED  BY <1>2

(* What is left of a sequence when its head is taken.                       *)
LEMMA TailInSeq ==
    ASSUME NEW S, NEW s \in Seq(S), s # <<>>
    PROVE  /\ Head(s) \in S
           /\ Tail(s) \in Seq(S)
           /\ Len(Tail(s)) = Len(s) - 1
           /\ Len(s) > 0
           /\ Head(s) = s[1]
           /\ \A i \in 1 .. Len(Tail(s)) : Tail(s)[i] = s[i + 1]
OBVIOUS

(* A sequence with one more element.                                       *)
LEMMA AppendInSeq ==
    ASSUME NEW S, NEW s \in Seq(S), NEW x \in S
    PROVE  /\ Append(s, x) \in Seq(S)
           /\ Len(Append(s, x)) = Len(s) + 1
           /\ \A i \in 1 .. Len(s) : Append(s, x)[i] = s[i]
           /\ Append(s, x)[Len(s) + 1] = x
OBVIOUS

-----------------------------------------------------------------------------
(* e is an edge of the graph and leaves node n. *)
IsEdgeFrom(e, n) ==
    /\ e.caller = n
    /\ \E j \in 1 .. Len(out[n]) : out[n][j] = e

-----------------------------------------------------------------------------
(* Type correctness.                                                       *)

LEMMA ExtendType ==
    ASSUME NEW item \in QueueItem, NEW e \in Edge
    PROVE  Extend(item, e) \in Path
<1>1. Append(item.path.edges, e) \in Seq(Edge)
  BY DEF QueueItem, Path
<1>. QED  BY <1>1 DEF Extend, Path, QueueItem

(* The variables keep their types on every step. *)
THEOREM TypeCorrect == Spec => []TypeOK
<1>1. Init => TypeOK
  <2>. SUFFICES ASSUME Init PROVE TypeOK
    OBVIOUS
  <2>1. EmptyPath \in Path
    BY DEF EmptyPath, Path
  <2>2. current \in QueueItem
    BY <2>1 DEF Init, QueueItem
  <2>. QED  BY <2>1, <2>2, GraphAssumption DEF Init, TypeOK
<1>2. TypeOK /\ [Next]_vars => TypeOK'
  <2>. SUFFICES ASSUME TypeOK, [Next]_vars PROVE TypeOK'
    OBVIOUS
  <2>. USE DEF TypeOK
  <2>1. CASE Seed
    <3>1. EmptyPath \in Path /\ Head(pending) \in Nodes /\ pending' \in Seq(Nodes)
      BY <2>1, TailInSeq DEF Seed, EmptyPath, Path
    <3>. DEFINE item == [node |-> Head(pending), path |-> EmptyPath, depth |-> 0]
    <3>2. item \in QueueItem
      BY <3>1 DEF QueueItem
    <3>3. queue' = queue \/ queue' = Append(queue, item)
      BY <2>1 DEF Seed
    <3>4. best' = best \/ best' = Assign(best, Head(pending), EmptyPath)
      BY <2>1 DEF Seed
    <3>. HIDE DEF item
    <3>5. queue' \in Seq(QueueItem)
      BY <3>2, <3>3, AppendInSeq
    <3>6. DOMAIN best' \subseteq Nodes /\ best' \in [DOMAIN best' -> Path]
      BY <3>1, <3>4 DEF Assign
    <3>. QED  BY <2>1, <3>1, <3>5, <3>6 DEF Seed
  <2>2. CASE PopVisited
    BY <2>2, TailInSeq DEF PopVisited, Popping
  <2>3. CASE PopAtBound
    <3>1. Head(queue) \in QueueItem /\ queue' \in Seq(QueueItem)
      BY <2>3, TailInSeq DEF PopAtBound, Popping
    <3>2. DOMAIN best' \subseteq Nodes /\ best' \in [DOMAIN best' -> Path]
      BY <2>3, <3>1 DEF PopAtBound, Path
    <3>. QED  BY <2>3, <3>1, <3>2 DEF PopAtBound, QueueItem
  <2>4. CASE PopOpen
    <3>1. Head(queue) \in QueueItem /\ queue' \in Seq(QueueItem)
      BY <2>4, TailInSeq DEF PopOpen, Popping
    <3>2. out \in [Nodes -> Seq(Edge)]
      BY GraphAssumption
    <3>. QED  BY <2>4, <3>1, <3>2 DEF PopOpen, QueueItem
  <2>5. CASE FollowEdge
    <3>. DEFINE e == Head(todo)
                path == Extend(current, e)
    <3>1. e \in Edge /\ todo' \in Seq(Edge)
      BY <2>5, TailInSeq DEF FollowEdge
    <3>2. path \in Path /\ e.callee \in Nodes
      BY <3>1, ExtendType DEF Edge
    <3>3. [node |-> e.callee, path |-> path, depth |-> current.depth + 1] \in QueueItem
      BY <3>2 DEF QueueItem
    <3>4. queue' \in Seq(QueueItem)
      BY <2>5, <3>3 DEF FollowEdge
    <3>5. DOMAIN best' \subseteq Nodes /\ best' \in [DOMAIN best' -> Path]
      <4>. HIDE DEF path, e
      <4>1. best' = Assign(best, e.callee, path) \/ best' = best
        BY <2>5 DEF FollowEdge, path, e
      <4>. QED  BY <4>1, <3>2 DEF Assign
    <3>. QED  BY <2>5, <3>1, <3>4, <3>5 DEF FollowEdge
  <2>6. CASE UNCHANGED vars
    BY <2>6 DEF vars
  <2>. QED  BY <2>1, <2>2, <2>3, <2>4, <2>5, <2>6 DEF Next
<1>. QED  BY <1>1, <1>2, PTL DEF Spec

-----------------------------------------------------------------------------
(* The evidence is real.                                                   *)

(* Every chain in flight is real: those of the result, of the queue, and   *)
(* the one that is being extended.  EvidenceIsReal alone is not inductive: *)
(* FollowEdge builds a path from `current`, which came from the queue.     *)
PendingAreRoots == \A i \in 1 .. Len(pending) : pending[i] \in Roots

QueueIsReal ==
    \A i \in 1 .. Len(queue) :
        /\ IsChain(queue[i].path.edges, queue[i].node)
        /\ queue[i].node \in DOMAIN best

CurrentIsReal ==
    todo # <<>> =>
        /\ IsChain(current.path.edges, current.node)
        /\ current.node \in DOMAIN best
        /\ \A i \in 1 .. Len(todo) : IsEdgeFrom(todo[i], current.node)

EvidenceInv ==
    /\ PendingAreRoots
    /\ EvidenceIsReal
    /\ QueueIsReal
    /\ CurrentIsReal

(* A chain to a node, followed by an edge out of that node, is a chain to  *)
(* the callee of the edge.                                                 *)
LEMMA ChainExtends ==
    ASSUME NEW edges \in Seq(Edge), NEW e \in Edge, NEW n,
           IsChain(edges, n), IsEdgeFrom(e, n)
    PROVE  IsChain(Append(edges, e), e.callee)
<1>. DEFINE longer == Append(edges, e)
<1>1. /\ longer # <<>>
      /\ Len(longer) = Len(edges) + 1
      /\ Len(edges) \in Nat
      /\ \A i \in 1 .. Len(edges) : longer[i] = edges[i]
      /\ longer[Len(edges) + 1] = e
  OBVIOUS
<1>2. longer[1].caller \in Roots
  <2>1. CASE edges = <<>>
    BY <2>1, <1>1 DEF IsChain, IsEdgeFrom
  <2>2. CASE edges # <<>>
    BY <2>2, <1>1 DEF IsChain
  <2>. QED  BY <2>1, <2>2
<1>3. longer[Len(longer)].callee = e.callee
  BY <1>1
<1>4. ASSUME NEW i \in 1 .. Len(longer) - 1
      PROVE  longer[i].callee = longer[i + 1].caller
  <2>1. CASE i = Len(edges)
    <3>1. edges # <<>> /\ edges[i].callee = n
      BY <2>1, <1>1 DEF IsChain
    <3>. QED  BY <3>1, <2>1, <1>1 DEF IsEdgeFrom
  <2>2. CASE i # Len(edges)
    <3>1. edges # <<>> /\ i \in 1 .. Len(edges) - 1 /\ i + 1 \in 1 .. Len(edges)
      BY <2>2, <1>1
    <3>. QED  BY <3>1, <1>1 DEF IsChain
  <2>. QED  BY <2>1, <2>2
<1>5. ASSUME NEW i \in 1 .. Len(longer)
      PROVE  \E j \in 1 .. Len(out[longer[i].caller]) :
                out[longer[i].caller][j] = longer[i]
  <2>1. CASE i = Len(edges) + 1
    BY <2>1, <1>1 DEF IsEdgeFrom
  <2>2. CASE i # Len(edges) + 1
    <3>1. edges # <<>> /\ i \in 1 .. Len(edges) /\ longer[i] = edges[i]
      BY <2>2, <1>1
    <3>. QED  BY <3>1 DEF IsChain
  <2>. QED  BY <2>1, <2>2
<1>. HIDE DEF longer
<1>6. IsChain(longer, e.callee)
  BY <1>1, <1>2, <1>3, <1>4, <1>5 DEF IsChain
<1>. QED  BY <1>6 DEF longer

(* IsChain depends on the graph and the entrypoints only. *)
LEMMA ChainStable ==
    ASSUME UNCHANGED <<out, roots>>, NEW edges, NEW n, IsChain(edges, n)
    PROVE  IsChain(edges, n)'
BY DEF IsChain, Roots

(* The strengthened invariant holds in every state. *)
LEMMA EvidenceInductive == Spec => [](TypeOK /\ EvidenceInv)
<1>1. Init => EvidenceInv
  BY GraphAssumption DEF Init, EvidenceInv, PendingAreRoots, EvidenceIsReal,
     QueueIsReal, CurrentIsReal, Roots
<1>2. TypeOK /\ EvidenceInv /\ [Next]_vars => EvidenceInv'
  <2>. SUFFICES ASSUME TypeOK, EvidenceInv, [Next]_vars PROVE EvidenceInv'
    OBVIOUS
  <2>0. UNCHANGED <<out, roots>> /\ Roots' = Roots
    BY DEF Next, Seed, PopVisited, PopAtBound, PopOpen, FollowEdge, vars, Roots
  <2>. USE ChainStable, <2>0
  <2>1. CASE Seed
    <3>. DEFINE ep == Head(pending)
                item == [node |-> ep, path |-> EmptyPath, depth |-> 0]
    <3>0. /\ Len(pending) \in Nat \ {0} /\ Head(pending) = pending[1]
          /\ Len(Tail(pending)) = Len(pending) - 1
          /\ \A i \in 1 .. Len(Tail(pending)) : Tail(pending)[i] = pending[i + 1]
      BY <2>1, TailInSeq DEF Seed, TypeOK
    <3>1. ep \in Roots /\ PendingAreRoots'
      BY <2>1, <3>0 DEF Seed, EvidenceInv, PendingAreRoots
    <3>2. IsChain(EmptyPath.edges, ep)
      BY <3>1 DEF IsChain, EmptyPath
    <3>3. EvidenceIsReal'
      BY <2>1, <3>2 DEF Seed, EvidenceInv, EvidenceIsReal, Assign
    <3>4. QueueIsReal'
      <4>1. CASE UNCHANGED <<best, queue>>
        BY <4>1 DEF EvidenceInv, QueueIsReal
      <4>2. CASE best' = Assign(best, ep, EmptyPath) /\ queue' = Append(queue, item)
        <5>1. IsChain(item.path.edges, item.node) /\ item.node \in DOMAIN best'
          BY <4>2, <3>2 DEF Assign
        <5>2. DOMAIN best \subseteq DOMAIN best'
          BY <4>2 DEF Assign
        <5>. HIDE DEF item
        <5>. QED  BY <4>2, <5>1, <5>2, AppendInSeq
               DEF TypeOK, EvidenceInv, QueueIsReal
      <4>. QED  BY <2>1, <4>1, <4>2 DEF Seed
    <3>5. CurrentIsReal'
      BY <2>1 DEF Seed, EvidenceInv, CurrentIsReal, Assign, IsEdgeFrom
    <3>. QED  BY <3>1, <3>3, <3>4, <3>5 DEF EvidenceInv
  <2>2. CASE PopVisited
    <3>1. QueueIsReal'
      BY <2>2, TailInSeq DEF PopVisited, Popping, TypeOK, EvidenceInv, QueueIsReal
    <3>. QED  BY <2>2, <3>1 DEF PopVisited, EvidenceInv, PendingAreRoots,
               EvidenceIsReal, CurrentIsReal, IsEdgeFrom
  <2>3. CASE PopAtBound
    <3>1. /\ DOMAIN best' = DOMAIN best
          /\ \A n \in DOMAIN best : best'[n].edges = best[n].edges
      BY <2>3 DEF PopAtBound, TypeOK, Path
    <3>2. QueueIsReal'
      BY <2>3, <3>1, TailInSeq
         DEF PopAtBound, Popping, TypeOK, EvidenceInv, QueueIsReal
    <3>. QED  BY <2>3, <3>1, <3>2 DEF PopAtBound, EvidenceInv, PendingAreRoots,
               EvidenceIsReal, CurrentIsReal, IsEdgeFrom
  <2>4. CASE PopOpen
    <3>. DEFINE item == Head(queue)
    <3>0. /\ Len(queue) \in Nat \ {0} /\ Head(queue) = queue[1]
          /\ Len(Tail(queue)) = Len(queue) - 1
          /\ \A i \in 1 .. Len(Tail(queue)) : Tail(queue)[i] = queue[i + 1]
      BY <2>4, TailInSeq DEF PopOpen, Popping, TypeOK
    <3>1. /\ item.node \in Nodes
          /\ IsChain(item.path.edges, item.node)
          /\ item.node \in DOMAIN best
      BY <3>0 DEF TypeOK, QueueItem, EvidenceInv, QueueIsReal
    <3>2. QueueIsReal'
      BY <2>4, TailInSeq DEF PopOpen, Popping, TypeOK, EvidenceInv, QueueIsReal
    <3>3. \A i \in 1 .. Len(out[item.node]) :
              IsEdgeFrom(out[item.node][i], item.node)
      BY <3>1, GraphAssumption DEF IsEdgeFrom, TypeOK
    <3>4. CurrentIsReal'
      BY <2>4, <3>1, <3>3 DEF PopOpen, CurrentIsReal, IsEdgeFrom
    <3>. QED  BY <2>4, <3>2, <3>4 DEF PopOpen, EvidenceInv, PendingAreRoots,
               EvidenceIsReal
  <2>5. CASE FollowEdge
    <3>. DEFINE e == Head(todo)
                path == Extend(current, e)
                item == [node |-> e.callee, path |-> path,
                         depth |-> current.depth + 1]
    <3>0. /\ Len(todo) \in Nat \ {0} /\ Head(todo) = todo[1]
          /\ Len(Tail(todo)) = Len(todo) - 1
          /\ \A i \in 1 .. Len(Tail(todo)) : Tail(todo)[i] = todo[i + 1]
      BY <2>5, TailInSeq DEF FollowEdge, TypeOK
    <3>1. /\ e \in Edge
          /\ IsEdgeFrom(e, current.node)
          /\ IsChain(current.path.edges, current.node)
          /\ current.path.edges \in Seq(Edge)
      <4>1. e \in Edge
        BY <2>5, TailInSeq DEF FollowEdge, TypeOK
      <4>2. IsEdgeFrom(e, current.node) /\ IsChain(current.path.edges, current.node)
        BY <2>5, <3>0 DEF FollowEdge, EvidenceInv, CurrentIsReal
      <4>3. current.path.edges \in Seq(Edge)
        BY DEF TypeOK, QueueItem, Path
      <4>. QED  BY <4>1, <4>2, <4>3
    <3>2. IsChain(path.edges, e.callee)
      BY <3>1, ChainExtends DEF Extend
    <3>3. best' = Assign(best, e.callee, path) \/ (best' = best /\ ~Improves(path, e.callee))
      BY <2>5 DEF FollowEdge
    <3>4. queue' = queue \/ queue' = Append(queue, item)
      BY <2>5 DEF FollowEdge
    <3>5. IsChain(item.path.edges, item.node)
      BY <3>2
    <3>6. item.node \in DOMAIN best' /\ DOMAIN best \subseteq DOMAIN best'
      BY <3>3 DEF Improves, Assign
    <3>. HIDE DEF item, path
    <3>7. EvidenceIsReal'
      BY <3>2, <3>3 DEF EvidenceInv, EvidenceIsReal, Assign
    <3>8. QueueIsReal'
      <4>1. CASE queue' = queue
        BY <4>1, <3>6 DEF EvidenceInv, QueueIsReal
      <4>2. CASE queue' = Append(queue, item)
        BY <4>2, <3>5, <3>6, AppendInSeq DEF TypeOK, EvidenceInv, QueueIsReal
      <4>. QED  BY <3>4, <4>1, <4>2
    <3>9. CurrentIsReal'
      <4>1. todo' = Tail(todo) /\ current' = current
        BY <2>5 DEF FollowEdge
      <4>2. current.node \in DOMAIN best'
        BY <2>5, <3>6 DEF FollowEdge, EvidenceInv, CurrentIsReal
      <4>3. \A i \in 1 .. Len(Tail(todo)) : IsEdgeFrom(Tail(todo)[i], current.node)
        BY <2>5, <3>0 DEF FollowEdge, EvidenceInv, CurrentIsReal
      <4>. QED  BY <4>1, <4>2, <4>3, <3>1 DEF CurrentIsReal, IsEdgeFrom
    <3>. QED  BY <2>5, <3>7, <3>8, <3>9 DEF FollowEdge, EvidenceInv, PendingAreRoots
  <2>6. CASE UNCHANGED vars
    BY <2>6 DEF vars, EvidenceInv, PendingAreRoots, EvidenceIsReal, QueueIsReal,
       CurrentIsReal, IsEdgeFrom
  <2>. QED  BY <2>1, <2>2, <2>3, <2>4, <2>5, <2>6 DEF Next
<1>. QED  BY <1>1, <1>2, TypeCorrect, PTL DEF Spec

(* Every path of the result is a chain of call-graph edges from an         *)
(* entrypoint to the node it is stored under.                              *)
THEOREM EvidenceReal == Spec => []EvidenceIsReal
<1>1. EvidenceInv => EvidenceIsReal
  BY DEF EvidenceInv
<1>. QED  BY <1>1, EvidenceInductive, PTL

-----------------------------------------------------------------------------
(* The search implements ReachableSet.                                     *)

(* The set of nodes claimed reachable grows one justified node at a time:  *)
(* an entrypoint, or the callee of a node claimed before.                  *)
THEOREM Refinement == Spec => ImplementsReachableSet
<1>1. Init => Abstract!Init
  <2>. SUFFICES ASSUME Init PROVE Abstract!Init
    OBVIOUS
  <2>1. Roots \subseteq Nodes
    BY GraphAssumption DEF Init, Roots
  <2>2. CallPairs \subseteq Nodes \X Nodes
    BY DEF CallPairs
  <2>3. DOMAIN best = {}
    BY DEF Init
  <2>. QED  BY <2>1, <2>2, <2>3 DEF Abstract!Init
<1>2. TypeOK /\ EvidenceInv /\ [Next]_vars => [Abstract!Next]_(Abstract!vars)
  <2>. SUFFICES ASSUME TypeOK, EvidenceInv, [Next]_vars
                PROVE  [Abstract!Next]_(Abstract!vars)
    OBVIOUS
  <2>0. UNCHANGED <<CallPairs, Roots>>
    BY DEF Next, Seed, PopVisited, PopAtBound, PopOpen, FollowEdge, vars, Roots,
       CallPairs, Calls
  <2>1. ASSUME NEW n \in Nodes, Abstract!Justified(n),
               DOMAIN best' = DOMAIN best \cup {n}
        PROVE  [Abstract!Next]_(Abstract!vars)
    <3>1. CASE n \in DOMAIN best
      BY <3>1, <2>0, <2>1 DEF Abstract!vars
    <3>2. CASE n \notin DOMAIN best
      BY <3>2, <2>0, <2>1 DEF Abstract!Next, Abstract!Find
    <3>. QED  BY <3>1, <3>2
  <2>2. CASE DOMAIN best' = DOMAIN best
    BY <2>2, <2>0 DEF Abstract!vars
  <2>3. CASE Seed
    <3>1. Head(pending) \in Nodes /\ Head(pending) \in Roots
      <4>1. Len(pending) > 0 /\ Head(pending) = pending[1] /\ pending[1] \in Nodes
        BY <2>3, TailInSeq DEF Seed, TypeOK
      <4>. QED  BY <4>1 DEF EvidenceInv, PendingAreRoots, TypeOK
    <3>2. \/ DOMAIN best' = DOMAIN best
          \/ DOMAIN best' = DOMAIN best \cup {Head(pending)}
      BY <2>3 DEF Seed, Assign
    <3>. QED  BY <3>1, <3>2, <2>1, <2>2 DEF Abstract!Justified
  <2>4. CASE PopVisited \/ PopAtBound \/ PopOpen \/ UNCHANGED vars
    BY <2>4, <2>2 DEF PopVisited, PopAtBound, PopOpen, vars
  <2>5. CASE FollowEdge
    <3>. DEFINE e == Head(todo)
    <3>1. /\ e \in Edge
          /\ IsEdgeFrom(e, current.node)
          /\ current.node \in DOMAIN best
      <4>1. e \in Edge
        BY <2>5, TailInSeq DEF FollowEdge, TypeOK
      <4>2. Len(todo) > 0 /\ e = todo[1]  /\ Len(todo) \in Nat
        BY <2>5, TailInSeq DEF FollowEdge, TypeOK
      <4>. QED  BY <2>5, <4>1, <4>2 DEF FollowEdge, EvidenceInv, CurrentIsReal
    <3>2. Abstract!Justified(e.callee)
      <4>1. Calls(current.node, e.callee)
        BY <3>1 DEF IsEdgeFrom, Calls
      <4>2. current.node \in Nodes /\ e.callee \in Nodes
        BY <3>1 DEF TypeOK, Edge
      <4>3. <<current.node, e.callee>> \in CallPairs
        BY <4>1, <4>2 DEF CallPairs
      <4>. QED  BY <4>3, <3>1 DEF Abstract!Justified
    <3>3. \/ DOMAIN best' = DOMAIN best
          \/ DOMAIN best' = DOMAIN best \cup {e.callee}
      BY <2>5 DEF FollowEdge, Assign
    <3>. QED  BY <3>1, <3>2, <3>3, <2>1, <2>2 DEF Edge
  <2>. QED  BY <2>3, <2>4, <2>5 DEF Next
<1>. QED  BY <1>1, <1>2, EvidenceInductive, PTL DEF Spec, ImplementsReachableSet, Abstract!Spec
-----------------------------------------------------------------------------
(* The order of the search.                                                *)

(* How a chain compares with another to the same node: the shorter first,  *)
(* then the one from the earlier entrypoint.                               *)
Rank(edges, n) == <<Len(edges), Position(StartOf(edges, n))>>

ItemRank(item) == Rank(item.path.edges, item.node)

BestRank(n) == Rank(best[n].edges, n)

Leq(a, b) == a[1] < b[1] \/ (a[1] = b[1] /\ a[2] <= b[2])

(* The rank of a chain made one call longer. *)
Later(a) == <<a[1] + 1, a[2]>>

Ranks == Nat \X Nat

LEMMA LeqFacts ==
    /\ \A a \in Ranks : Leq(a, a) /\ Leq(a, Later(a)) /\ Later(a) \in Ranks
    /\ \A a, b, c \in Ranks : Leq(a, b) /\ Leq(b, c) => Leq(a, c)
    /\ \A a, b \in Ranks : Leq(a, b) /\ Leq(b, a) => a = b
    /\ \A a, b \in Ranks : Leq(a, b) => Leq(Later(a), Later(b))
    /\ \A a, b \in Ranks : Leq(a, b) => a[1] <= b[1]
BY DEF Ranks, Leq, Later

(* An entrypoint has a first place in the list it was given in.            *)
LEMMA PositionFirst ==
    ASSUME roots \in Seq(Nodes), NEW r \in Roots
    PROVE  /\ Position(r) \in 1 .. Len(roots)
           /\ roots[Position(r)] = r
           /\ \A j \in 1 .. Position(r) - 1 : roots[j] # r
<1>. DEFINE places == {i \in 1 .. Len(roots) : roots[i] = r}
<1>1. places \in SUBSET Nat /\ places # {}
  BY DEF Roots
<1>2. PICK m \in places : \A k \in places : m <= k
  <2>. HIDE DEF places
  <2>. QED  BY <1>1, LeastNat, Zenon
<1>3. \A j \in 1 .. m - 1 : roots[j] # r
  BY <1>2
<1>4. \E i \in 1 .. Len(roots) : roots[i] = r /\ \A j \in 1 .. i - 1 : roots[j] # r
  BY <1>2, <1>3
<1>. QED  BY <1>4 DEF Position

LEMMA RankType ==
    ASSUME roots \in Seq(Nodes), NEW n, NEW edges \in Seq(Edge), IsChain(edges, n)
    PROVE  /\ Rank(edges, n) \in Ranks
           /\ Rank(edges, n)[1] = Len(edges)
<1>1. StartOf(edges, n) \in Roots
  BY DEF IsChain, StartOf
<1>2. Position(StartOf(edges, n)) \in Nat
  BY <1>1, PositionFirst
<1>3. Len(edges) \in Nat
  OBVIOUS
<1>. QED  BY <1>2, <1>3 DEF Rank, Ranks

(* One call more leaves the entrypoint of a chain as it is.                *)
LEMMA RankExtends ==
    ASSUME NEW edges \in Seq(Edge), NEW e \in Edge, NEW n, e.caller = n
    PROVE  Rank(Append(edges, e), e.callee) = Later(Rank(edges, n))
<1>1. /\ Append(edges, e) # <<>>
      /\ Len(Append(edges, e)) = Len(edges) + 1
      /\ Append(edges, e)[1] = IF edges = <<>> THEN e ELSE edges[1]
  <2>1. CASE edges = <<>>
    BY <2>1
  <2>2. CASE edges # <<>>
    BY <2>2
  <2>. QED  BY <2>1, <2>2
<1>2. StartOf(Append(edges, e), e.callee) = StartOf(edges, n)
  BY <1>1 DEF StartOf
<1>. QED  BY <1>1, <1>2 DEF Rank, Later

LEMMA RankStable ==
    ASSUME roots' = roots
    PROVE  \A edges, n : Rank(edges, n)' = Rank(edges, n)
<1>1. \A r : Position(r)' = Position(r)
  BY Zenon DEF Position
<1>. QED  BY <1>1, Zenon DEF Rank

(* The entrypoints the first loop has looked at. *)
Seeded == Len(roots) - Len(pending)

(* The first loop takes the entrypoints in the order of the list, before   *)
(* anything is popped, and keeps the empty chain of each.                  *)
SeedOrder ==
    /\ Seeded \in 0 .. Len(roots)
    /\ \A i \in 1 .. Len(pending) : pending[i] = roots[Seeded + i]
    /\ \A i \in 1 .. Seeded : roots[i] \in DOMAIN best /\ best[roots[i]].edges = <<>>
    /\ pending # <<>> =>
         /\ visited = {}
         /\ todo = <<>>
         /\ DOMAIN best = {roots[i] : i \in 1 .. Seeded}
         /\ \A i \in 1 .. Len(queue) : queue[i].path.edges = <<>>

(* The queue is sorted by rank, and no two entries are more than one call  *)
(* apart; no entry is better than what the result has for its node.        *)
QueueOrder ==
    /\ \A i \in 1 .. Len(queue) :
         /\ queue[i].depth = Len(queue[i].path.edges)
         /\ queue[i].depth <= MaxDepth
         /\ Leq(BestRank(queue[i].node), ItemRank(queue[i]))
    /\ \A i, j \in 1 .. Len(queue) :
         /\ i < j => Leq(ItemRank(queue[i]), ItemRank(queue[j]))
         /\ Leq(ItemRank(queue[j]), Later(ItemRank(queue[i])))

(* The entry being expanded is the best one of its node, and is where the  *)
(* queue begins.                                                           *)
CurrentOrder ==
    todo # <<>> =>
      /\ current.depth = Len(current.path.edges)
      /\ current.depth < MaxDepth
      /\ current.node \in visited
      /\ ItemRank(current) = BestRank(current.node)
      /\ \A n \in visited : Len(best[n].edges) <= current.depth
      /\ \A i \in 1 .. Len(queue) :
           /\ Leq(ItemRank(current), ItemRank(queue[i]))
           /\ Leq(ItemRank(queue[i]), Later(ItemRank(current)))

(* What was taken is no farther than what waits, and every node of the     *)
(* result was taken or waits with the chain of the result.                 *)
VisitedOrder ==
    /\ visited \subseteq DOMAIN best
    /\ \A n \in visited : \A i \in 1 .. Len(queue) :
           Len(best[n].edges) <= queue[i].depth
    /\ \A n \in DOMAIN best \ visited :
         \E i \in 1 .. Len(queue) :
             queue[i].node = n /\ ItemRank(queue[i]) = BestRank(n)

(* A node taken below the bound has given its callees a chain no worse     *)
(* than its own made one call longer, or is about to.                      *)
Expanded ==
    \A m \in visited : Len(best[m].edges) < MaxDepth =>
      \A j \in 1 .. Len(out[m]) :
        \/ /\ out[m][j].callee \in DOMAIN best
           /\ Leq(BestRank(out[m][j].callee), Later(BestRank(m)))
        \/ /\ m = current.node
           /\ \E i \in 1 .. Len(todo) : todo[i] = out[m][j]

CutMarked ==
    \A n \in visited : Len(best[n].edges) >= MaxDepth => best[n].truncated

BoundKept == \A n \in DOMAIN best : Len(best[n].edges) <= MaxDepth

OrderInv ==
    /\ SeedOrder
    /\ QueueOrder
    /\ CurrentOrder
    /\ VisitedOrder
    /\ Expanded
    /\ CutMarked
    /\ BoundKept

(* The ranks of all chains in flight are pairs of numbers. *)
LEMMA RanksInFlight ==
    ASSUME TypeOK, EvidenceInv
    PROVE  /\ roots \in Seq(Nodes)
           /\ \A n \in DOMAIN best :
                 /\ BestRank(n) \in Ranks
                 /\ BestRank(n)[1] = Len(best[n].edges)
                 /\ Len(best[n].edges) \in Nat
           /\ \A i \in 1 .. Len(queue) :
                 /\ ItemRank(queue[i]) \in Ranks
                 /\ ItemRank(queue[i])[1] = Len(queue[i].path.edges)
                 /\ queue[i].node \in DOMAIN best
                 /\ queue[i].depth \in Nat
           /\ todo # <<>> =>
                 /\ ItemRank(current) \in Ranks
                 /\ ItemRank(current)[1] = Len(current.path.edges)
                 /\ current.node \in DOMAIN best
<1>1. roots \in Seq(Nodes)
  BY GraphAssumption DEF TypeOK
<1>2. ASSUME NEW n \in DOMAIN best
      PROVE  /\ BestRank(n) \in Ranks
             /\ BestRank(n)[1] = Len(best[n].edges)
             /\ Len(best[n].edges) \in Nat
  <2>1. best[n].edges \in Seq(Edge)
    BY DEF TypeOK, Path
  <2>2. IsChain(best[n].edges, n)
    BY DEF EvidenceInv, EvidenceIsReal
  <2>3. Len(best[n].edges) \in Nat
    BY <2>1
  <2>. QED  BY <1>1, <2>1, <2>2, <2>3, RankType DEF BestRank
<1>3. ASSUME NEW i \in 1 .. Len(queue)
      PROVE  /\ ItemRank(queue[i]) \in Ranks
             /\ ItemRank(queue[i])[1] = Len(queue[i].path.edges)
             /\ queue[i].node \in DOMAIN best
             /\ queue[i].depth \in Nat
  <2>1. queue[i] \in QueueItem
    BY DEF TypeOK
  <2>2. queue[i].path.edges \in Seq(Edge) /\ queue[i].depth \in Nat
    BY <2>1 DEF QueueItem, Path
  <2>3. IsChain(queue[i].path.edges, queue[i].node) /\ queue[i].node \in DOMAIN best
    BY DEF EvidenceInv, QueueIsReal
  <2>. QED  BY <1>1, <2>2, <2>3, RankType DEF ItemRank
<1>4. ASSUME todo # <<>>
      PROVE  /\ ItemRank(current) \in Ranks
             /\ ItemRank(current)[1] = Len(current.path.edges)
             /\ current.node \in DOMAIN best
  <2>1. current.path.edges \in Seq(Edge)
    BY DEF TypeOK, QueueItem, Path
  <2>2. IsChain(current.path.edges, current.node) /\ current.node \in DOMAIN best
    BY <1>4 DEF EvidenceInv, CurrentIsReal
  <2>. QED  BY <1>1, <2>1, <2>2, RankType DEF ItemRank
<1>. QED  BY <1>1, <1>2, <1>3, <1>4

(* An entry that is popped for a node not taken yet is as good as the      *)
(* result: the entry that put the result there can only come later.        *)
LEMMA HeadIsBest ==
    ASSUME TypeOK, EvidenceInv, OrderInv, queue # <<>>,
           Head(queue).node \notin visited
    PROVE  /\ 1 \in 1 .. Len(queue)
           /\ Head(queue) = queue[1]
           /\ ItemRank(queue[1]) = BestRank(queue[1].node)
           /\ Len(best[queue[1].node].edges) = queue[1].depth
           /\ queue[1].node \in DOMAIN best
<1>1. 1 \in 1 .. Len(queue) /\ Head(queue) = queue[1] /\ Len(queue) \in Nat
  BY TailInSeq DEF TypeOK
<1>. DEFINE n == queue[1].node
<1>2. n \in DOMAIN best /\ n \notin visited
  BY <1>1, RanksInFlight
<1>3. PICK i \in 1 .. Len(queue) :
         queue[i].node = n /\ ItemRank(queue[i]) = BestRank(n)
  BY <1>2 DEF OrderInv, VisitedOrder
<1>4. Leq(BestRank(n), ItemRank(queue[1]))
  BY <1>1 DEF OrderInv, QueueOrder
<1>5. Leq(ItemRank(queue[1]), BestRank(n))
  <2>1. CASE i = 1
    BY <2>1, <1>1, <1>3, RanksInFlight, LeqFacts
  <2>2. CASE i # 1
    BY <2>2, <1>1, <1>3 DEF OrderInv, QueueOrder
  <2>. QED  BY <2>1, <2>2
<1>6. ItemRank(queue[1]) = BestRank(n)
  <2>1. ItemRank(queue[1]) \in Ranks /\ BestRank(n) \in Ranks
    BY <1>1, <1>2, RanksInFlight
  <2>. QED  BY <1>4, <1>5, <2>1, LeqFacts, Zenon
<1>7. Len(best[n].edges) = queue[1].depth
  BY <1>1, <1>2, <1>6, RanksInFlight DEF OrderInv, QueueOrder
<1>. QED  BY <1>1, <1>2, <1>6, <1>7

(* The ranks of the next state, in terms of this one's. *)
LEMMA RanksKept ==
    ASSUME roots' = roots
    PROVE  /\ \A i : ItemRank(queue[i])' = ItemRank(queue'[i])
           /\ \A n : BestRank(n)' = Rank(best'[n].edges, n)
           /\ ItemRank(current)' = ItemRank(current')
BY RankStable DEF ItemRank, BestRank

LEMMA OrderInit == Init => OrderInv
<1>. SUFFICES ASSUME Init PROVE OrderInv
  OBVIOUS
<1>1. roots \in Seq(Nodes)
  BY GraphAssumption DEF Init
<1>2. SeedOrder
  BY <1>1 DEF Init, SeedOrder, Seeded
<1>. QED  BY <1>2 DEF Init, OrderInv, QueueOrder, CurrentOrder, VisitedOrder,
       Expanded, CutMarked, BoundKept

LEMMA PopVisitedKeepsOrder ==
    ASSUME TypeOK, EvidenceInv, OrderInv, PopVisited
    PROVE  OrderInv'
<1>. USE DEF PopVisited, Popping
<1>1. /\ Len(queue) \in Nat \ {0}
      /\ Len(queue') = Len(queue) - 1
      /\ Head(queue) = queue[1]
      /\ \A i \in 1 .. Len(queue') : queue'[i] = queue[i + 1]
  BY TailInSeq DEF TypeOK
<1>2. /\ \A i \in 1 .. Len(queue') : ItemRank(queue[i])' = ItemRank(queue[i + 1])
      /\ \A n : BestRank(n)' = BestRank(n)
  BY <1>1, RanksKept DEF BestRank
<1>3. SeedOrder'
  BY DEF OrderInv, SeedOrder, Seeded
<1>4. QueueOrder'
  BY <1>1, <1>2 DEF OrderInv, QueueOrder
<1>5. VisitedOrder'
  <2>1. ASSUME NEW n \in DOMAIN best \ visited
        PROVE  \E i \in 1 .. Len(queue') :
                   queue'[i].node = n /\ ItemRank(queue[i])' = BestRank(n)'
    <3>1. PICK i \in 1 .. Len(queue) :
             queue[i].node = n /\ ItemRank(queue[i]) = BestRank(n)
      BY DEF OrderInv, VisitedOrder
    <3>2. i # 1
      BY <3>1, <1>1
    <3>3. i - 1 \in 1 .. Len(queue') /\ (i - 1) + 1 = i
      BY <3>2, <1>1
    <3>. QED  BY <3>1, <3>3, <1>1, <1>2
  <2>. QED  BY <2>1, <1>1 DEF OrderInv, VisitedOrder
<1>. QED  BY <1>2, <1>3, <1>4, <1>5 DEF OrderInv, CurrentOrder, Expanded, CutMarked, BoundKept

LEMMA PopAtBoundKeepsOrder ==
    ASSUME TypeOK, EvidenceInv, OrderInv, PopAtBound
    PROVE  OrderInv'
<1>. DEFINE node == Head(queue).node
<1>1. /\ pending = <<>> /\ todo = <<>> /\ queue # <<>>
      /\ node \notin visited
      /\ queue[1].depth >= MaxDepth
      /\ visited' = visited \cup {node}
      /\ queue' = Tail(queue)
      /\ UNCHANGED <<out, roots, pending, current, todo>>
  BY TailInSeq DEF PopAtBound, Popping, AtBound, TypeOK
<1>2. /\ Len(queue) \in Nat \ {0}
      /\ Len(queue') = Len(queue) - 1
      /\ node = queue[1].node
      /\ \A i \in 1 .. Len(queue') : queue'[i] = queue[i + 1] /\ i + 1 \in 1 .. Len(queue)
  BY <1>1, TailInSeq DEF TypeOK
<1>3. node \in DOMAIN best /\ Len(best[node].edges) = queue[1].depth
  BY <1>1, <1>2, HeadIsBest
<1>4. /\ DOMAIN best' = DOMAIN best
      /\ \A n \in DOMAIN best : best'[n].edges = best[n].edges
      /\ \A n \in DOMAIN best : best[n].truncated => best'[n].truncated
      /\ best'[node].truncated
  BY <1>3 DEF PopAtBound, TypeOK, Path
<1>5. /\ \A i \in 1 .. Len(queue') : ItemRank(queue[i])' = ItemRank(queue[i + 1])
      /\ \A n \in DOMAIN best : BestRank(n)' = BestRank(n)
  BY <1>1, <1>2, <1>4, RanksKept DEF BestRank
<1>. HIDE DEF node
<1>6. SeedOrder'
  BY <1>1, <1>4 DEF OrderInv, SeedOrder, Seeded
<1>7. QueueOrder'
  <2>1. \A i \in 1 .. Len(queue) : queue[i].node \in DOMAIN best
    BY RanksInFlight
  <2>2. ASSUME NEW i \in 1 .. Len(queue')
        PROVE  BestRank(queue[i].node)' = BestRank(queue[i + 1].node)
    BY <1>2, <1>5, <2>1
  <2>3. ASSUME NEW i \in 1 .. Len(queue')
        PROVE  /\ queue'[i].depth = Len(queue'[i].path.edges)
               /\ queue'[i].depth <= MaxDepth
               /\ Leq(BestRank(queue[i].node)', ItemRank(queue[i])')
    BY <1>2, <1>5, <2>2 DEF OrderInv, QueueOrder
  <2>4. ASSUME NEW i \in 1 .. Len(queue'), NEW j \in 1 .. Len(queue')
        PROVE  /\ i < j => Leq(ItemRank(queue[i])', ItemRank(queue[j])')
               /\ Leq(ItemRank(queue[j])', Later(ItemRank(queue[i])'))
    <3>1. i + 1 \in 1 .. Len(queue) /\ j + 1 \in 1 .. Len(queue) /\ (i < j => i + 1 < j + 1)
      BY <1>2
    <3>2. /\ i < j => Leq(ItemRank(queue[i + 1]), ItemRank(queue[j + 1]))
          /\ Leq(ItemRank(queue[j + 1]), Later(ItemRank(queue[i + 1])))
      BY <3>1 DEF OrderInv, QueueOrder
    <3>. QED  BY <3>2, <1>5
  <2>. QED  BY <2>3, <2>4 DEF QueueOrder
<1>8. VisitedOrder'
  <2>1. visited' \subseteq DOMAIN best'
    BY <1>1, <1>3, <1>4 DEF OrderInv, VisitedOrder
  <2>2. ASSUME NEW n \in visited', NEW i \in 1 .. Len(queue')
        PROVE  Len(best'[n].edges) <= queue'[i].depth
    <3>1. i + 1 \in 1 .. Len(queue) /\ queue'[i] = queue[i + 1]
      BY <1>2
    <3>2. CASE n = node
      <4>1. Leq(ItemRank(queue[1]), ItemRank(queue[i + 1]))
        BY <1>2, <3>1 DEF OrderInv, QueueOrder
      <4>2. ItemRank(queue[1])[1] <= ItemRank(queue[i + 1])[1]
        BY <4>1, <1>2, <3>1, RanksInFlight, LeqFacts
      <4>3. queue[1].depth <= queue[i + 1].depth
        BY <4>2, <1>2, <3>1, RanksInFlight DEF OrderInv, QueueOrder
      <4>. QED  BY <3>1, <3>2, <4>3, <1>3, <1>4
    <3>3. CASE n # node
      BY <3>1, <3>3, <1>1, <1>4 DEF OrderInv, VisitedOrder
    <3>. QED  BY <3>2, <3>3
  <2>3. ASSUME NEW n \in DOMAIN best' \ visited'
        PROVE  \E i \in 1 .. Len(queue') :
                   queue'[i].node = n /\ ItemRank(queue[i])' = BestRank(n)'
    <3>1. PICK i \in 1 .. Len(queue) :
             queue[i].node = n /\ ItemRank(queue[i]) = BestRank(n)
      BY <1>1, <1>4, <2>3 DEF OrderInv, VisitedOrder
    <3>2. i # 1
      BY <3>1, <2>3, <1>1, <1>2
    <3>3. i - 1 \in 1 .. Len(queue') /\ (i - 1) + 1 = i
      BY <3>2, <1>2
    <3>. QED  BY <3>1, <3>3, <1>2, <1>4, <1>5
  <2>. QED  BY <2>1, <2>2, <2>3 DEF VisitedOrder
<1>9. Expanded'
  <2>. SUFFICES ASSUME NEW m \in visited', Len(best'[m].edges) < MaxDepth,
                       NEW j \in 1 .. Len(out[m])
                PROVE  /\ out[m][j].callee \in DOMAIN best'
                       /\ Leq(BestRank(out[m][j].callee), Later(BestRank(m)))'
    BY <1>1 DEF Expanded
  <2>1. m # node
    BY <1>1, <1>2, <1>3, <1>4, GraphAssumption, RanksInFlight
  <2>2. m \in visited /\ m \in DOMAIN best
    BY <2>1, <1>1 DEF OrderInv, VisitedOrder
  <2>3. /\ out[m][j].callee \in DOMAIN best
        /\ Leq(BestRank(out[m][j].callee), Later(BestRank(m)))
    BY <2>2, <1>1, <1>4, TailInSeq DEF OrderInv, Expanded
  <2>. QED  BY <2>2, <2>3, <1>1, <1>4, <1>5 DEF Leq, Later
<1>10. CutMarked'
  BY <1>1, <1>4 DEF OrderInv, CutMarked, VisitedOrder
<1>. QED  BY <1>1, <1>4, <1>6, <1>7, <1>8, <1>9, <1>10 DEF OrderInv, CurrentOrder, BoundKept

LEMMA PopOpenKeepsOrder ==
    ASSUME TypeOK, EvidenceInv, OrderInv, PopOpen
    PROVE  OrderInv'
<1>. DEFINE item == Head(queue)
<1>1. /\ pending = <<>> /\ todo = <<>> /\ queue # <<>>
      /\ item.node \notin visited
      /\ ~(item.depth >= MaxDepth)
      /\ visited' = visited \cup {item.node}
      /\ current' = item
      /\ todo' = out[item.node]
      /\ queue' = Tail(queue)
      /\ UNCHANGED <<out, roots, pending, best>>
  BY DEF PopOpen, Popping, AtBound
<1>2. /\ Len(queue) \in Nat \ {0}
      /\ Len(queue') = Len(queue) - 1
      /\ item = queue[1]
      /\ 1 \in 1 .. Len(queue)
      /\ \A i \in 1 .. Len(queue') : queue'[i] = queue[i + 1] /\ i + 1 \in 1 .. Len(queue)
  BY <1>1, TailInSeq DEF TypeOK
<1>3. /\ item.node \in DOMAIN best
      /\ ItemRank(item) = BestRank(item.node)
      /\ Len(best[item.node].edges) = item.depth
      /\ item.depth \in Nat
  BY <1>1, <1>2, HeadIsBest, RanksInFlight
<1>4. /\ \A i \in 1 .. Len(queue') : ItemRank(queue[i])' = ItemRank(queue[i + 1])
      /\ \A n : BestRank(n)' = BestRank(n)
      /\ ItemRank(current)' = ItemRank(item)
  BY <1>1, <1>2, RanksKept DEF BestRank
<1>. HIDE DEF item
<1>5. SeedOrder'
  BY <1>1 DEF OrderInv, SeedOrder, Seeded
<1>6. QueueOrder'
  BY <1>1, <1>2, <1>4 DEF OrderInv, QueueOrder
<1>7. ASSUME NEW i \in 1 .. Len(queue)
      PROVE  /\ Leq(ItemRank(item), ItemRank(queue[i]))
             /\ Leq(ItemRank(queue[i]), Later(ItemRank(item)))
             /\ item.depth <= queue[i].depth
  <2>1. Leq(ItemRank(queue[1]), ItemRank(queue[i]))
    <3>1. CASE i = 1
      BY <3>1, RanksInFlight, LeqFacts
    <3>2. CASE i # 1
      BY <3>2, <1>2 DEF OrderInv, QueueOrder
    <3>. QED  BY <3>1, <3>2
  <2>2. Leq(ItemRank(queue[i]), Later(ItemRank(queue[1])))
    BY <1>2 DEF OrderInv, QueueOrder
  <2>3. ItemRank(queue[1])[1] <= ItemRank(queue[i])[1]
    BY <2>1, <1>2, RanksInFlight, LeqFacts
  <2>4. queue[1].depth <= queue[i].depth
    BY <2>3, <1>2, RanksInFlight DEF OrderInv, QueueOrder
  <2>. QED  BY <2>1, <2>2, <2>4, <1>2
<1>8. ASSUME NEW n \in visited' PROVE Len(best[n].edges) <= item.depth
  BY <1>1, <1>2, <1>3, <1>8 DEF OrderInv, VisitedOrder
<1>9. CurrentOrder'
  <2>1. current'.depth = Len(current'.path.edges)
    BY <1>1, <1>2 DEF OrderInv, QueueOrder
  <2>2. current'.depth < MaxDepth
    BY <1>1, <1>3, GraphAssumption
  <2>3. \A i \in 1 .. Len(queue') :
           /\ Leq(ItemRank(current)', ItemRank(queue[i])')
           /\ Leq(ItemRank(queue[i])', Later(ItemRank(current)'))
    BY <1>2, <1>4, <1>7
  <2>4. current'.node \in visited' /\ ItemRank(current)' = BestRank(current.node)'
    BY <1>1, <1>3, <1>4
  <2>. QED  BY <2>1, <2>2, <2>3, <2>4, <1>1, <1>8 DEF CurrentOrder, Leq, Later
<1>10. VisitedOrder'
  <2>1. visited' \subseteq DOMAIN best'
    BY <1>1, <1>3 DEF OrderInv, VisitedOrder
  <2>2. ASSUME NEW n \in visited', NEW i \in 1 .. Len(queue')
        PROVE  Len(best'[n].edges) <= queue'[i].depth
    <3>1. Len(best[n].edges) <= item.depth /\ item.depth <= queue[i + 1].depth
      BY <1>2, <1>7, <1>8
    <3>2. Len(best[n].edges) \in Nat /\ queue[i + 1].depth \in Nat
      BY <2>1, <1>1, <1>2, RanksInFlight
    <3>. QED  BY <3>1, <3>2, <1>1, <1>2, <1>3
  <2>3. ASSUME NEW n \in DOMAIN best' \ visited'
        PROVE  \E i \in 1 .. Len(queue') :
                   queue'[i].node = n /\ ItemRank(queue[i])' = BestRank(n)'
    <3>1. PICK i \in 1 .. Len(queue) :
             queue[i].node = n /\ ItemRank(queue[i]) = BestRank(n)
      BY <1>1, <2>3 DEF OrderInv, VisitedOrder
    <3>2. i # 1
      BY <3>1, <2>3, <1>1, <1>2
    <3>3. i - 1 \in 1 .. Len(queue') /\ (i - 1) + 1 = i
      BY <3>2, <1>2
    <3>. QED  BY <3>1, <3>3, <1>2, <1>4
  <2>. QED  BY <2>1, <2>2, <2>3 DEF VisitedOrder
<1>11. Expanded'
  <2>. SUFFICES ASSUME NEW m \in visited', Len(best[m].edges) < MaxDepth,
                       NEW j \in 1 .. Len(out[m])
                PROVE  \/ /\ out[m][j].callee \in DOMAIN best
                          /\ Leq(BestRank(out[m][j].callee), Later(BestRank(m)))'
                       \/ /\ m = current'.node
                          /\ \E i \in 1 .. Len(todo') : todo'[i] = out[m][j]
    BY <1>1 DEF Expanded
  <2>1. CASE m = item.node
    BY <2>1, <1>1
  <2>2. CASE m # item.node
    <3>1. /\ out[m][j].callee \in DOMAIN best
          /\ Leq(BestRank(out[m][j].callee), Later(BestRank(m)))
      BY <2>2, <1>1, TailInSeq DEF OrderInv, Expanded
    <3>. QED  BY <3>1, <1>1, <1>4 DEF Leq, Later
  <2>. QED  BY <2>1, <2>2
<1>12. CutMarked'
  BY <1>1, <1>3, GraphAssumption DEF OrderInv, CutMarked
<1>. QED  BY <1>1, <1>5, <1>6, <1>9, <1>10, <1>11, <1>12 DEF OrderInv, BoundKept

(* The first loop adds the entrypoint that comes next in the list.         *)
LEMMA SeedKeepsOrder ==
    ASSUME TypeOK, EvidenceInv, OrderInv, Seed
    PROVE  OrderInv'
<1>. DEFINE ep   == Head(pending)
            item == [node |-> ep, path |-> EmptyPath, depth |-> 0]
<1>1. /\ pending # <<>> /\ pending' = Tail(pending)
      /\ UNCHANGED <<out, roots, visited, current, todo>>
      /\ visited = {} /\ todo = <<>>
      /\ DOMAIN best = {roots[i] : i \in 1 .. Seeded}
      /\ \A i \in 1 .. Len(queue) : queue[i].path.edges = <<>>
      /\ \A i \in 1 .. Seeded : best[roots[i]].edges = <<>>
  BY DEF Seed, OrderInv, SeedOrder
<1>2. /\ Len(pending) \in Nat \ {0}
      /\ Len(pending') = Len(pending) - 1
      /\ ep = pending[1]
      /\ \A i \in 1 .. Len(pending') : pending'[i] = pending[i + 1]
  BY <1>1, TailInSeq DEF TypeOK
<1>3. /\ roots \in Seq(Nodes)
      /\ Len(roots) \in Nat
      /\ Seeded \in 0 .. Len(roots) - 1
      /\ Seeded' = Seeded + 1
      /\ ep = roots[Seeded + 1]
      /\ Seeded + 1 \in 1 .. Len(roots)
  <2>1. roots \in Seq(Nodes) /\ Len(roots) \in Nat
    BY RanksInFlight
  <2>2. Seeded \in 0 .. Len(roots) /\ pending[1] = roots[Seeded + 1]
    BY <1>2 DEF OrderInv, SeedOrder
  <2>. QED  BY <2>1, <2>2, <1>1, <1>2 DEF Seeded
<1>4. \A i \in 1 .. Len(pending') : pending'[i] = roots[Seeded' + i]
  <2>1. \A i \in 1 .. Len(pending) : pending[i] = roots[Seeded + i]
    BY DEF OrderInv, SeedOrder
  <2>2. ASSUME NEW i \in 1 .. Len(pending')
        PROVE  i + 1 \in 1 .. Len(pending) /\ Seeded + (i + 1) = Seeded' + i
    BY <1>2, <1>3
  <2>. QED  BY <2>1, <2>2, <1>2
<1>5. 1 .. Seeded' = (1 .. Seeded) \cup {Seeded + 1}
  BY <1>3
<1>6. \A edges, n : Rank(edges, n)' = Rank(edges, n)
  BY <1>1, RankStable
<1>7. CASE ep \in DOMAIN best
  <2>1. UNCHANGED <<best, queue>>
    BY <1>7 DEF Seed
  <2>2. best[ep].edges = <<>>
    BY <1>1, <1>7
  <2>3. SeedOrder'
    <3>1. Seeded' \in 0 .. Len(roots)
      BY <1>3
    <3>2. \A i \in 1 .. Seeded' : roots[i] \in DOMAIN best /\ best[roots[i]].edges = <<>>
      BY <1>1, <1>3, <1>5, <1>7, <2>2
    <3>3. DOMAIN best = {roots[i] : i \in 1 .. Seeded'}
      BY <1>1, <1>3, <1>5, <1>7
    <3>. QED  BY <1>1, <1>4, <2>1, <3>1, <3>2, <3>3 DEF SeedOrder
  <2>4. /\ \A i : ItemRank(queue[i])' = ItemRank(queue[i])
        /\ \A n : BestRank(n)' = BestRank(n)
    BY <1>1, <2>1, RanksKept DEF BestRank
  <2>5. QueueOrder'
    BY <1>1, <2>1, <2>4 DEF OrderInv, QueueOrder
  <2>6. VisitedOrder'
    <3>1. ASSUME NEW n \in DOMAIN best
          PROVE  \E i \in 1 .. Len(queue) :
                     queue[i].node = n /\ ItemRank(queue[i])' = BestRank(n)'
      <4>1. PICK i \in 1 .. Len(queue) :
               queue[i].node = n /\ ItemRank(queue[i]) = BestRank(n)
        BY <1>1 DEF OrderInv, VisitedOrder
      <4>. QED  BY <4>1, <2>4
    <3>. QED  BY <3>1, <1>1, <2>1 DEF VisitedOrder
  <2>. QED  BY <1>1, <2>1, <2>3, <2>5, <2>6
         DEF OrderInv, CurrentOrder, Expanded, CutMarked, BoundKept
<1>8. CASE ep \notin DOMAIN best
  <2>1. best' = Assign(best, ep, EmptyPath) /\ queue' = Append(queue, item)
    BY <1>8 DEF Seed
  <2>2. /\ DOMAIN best' = DOMAIN best \cup {ep}
        /\ \A n \in DOMAIN best : best'[n] = best[n]
        /\ best'[ep] = EmptyPath
        /\ \A n \in DOMAIN best' : best'[n].edges = <<>>
    BY <2>1, <1>1, <1>8 DEF Assign, EmptyPath
  <2>3. /\ item.node = ep /\ item.path.edges = <<>> /\ item.depth = 0
        /\ item \in QueueItem
    BY <1>2 DEF EmptyPath, TypeOK, QueueItem, Path
  <2>. HIDE DEF item
  <2>4. /\ Len(queue) \in Nat
        /\ Len(queue') = Len(queue) + 1
        /\ \A i \in 1 .. Len(queue) : queue'[i] = queue[i]
        /\ queue'[Len(queue) + 1] = item
        /\ 1 .. Len(queue') = (1 .. Len(queue)) \cup {Len(queue) + 1}
    BY <2>1, <2>3, AppendInSeq DEF TypeOK
  <2>5. SeedOrder'
    <3>1. Seeded' \in 0 .. Len(roots)
      BY <1>3
    <3>2. DOMAIN best' = {roots[i] : i \in 1 .. Seeded'}
      BY <1>1, <1>3, <1>5, <2>2
    <3>3. \A i \in 1 .. Seeded' : roots[i] \in DOMAIN best' /\ best'[roots[i]].edges = <<>>
      BY <3>2, <2>2
    <3>4. \A i \in 1 .. Len(queue') : queue'[i].path.edges = <<>>
      BY <1>1, <2>3, <2>4
    <3>. QED  BY <1>1, <1>4, <3>1, <3>2, <3>3, <3>4 DEF SeedOrder
  (* The ranks in the queue are the places of its entrypoints. *)
  <2>6. ASSUME NEW i \in 1 .. Len(queue')
        PROVE  /\ ItemRank(queue[i])' = <<0, Position(queue'[i].node)>>
               /\ BestRank(queue[i].node)' = <<0, Position(queue'[i].node)>>
               /\ queue'[i].depth = 0 /\ queue'[i].path.edges = <<>>
    <3>1. queue'[i].path.edges = <<>> /\ queue'[i].node \in DOMAIN best'
      <4>1. CASE i \in 1 .. Len(queue)
        BY <4>1, <2>2, <2>4, <1>1, RanksInFlight
      <4>2. CASE i = Len(queue) + 1
        BY <4>2, <2>2, <2>3, <2>4
      <4>. QED  BY <4>1, <4>2, <2>4
    <3>2. queue'[i].depth = 0
      BY <2>3, <2>4, <1>1 DEF OrderInv, QueueOrder
    <3>3. \A n : Rank(<<>>, n) = <<0, Position(n)>>
      BY DEF Rank, StartOf
    <3>4. ItemRank(queue[i])' = Rank(queue'[i].path.edges, queue'[i].node)
      BY <1>1, RanksKept DEF ItemRank
    <3>5. BestRank(queue[i].node)' = Rank(best'[queue'[i].node].edges, queue'[i].node)
      BY <1>6 DEF BestRank
    <3>. QED  BY <3>1, <3>2, <3>3, <3>4, <3>5, <2>2
  <2>7. ASSUME NEW i \in 1 .. Len(queue), NEW n, n = queue[i].node
        PROVE  Position(n) \in 1 .. Seeded
    <3>1. n \in DOMAIN best
      BY <2>7, RanksInFlight
    <3>2. PICK k \in 1 .. Seeded : n = roots[k]
      BY <3>1, <1>1
    <3>3. n \in Roots /\ k \in 1 .. Len(roots)
      BY <3>2, <1>3 DEF Roots
    <3>4. /\ Position(n) \in 1 .. Len(roots)
          /\ \A j \in 1 .. Position(n) - 1 : roots[j] # n
      BY <3>3, <1>3, PositionFirst
    <3>. QED  BY <3>2, <3>3, <3>4, <1>3
  <2>8. Position(ep) = Seeded + 1
    <3>1. ep \in Roots
      BY <1>3 DEF Roots
    <3>2. /\ Position(ep) \in 1 .. Len(roots)
          /\ roots[Position(ep)] = ep
          /\ \A j \in 1 .. Position(ep) - 1 : roots[j] # ep
      BY <3>1, <1>3, PositionFirst
    <3>3. Position(ep) \notin 1 .. Seeded
      BY <3>2, <1>1, <1>8
    <3>. QED  BY <3>2, <3>3, <1>3
  <2>9. ASSUME NEW i \in 1 .. Len(queue'), NEW j \in 1 .. Len(queue')
        PROVE  /\ i < j => Leq(ItemRank(queue[i])', ItemRank(queue[j])')
               /\ Leq(ItemRank(queue[j])', Later(ItemRank(queue[i])'))
    <3>1. Leq(ItemRank(queue[j])', Later(ItemRank(queue[i])'))
      BY <2>6 DEF Leq, Later
    <3>2. ASSUME i < j PROVE Leq(ItemRank(queue[i])', ItemRank(queue[j])')
      <4>1. i \in 1 .. Len(queue) /\ queue'[i] = queue[i]
        BY <3>2, <2>4
      <4>2. Position(queue'[i].node) \in 1 .. Seeded
        BY <4>1, <2>7
      <4>3. CASE j = Len(queue) + 1
        <5>1. Position(queue'[j].node) = Seeded + 1
          BY <4>3, <2>3, <2>4, <2>8
        <5>. QED  BY <4>2, <5>1, <2>6, <1>3 DEF Leq
      <4>4. CASE j # Len(queue) + 1
        <5>1. j \in 1 .. Len(queue) /\ queue'[j] = queue[j]
          BY <4>4, <2>4
        <5>2. Leq(ItemRank(queue[i]), ItemRank(queue[j]))
          BY <3>2, <4>1, <5>1 DEF OrderInv, QueueOrder
        <5>. QED  BY <4>1, <5>1, <5>2, <1>1, RanksKept
      <4>. QED  BY <4>3, <4>4
    <3>. QED  BY <3>1, <3>2
  <2>10. QueueOrder'
    <3>1. ASSUME NEW i \in 1 .. Len(queue')
          PROVE  /\ queue'[i].depth = Len(queue'[i].path.edges)
                 /\ queue'[i].depth <= MaxDepth
                 /\ Leq(BestRank(queue[i].node)', ItemRank(queue[i])')
      <4>1. Position(queue'[i].node) \in Nat
        BY <2>3, <2>4, <2>7, <2>8, <1>3
      <4>. QED  BY <4>1, <2>6, GraphAssumption DEF Leq
    <3>. QED  BY <3>1, <2>9 DEF QueueOrder
  <2>11. VisitedOrder'
    <3>1. ASSUME NEW n \in DOMAIN best'
          PROVE  \E i \in 1 .. Len(queue') :
                     queue'[i].node = n /\ ItemRank(queue[i])' = BestRank(n)'
      <4>1. \E i \in 1 .. Len(queue') : queue'[i].node = n
        <5>1. CASE n = ep
          BY <5>1, <2>3, <2>4
        <5>2. CASE n \in DOMAIN best
          <6>1. \E i \in 1 .. Len(queue) : queue[i].node = n
            BY <5>2, <1>1 DEF OrderInv, VisitedOrder
          <6>. QED  BY <6>1, <2>4
        <5>. QED  BY <5>1, <5>2, <2>2
      <4>2. BestRank(n)' = <<0, Position(n)>>
        BY <2>2, <1>6 DEF BestRank, Rank, StartOf
      <4>. QED  BY <4>1, <4>2, <2>6
    <3>. QED  BY <3>1, <1>1 DEF VisitedOrder
  <2>12. BoundKept'
    BY <2>2, GraphAssumption DEF BoundKept
  <2>. QED  BY <1>1, <2>5, <2>10, <2>11, <2>12 DEF OrderInv, CurrentOrder, Expanded, CutMarked
<1>. QED  BY <1>7, <1>8

(* A call that is followed gives its callee a chain only when it had none: *)
(* the chains the queue and the result hold are no longer than the new one.*)
LEMMA FollowEdgeKeepsOrder ==
    ASSUME TypeOK, EvidenceInv, OrderInv, FollowEdge
    PROVE  OrderInv'
<1>. DEFINE e    == Head(todo)
            path == Extend(current, e)
            item == [node |-> e.callee, path |-> path, depth |-> current.depth + 1]
            new  == Later(ItemRank(current))
<1>0. PICK c : c = e.callee
  OBVIOUS
<1>1. /\ todo # <<>> /\ todo' = Tail(todo) /\ pending = <<>>
      /\ UNCHANGED <<out, roots, pending, visited, current>>
  BY DEF FollowEdge, OrderInv, SeedOrder
<1>2. /\ Len(todo) \in Nat \ {0}
      /\ Len(todo') = Len(todo) - 1
      /\ e = todo[1] /\ e \in Edge
      /\ \A i \in 1 .. Len(todo') : todo'[i] = todo[i + 1]
  BY <1>1, TailInSeq DEF TypeOK
<1>3. /\ e.caller = current.node
      /\ current.node \in DOMAIN best
      /\ current.path.edges \in Seq(Edge)
      /\ current.depth \in Nat
      /\ Len(current.path.edges) = current.depth
      /\ current.depth < MaxDepth
      /\ current.node \in visited
      /\ ItemRank(current) = BestRank(current.node)
  <2>1. IsEdgeFrom(e, current.node) /\ current.node \in DOMAIN best
    BY <1>1, <1>2 DEF EvidenceInv, CurrentIsReal
  <2>2. current.path.edges \in Seq(Edge) /\ current.depth \in Nat
    BY DEF TypeOK, QueueItem, Path
  <2>3. /\ Len(current.path.edges) = current.depth
        /\ current.depth < MaxDepth
        /\ current.node \in visited
        /\ ItemRank(current) = BestRank(current.node)
    BY <1>1 DEF OrderInv, CurrentOrder
  <2>. QED  BY <2>1, <2>2, <2>3 DEF IsEdgeFrom
<1>4. /\ ItemRank(current) \in Ranks
      /\ ItemRank(current)[1] = current.depth
      /\ new \in Ranks
      /\ new[1] = current.depth + 1
      /\ Leq(new, Later(new)) /\ Leq(new, new)
      /\ Leq(ItemRank(current), new)
  <2>1. ItemRank(current) \in Ranks /\ ItemRank(current)[1] = current.depth
    BY <1>1, <1>3, RanksInFlight
  <2>2. new \in Ranks /\ Leq(ItemRank(current), new)
    BY <2>1, LeqFacts
  <2>3. new[1] = current.depth + 1
    BY <2>1 DEF Later
  <2>. HIDE DEF new
  <2>4. Leq(new, Later(new)) /\ Leq(new, new)
    BY <2>2, LeqFacts
  <2>. QED  BY <2>1, <2>2, <2>3, <2>4
<1>5. Rank(path.edges, e.callee) = new /\ Len(path.edges) = current.depth + 1
  <2>1. path.edges = Append(current.path.edges, e)
    BY DEF Extend
  <2>2. Len(Append(current.path.edges, e)) = Len(current.path.edges) + 1
    BY <1>2, <1>3, AppendInSeq
  <2>. QED  BY <2>1, <2>2, <1>2, <1>3, RankExtends DEF ItemRank
(* What the result holds for the callee is no worse than the new chain. *)
<1>6. e.callee \in DOMAIN best =>
         /\ Leq(BestRank(e.callee), new)
         /\ ~Improves(path, e.callee)
  <2>. SUFFICES ASSUME e.callee \in DOMAIN best
                PROVE  Leq(BestRank(e.callee), new) /\ ~Improves(path, e.callee)
    OBVIOUS
  <2>1. /\ BestRank(e.callee) \in Ranks
        /\ BestRank(e.callee)[1] = Len(best[e.callee].edges)
        /\ Len(best[e.callee].edges) \in Nat
    BY RanksInFlight
  <2>2. Leq(BestRank(e.callee), new)
    <3>1. CASE e.callee \in visited
      <4>1. Len(best[e.callee].edges) <= current.depth
        BY <3>1, <1>1 DEF OrderInv, CurrentOrder
      <4>. HIDE DEF new
      <4>. QED  BY <4>1, <2>1, <1>3, <1>4 DEF Leq
    <3>2. CASE e.callee \notin visited
      <4>1. PICK i \in 1 .. Len(queue) :
               queue[i].node = e.callee /\ ItemRank(queue[i]) = BestRank(e.callee)
        BY <3>2 DEF OrderInv, VisitedOrder
      <4>2. Leq(ItemRank(queue[i]), new)
        BY <1>1 DEF OrderInv, CurrentOrder
      <4>. QED  BY <4>1, <4>2
    <3>. QED  BY <3>1, <3>2
  <2>3. Len(best[e.callee].edges) <= current.depth + 1
    <3>. HIDE DEF new
    <3>. QED  BY <2>1, <2>2, <1>4, LeqFacts
  <2>. QED  BY <2>1, <2>2, <2>3, <1>3, <1>5 DEF Improves
<1>7. /\ item.node = e.callee /\ item.depth = current.depth + 1
      /\ item.path = path /\ item \in QueueItem
      /\ ItemRank(item) = new
  <2>1. path \in Path /\ e.callee \in Nodes
    BY <1>2, ExtendType DEF TypeOK, Edge
  <2>. HIDE DEF path, e
  <2>. QED  BY <2>1, <1>3, <1>5 DEF QueueItem, ItemRank
<1>8. best' = IF e.callee \in DOMAIN best THEN best ELSE Assign(best, e.callee, path)
  BY <1>6 DEF FollowEdge, Improves
<1>9. queue' = IF e.callee \notin visited THEN Append(queue, item) ELSE queue
  BY DEF FollowEdge
<1>. HIDE DEF e, path, item, new
<1>10. /\ DOMAIN best' = DOMAIN best \cup {e.callee}
       /\ \A n \in DOMAIN best : best'[n] = best[n]
       /\ e.callee \notin DOMAIN best => best'[e.callee] = path
  BY <1>8 DEF Assign
<1>11. /\ \A n \in DOMAIN best : BestRank(n)' = BestRank(n)
       /\ Leq(BestRank(c)', new)
       /\ c \notin DOMAIN best => BestRank(c)' = new
       /\ \A i : ItemRank(queue[i])' = ItemRank(queue'[i])
       /\ ItemRank(current)' = ItemRank(current)
  <2>1. \A n \in DOMAIN best : BestRank(n)' = BestRank(n)
    BY <1>1, <1>10, RanksKept DEF BestRank
  <2>2. c \notin DOMAIN best => BestRank(c)' = new
    <3>1. BestRank(c)' = Rank(best'[c].edges, c)
      BY <1>1, RanksKept
    <3>. QED  BY <3>1, <1>0, <1>5, <1>10
  <2>3. Leq(BestRank(c)', new)
    BY <2>1, <2>2, <1>0, <1>4, <1>6
  <2>4. \A i : ItemRank(queue[i])' = ItemRank(queue'[i])
    BY <1>1, RanksKept
  <2>5. ItemRank(current)' = ItemRank(current)
    BY <1>1, RanksKept
  <2>. QED  BY <2>1, <2>2, <2>3, <2>4, <2>5
<1>12. SeedOrder'
  BY <1>1, <1>10 DEF OrderInv, SeedOrder, Seeded
(* Every entry of the queue is an old one, or the new one at its end. *)
<1>13. ASSUME NEW i \in 1 .. Len(queue')
       PROVE  \/ i \in 1 .. Len(queue) /\ queue'[i] = queue[i]
              \/ /\ i = Len(queue) + 1 /\ queue'[i] = item
                 /\ e.callee \notin visited
  BY <1>7, <1>9, AppendInSeq DEF TypeOK
<1>14. /\ \A i \in 1 .. Len(queue) : i \in 1 .. Len(queue') /\ queue'[i] = queue[i]
       /\ e.callee \notin visited =>
             /\ Len(queue) + 1 \in 1 .. Len(queue')
             /\ queue'[Len(queue) + 1] = item
  <2>1. Len(queue) \in Nat
    BY DEF TypeOK
  <2>. QED  BY <2>1, <1>7, <1>9, AppendInSeq DEF TypeOK
<1>15. ASSUME NEW i \in 1 .. Len(queue')
       PROVE  /\ ItemRank(queue'[i]) \in Ranks
              /\ Leq(ItemRank(current), ItemRank(queue'[i]))
              /\ Leq(ItemRank(queue'[i]), new)
              /\ queue'[i].depth = Len(queue'[i].path.edges)
              /\ queue'[i].depth <= MaxDepth
              /\ current.depth <= queue'[i].depth
              /\ Leq(BestRank(queue[i].node)', ItemRank(queue[i])')
  <2>1. CASE i \in 1 .. Len(queue) /\ queue'[i] = queue[i]
    <3>1. /\ ItemRank(queue[i]) \in Ranks
          /\ ItemRank(queue[i])[1] = Len(queue[i].path.edges)
          /\ queue[i].node \in DOMAIN best
      BY <2>1, RanksInFlight
    <3>2. /\ Leq(ItemRank(current), ItemRank(queue[i]))
          /\ Leq(ItemRank(queue[i]), new)
      BY <2>1, <1>1 DEF OrderInv, CurrentOrder, new
    <3>3. /\ queue[i].depth = Len(queue[i].path.edges)
          /\ queue[i].depth <= MaxDepth
          /\ Leq(BestRank(queue[i].node), ItemRank(queue[i]))
      BY <2>1 DEF OrderInv, QueueOrder
    <3>4. current.depth <= queue[i].depth
      BY <3>1, <3>2, <3>3, <1>4, LeqFacts
    <3>5. BestRank(queue[i].node)' = BestRank(queue[i].node)
      <4>1. BestRank(queue[i].node)' = Rank(best'[queue'[i].node].edges, queue'[i].node)
        BY <1>1, RankStable DEF BestRank
      <4>. QED  BY <4>1, <2>1, <3>1, <1>10 DEF BestRank
    <3>. QED  BY <2>1, <3>1, <3>2, <3>3, <3>4, <3>5, <1>11
  <2>2. CASE i = Len(queue) + 1 /\ queue'[i] = item /\ e.callee \notin visited
    <3>1. BestRank(queue[i].node)' = BestRank(c)'
      <4>1. BestRank(queue[i].node)' = Rank(best'[queue'[i].node].edges, queue'[i].node)
        BY <1>1, RankStable DEF BestRank
      <4>2. BestRank(c)' = Rank(best'[c].edges, c)
        BY <1>1, RanksKept
      <4>. QED  BY <4>1, <4>2, <2>2, <1>0, <1>7
    <3>2. ItemRank(queue[i])' = new /\ ItemRank(queue'[i]) = new
      BY <2>2, <1>7, <1>11
    <3>3. queue'[i].depth = current.depth + 1 /\ Len(queue'[i].path.edges) = current.depth + 1
      BY <2>2, <1>5, <1>7
    <3>4. current.depth + 1 <= MaxDepth /\ current.depth <= current.depth + 1
      BY <1>3, GraphAssumption
    <3>. QED  BY <3>1, <3>2, <3>3, <3>4, <1>4, <1>11
  <2>. QED  BY <2>1, <2>2, <1>13
<1>16. QueueOrder'
  <2>1. ASSUME NEW i \in 1 .. Len(queue'), NEW j \in 1 .. Len(queue')
        PROVE  /\ i < j => Leq(ItemRank(queue'[i]), ItemRank(queue'[j]))
               /\ Leq(ItemRank(queue'[j]), Later(ItemRank(queue'[i])))
    <3>1. Leq(ItemRank(queue'[j]), Later(ItemRank(queue'[i])))
      <4>1. Leq(new, Later(ItemRank(queue'[i])))
        BY <1>4, <1>15, LeqFacts DEF new
      <4>2. Later(ItemRank(queue'[i])) \in Ranks
        BY <1>15, LeqFacts
      <4>. QED  BY <4>1, <4>2, <1>4, <1>15, LeqFacts
    <3>2. ASSUME i < j PROVE Leq(ItemRank(queue'[i]), ItemRank(queue'[j]))
      <4>1. CASE j \in 1 .. Len(queue)
        <5>1. i \in 1 .. Len(queue)
          BY <3>2, <4>1
        <5>2. Leq(ItemRank(queue[i]), ItemRank(queue[j]))
          BY <3>2, <4>1, <5>1 DEF OrderInv, QueueOrder
        <5>. QED  BY <5>1, <5>2, <4>1, <1>14
      <4>2. CASE queue'[j] = item
        BY <4>2, <1>7, <1>15
      <4>. QED  BY <4>1, <4>2, <1>13
    <3>. QED  BY <3>1, <3>2
  <2>. QED  BY <2>1, <1>11, <1>15 DEF QueueOrder
<1>17. CurrentOrder'
  <2>1. /\ current.node \in visited'
        /\ ItemRank(current)' = BestRank(current.node)'
    <3>1. BestRank(current.node)' = Rank(best'[current.node].edges, current.node)
      BY <1>1, RankStable DEF BestRank
    <3>. QED  BY <3>1, <1>1, <1>3, <1>10, <1>11 DEF BestRank
  <2>2. \A n \in visited' : Len(best'[n].edges) <= current.depth
    BY <1>1, <1>10 DEF OrderInv, CurrentOrder, VisitedOrder
  <2>3. \A i \in 1 .. Len(queue') :
           /\ Leq(ItemRank(current)', ItemRank(queue[i])')
           /\ Leq(ItemRank(queue[i])', Later(ItemRank(current)'))
    BY <1>11, <1>15 DEF new
  <2>. QED  BY <2>1, <2>2, <2>3, <1>1, <1>3 DEF CurrentOrder
<1>18. VisitedOrder'
  <2>1. visited' \subseteq DOMAIN best'
    BY <1>1, <1>10 DEF OrderInv, VisitedOrder
  <2>2. ASSUME NEW n \in visited', NEW i \in 1 .. Len(queue')
        PROVE  Len(best'[n].edges) <= queue'[i].depth
    <3>1. n \in DOMAIN best /\ Len(best[n].edges) <= current.depth
      BY <1>1 DEF OrderInv, VisitedOrder, CurrentOrder
    <3>2. Len(best[n].edges) \in Nat
      BY <3>1, RanksInFlight
    <3>3. queue'[i].depth \in Nat
      <4>1. ItemRank(queue'[i])[1] \in Nat /\ current.depth <= queue'[i].depth
        BY <1>15 DEF Ranks
      <4>2. ItemRank(queue'[i])[1] = Len(queue'[i].path.edges)
        BY DEF ItemRank, Rank
      <4>. QED  BY <4>1, <4>2, <1>15
    <3>4. current.depth <= queue'[i].depth
      BY <1>15
    <3>5. best'[n] = best[n]
      BY <3>1, <1>10
    <3>. QED  BY <3>1, <3>2, <3>3, <3>4, <3>5, <1>3
  <2>3. ASSUME NEW n \in DOMAIN best' \ visited'
        PROVE  \E i \in 1 .. Len(queue') :
                   queue'[i].node = n /\ ItemRank(queue[i])' = BestRank(n)'
    <3>1. CASE n \in DOMAIN best
      <4>1. PICK i \in 1 .. Len(queue) :
               queue[i].node = n /\ ItemRank(queue[i]) = BestRank(n)
        BY <3>1, <1>1 DEF OrderInv, VisitedOrder
      <4>. QED  BY <3>1, <4>1, <1>11, <1>14
    <3>2. CASE n = e.callee /\ e.callee \notin DOMAIN best
      <4>1. BestRank(n)' = new
        BY <3>2, <1>0, <1>11
      <4>2. Len(queue) + 1 \in 1 .. Len(queue') /\ queue'[Len(queue) + 1] = item
        BY <3>2, <1>1, <1>14
      <4>. QED  BY <3>2, <4>1, <4>2, <1>7, <1>11
    <3>. QED  BY <3>1, <3>2, <1>10
  <2>. QED  BY <2>1, <2>2, <2>3 DEF VisitedOrder
<1>19. Expanded'
  <2>. SUFFICES ASSUME NEW m \in visited', Len(best'[m].edges) < MaxDepth,
                       NEW j \in 1 .. Len(out[m])
                PROVE  \/ /\ out[m][j].callee \in DOMAIN best'
                          /\ Leq(BestRank(out[m][j].callee)', Later(BestRank(m)'))
                       \/ /\ m = current.node
                          /\ \E i \in 1 .. Len(todo') : todo'[i] = out[m][j]
    BY <1>1 DEF Expanded
  <2>. DEFINE callee == out[m][j].callee
  <2>1. m \in visited /\ m \in DOMAIN best /\ best'[m] = best[m]
    BY <1>1, <1>10 DEF OrderInv, VisitedOrder
  <2>2. CASE callee \in DOMAIN best /\ Leq(BestRank(callee), Later(BestRank(m)))
    <3>1. BestRank(callee)' = BestRank(callee) /\ BestRank(m)' = BestRank(m)
      <4>1. /\ BestRank(callee)' = Rank(best'[callee].edges, callee)
            /\ BestRank(m)' = Rank(best'[m].edges, m)
        BY <1>1, RankStable DEF BestRank
      <4>. QED  BY <4>1, <2>1, <2>2, <1>10 DEF BestRank
    <3>. QED  BY <2>2, <3>1, <1>10
  <2>3. CASE m = current.node /\ \E i \in 1 .. Len(todo) : todo[i] = out[m][j]
    <3>1. PICK i \in 1 .. Len(todo) : todo[i] = out[m][j]
      BY <2>3
    <3>2. CASE i = 1
      <4>1. callee = e.callee
        BY <3>1, <3>2, <1>2
      <4>2. /\ BestRank(callee)' = BestRank(c)'
            /\ BestRank(m)' = ItemRank(current)
        <5>1. /\ BestRank(callee)' = Rank(best'[callee].edges, callee)
              /\ BestRank(m)' = Rank(best'[m].edges, m)
              /\ BestRank(c)' = Rank(best'[c].edges, c)
          BY <1>1, RankStable DEF BestRank
        <5>. QED  BY <5>1, <4>1, <2>1, <2>3, <1>0, <1>3 DEF BestRank
      <4>. QED  BY <4>1, <4>2, <1>10, <1>11 DEF new
    <3>3. CASE i # 1
      <4>1. i - 1 \in 1 .. Len(todo') /\ (i - 1) + 1 = i
        BY <3>3, <1>2
      <4>. QED  BY <4>1, <3>1, <2>3, <1>2
    <3>. QED  BY <3>2, <3>3
  <2>. QED  BY <2>1, <2>2, <2>3 DEF OrderInv, Expanded
<1>20. CutMarked' /\ BoundKept'
  <2>1. \A n \in visited' : n \in DOMAIN best /\ best'[n] = best[n]
    BY <1>1, <1>10 DEF OrderInv, VisitedOrder
  <2>2. e.callee \notin DOMAIN best => Len(best'[e.callee].edges) <= MaxDepth
    BY <1>3, <1>5, <1>10, GraphAssumption
  <2>. QED  BY <1>1, <1>10, <2>1, <2>2 DEF OrderInv, CutMarked, BoundKept
<1>. QED  BY <1>12, <1>16, <1>17, <1>18, <1>19, <1>20 DEF OrderInv

(* The order of the search holds in every state. *)
LEMMA OrderInductive == Spec => [](TypeOK /\ EvidenceInv /\ OrderInv)
<1>1. TypeOK /\ EvidenceInv /\ OrderInv /\ [Next]_vars => OrderInv'
  <2>. SUFFICES ASSUME TypeOK, EvidenceInv, OrderInv, [Next]_vars PROVE OrderInv'
    OBVIOUS
  <2>1. CASE Next
    BY <2>1, SeedKeepsOrder, PopVisitedKeepsOrder, PopAtBoundKeepsOrder,
       PopOpenKeepsOrder, FollowEdgeKeepsOrder DEF Next
  <2>2. CASE UNCHANGED vars
    <3>1. /\ \A i : ItemRank(queue[i])' = ItemRank(queue[i])
          /\ \A n : BestRank(n)' = BestRank(n)
          /\ ItemRank(current)' = ItemRank(current)
      BY <2>2, RanksKept DEF vars, BestRank
    <3>2. UNCHANGED <<out, roots, pending, queue, best, visited, current, todo>>
      BY <2>2 DEF vars
    <3>3. SeedOrder'
      BY <3>2 DEF OrderInv, SeedOrder, Seeded
    <3>4. QueueOrder'
      BY <3>1, <3>2 DEF OrderInv, QueueOrder
    <3>5. CurrentOrder'
      <4>1. ItemRank(current)' = BestRank(current.node)' <=> ItemRank(current) = BestRank(current.node)
        BY <3>2, RanksKept DEF BestRank
      <4>. QED  BY <3>1, <3>2, <4>1 DEF OrderInv, CurrentOrder
    <3>6. VisitedOrder'
      BY <3>1, <3>2 DEF OrderInv, VisitedOrder
    <3>7. Expanded'
      BY <3>1, <3>2 DEF OrderInv, Expanded
    <3>8. CutMarked' /\ BoundKept'
      BY <3>2 DEF OrderInv, CutMarked, BoundKept
    <3>. QED  BY <3>3, <3>4, <3>5, <3>6, <3>7, <3>8 DEF OrderInv
  <2>. QED  BY <2>1, <2>2
<1>. QED  BY <1>1, OrderInit, EvidenceInductive, PTL DEF Spec

-----------------------------------------------------------------------------
(* The result of the search against its reference definition.              *)

(* The reference sets are well defined: a recursive function on 0 .. b     *)
(* exists for every b.                                                     *)
LEMMA WithinDefined ==
    ASSUME NEW S, NEW b \in Nat
    PROVE  /\ WithinFrom(S, b)[0] = S
           /\ \A k \in 0 .. b - 1 :
                 WithinFrom(S, b)[k + 1] =
                     WithinFrom(S, b)[k] \cup Successors(WithinFrom(S, b)[k])
<1>. DEFINE Step(f, k) == IF k = 0 THEN S ELSE f[k - 1] \cup Successors(f[k - 1])
            Defined == {m \in Nat : \E f : f = [k \in 0 .. m |-> Step(f, k)]}
<1>1. 0 \in Defined
  <2>. DEFINE g == [k \in 0 .. 0 |-> S]
  <2>1. g = [k \in 0 .. 0 |-> Step(g, k)]
    OBVIOUS
  <2>. QED  BY <2>1
<1>2. ASSUME NEW m \in Nat, m \in Defined PROVE m + 1 \in Defined
  <2>1. PICK f : f = [k \in 0 .. m |-> Step(f, k)]
    BY <1>2
  <2>. DEFINE g == [k \in 0 .. m + 1 |->
                       IF k = m + 1 THEN f[m] \cup Successors(f[m]) ELSE f[k]]
  <2>2. ASSUME NEW k \in 0 .. m + 1 PROVE g[k] = Step(g, k)
    <3>1. CASE k = m + 1
      <4>1. g[k] = f[m] \cup Successors(f[m]) /\ g[m] = f[m] /\ k # 0 /\ k - 1 = m
        BY <3>1
      <4>. HIDE DEF g
      <4>. QED  BY <4>1
    <3>2. CASE k # m + 1
      <4>1. k \in 0 .. m /\ g[k] = f[k]
        BY <3>2
      <4>2. f[k] = Step(f, k)
        BY <2>1, <4>1
      <4>3. k # 0 => g[k - 1] = f[k - 1]
        BY <4>1
      <4>. HIDE DEF g
      <4>. QED  BY <4>1, <4>2, <4>3
    <3>. QED  BY <3>1, <3>2
  <2>3. g = [k \in 0 .. m + 1 |-> g[k]]
    OBVIOUS
  <2>. HIDE DEF g
  <2>4. g = [k \in 0 .. m + 1 |-> Step(g, k)]
    <3>. HIDE DEF Step
    <3>. QED  BY <2>2, <2>3
  <2>. QED  BY <2>4
<1>3. Nat \subseteq Defined
  <2>. HIDE DEF Defined
  <2>. QED  BY <1>1, <1>2, NatSetInduction, Zenon
<1>. DEFINE w == WithinFrom(S, b)
<1>4. w = [k \in 0 .. b |-> Step(w, k)]
  <2>1. \E f : f = [k \in 0 .. b |-> Step(f, k)]
    BY <1>3
  <2>. QED  BY <2>1 DEF WithinFrom
<1>. HIDE DEF w
<1>5. \A k \in 0 .. b : w[k] = Step(w, k)
  BY <1>4
<1>6. w[0] = S
  BY <1>5, 0 \in 0 .. b
<1>7. ASSUME NEW k \in 0 .. b - 1 PROVE w[k + 1] = w[k] \cup Successors(w[k])
  BY <1>5, k + 1 \in 0 .. b, k + 1 # 0, (k + 1) - 1 = k
<1>. QED  BY <1>6, <1>7 DEF w

(* The reference sets grow: what k calls reach, more calls reach too.      *)
LEMMA WithinGrows ==
    ASSUME NEW S, NEW b \in Nat, NEW k \in 0 .. b
    PROVE  WithinFrom(S, b)[k] \subseteq WithinFrom(S, b)[b]
<1>. DEFINE w == WithinFrom(S, b)
            Inside == {d \in 0 .. b : w[b - d] \subseteq w[b]}
<1>1. 0 \in Inside
  OBVIOUS
<1>2. ASSUME NEW d \in 0 .. b - 1, d \in Inside PROVE d + 1 \in Inside
  <2>1. b - (d + 1) \in 0 .. b - 1 /\ (b - (d + 1)) + 1 = b - d
    OBVIOUS
  <2>2. w[b - (d + 1)] \subseteq w[b - d]
    BY <2>1, WithinDefined
  <2>. QED  BY <1>2, <2>2
<1>3. 0 .. b \subseteq Inside
  <2>. HIDE DEF Inside
  <2>. QED  BY <1>1, <1>2, IntervalInduction, Zenon
<1>4. b - k \in Inside /\ b - (b - k) = k
  BY <1>3
<1>. QED  BY <1>4

(* The end of a chain of k calls is within k calls of the entrypoints.     *)
LEMMA ChainWithin ==
    ASSUME NEW b \in Nat, NEW n, NEW edges \in Seq(Edge), IsChain(edges, n), Len(edges) <= b
    PROVE  n \in WithinFrom(Roots, b)[Len(edges)]
<1>. DEFINE w == WithinFrom(Roots, b)
            Good == {i \in 0 .. Len(edges) : i = 0 \/ edges[i].callee \in w[i]}
<1>0. Len(edges) \in Nat
  OBVIOUS
<1>1. 0 \in Good
  BY <1>0
<1>2. ASSUME NEW i \in 0 .. Len(edges) - 1, i \in Good PROVE i + 1 \in Good
  <2>1. i \in 0 .. b - 1 /\ i + 1 \in 1 .. Len(edges) /\ edges # <<>>
    BY <1>0
  <2>2. w[0] = Roots /\ w[i + 1] = w[i] \cup Successors(w[i])
    BY <2>1, WithinDefined
  <2>3. edges[i + 1].caller \in w[i]
    <3>1. CASE i = 0
      BY <3>1, <2>1, <2>2 DEF IsChain
    <3>2. CASE i # 0
      <4>1. i \in 1 .. Len(edges) - 1 /\ edges[i].callee \in w[i]
        BY <3>2, <1>2, <1>0
      <4>2. edges[i].callee = edges[i + 1].caller
        BY <4>1, <2>1 DEF IsChain
      <4>. QED  BY <4>1, <4>2
    <3>. QED  BY <3>1, <3>2
  <2>. DEFINE e == edges[i + 1]
  <2>4. e \in Edge
    BY <2>1
  <2>5. \E j \in 1 .. Len(out[e.caller]) : out[e.caller][j] = e
    BY <2>1 DEF IsChain
  <2>6. e.callee \in Successors(w[i])
    BY <2>3, <2>4, <2>5 DEF Successors, Calls, Edge
  <2>. QED  BY <2>1, <2>2, <2>6
<1>3. 0 .. Len(edges) \subseteq Good
  <2>. HIDE DEF Good
  <2>. QED  BY <1>0, <1>1, <1>2, IntervalInduction, Zenon
<1>4. CASE edges = <<>>
  BY <1>4, WithinDefined DEF IsChain
<1>5. CASE edges # <<>>
  BY <1>0, <1>3, <1>5 DEF IsChain
<1>. QED  BY <1>4, <1>5

(* In a state where nothing is left to do, the nodes that so many calls    *)
(* from the entrypoints in S reach have a chain no worse than any of S.    *)
LEMMA ReachedIsStored ==
    ASSUME TypeOK, EvidenceInv, OrderInv, Returned,
           NEW S \in SUBSET Roots, NEW p \in Nat,
           \A r \in S : Position(r) <= p,
           NEW k \in 0 .. MaxDepth
    PROVE  \A n \in WithinFrom(S, MaxDepth)[k] :
               n \in DOMAIN best /\ Leq(BestRank(n), <<k, p>>)
<1>. DEFINE w == WithinFrom(S, MaxDepth)
            Good == {m \in 0 .. MaxDepth :
                        \A n \in w[m] : n \in DOMAIN best /\ Leq(BestRank(n), <<m, p>>)}
<1>0. MaxDepth \in Nat /\ roots \in Seq(Nodes)
  BY GraphAssumption, RanksInFlight
<1>1. DOMAIN best \subseteq visited
  BY DEF OrderInv, VisitedOrder, Returned, TypeOK
<1>2. \A r \in Roots : r \in DOMAIN best /\ best[r].edges = <<>>
  BY <1>0 DEF OrderInv, SeedOrder, Seeded, Roots, Returned
<1>3. 0 \in Good
  <2>1. w[0] = S
    BY <1>0, WithinDefined
  <2>2. ASSUME NEW n \in S PROVE Leq(BestRank(n), <<0, p>>)
    <3>1. best[n].edges = <<>> /\ n \in Roots
      BY <1>2
    <3>2. BestRank(n) = <<0, Position(n)>> /\ Position(n) \in Nat
      BY <3>1, <1>0, PositionFirst DEF BestRank, Rank, StartOf
    <3>. QED  BY <3>2 DEF Leq
  <2>. QED  BY <1>0, <1>2, <2>1, <2>2
<1>4. ASSUME NEW m \in 0 .. MaxDepth - 1, m \in Good PROVE m + 1 \in Good
  <2>1. w[m + 1] = w[m] \cup Successors(w[m])
    BY <1>0, WithinDefined
  <2>2. <<m, p>> \in Ranks /\ <<m + 1, p>> \in Ranks /\ Leq(<<m, p>>, <<m + 1, p>>)
        /\ Later(<<m, p>>) = <<m + 1, p>>
    BY DEF Ranks, Leq, Later
  <2>3. ASSUME NEW n \in w[m] PROVE n \in DOMAIN best /\ Leq(BestRank(n), <<m + 1, p>>)
    <3>1. n \in DOMAIN best /\ Leq(BestRank(n), <<m, p>>)
      BY <1>4
    <3>. QED  BY <3>1, <2>2, RanksInFlight, LeqFacts
  <2>4. ASSUME NEW n \in Successors(w[m])
        PROVE  n \in DOMAIN best /\ Leq(BestRank(n), <<m + 1, p>>)
    <3>1. PICK c \in w[m] : Calls(c, n)
      BY DEF Successors
    <3>2. PICK j \in 1 .. Len(out[c]) : out[c][j].callee = n
      BY <3>1 DEF Calls
    <3>3. c \in DOMAIN best /\ Leq(BestRank(c), <<m, p>>)
      BY <1>4
    <3>4. BestRank(c) \in Ranks /\ BestRank(c)[1] = Len(best[c].edges)
      BY <3>3, RanksInFlight
    <3>5. Len(best[c].edges) < MaxDepth
      BY <3>3, <3>4, <1>0 DEF Leq, Ranks
    <3>6. n \in DOMAIN best /\ Leq(BestRank(n), Later(BestRank(c)))
      BY <3>2, <3>3, <3>5, <1>1 DEF OrderInv, Expanded, Returned
    <3>7. Leq(Later(BestRank(c)), <<m + 1, p>>)
      BY <3>3, <3>4, <2>2, LeqFacts
    <3>8. Later(BestRank(c)) \in Ranks /\ BestRank(n) \in Ranks
      BY <3>4, <3>6, LeqFacts, RanksInFlight
    <3>. QED  BY <3>6, <3>7, <3>8, <2>2, LeqFacts
  <2>5. m + 1 \in 0 .. MaxDepth
    BY <1>0
  <2>. QED  BY <2>1, <2>3, <2>4, <2>5
<1>5. 0 .. MaxDepth \subseteq Good
  <2>. HIDE DEF Good
  <2>. QED  BY <1>0, <1>3, <1>4, IntervalInduction, Zenon
<1>. QED  BY <1>5

(* When the search returns, the result has exactly the nodes that chains   *)
(* of at most MaxDepth calls reach.                                        *)
THEOREM Complete == Spec => []CompleteWithinBound
<1>1. TypeOK /\ EvidenceInv /\ OrderInv => CompleteWithinBound
  <2>. SUFFICES ASSUME TypeOK, EvidenceInv, OrderInv, Returned
                PROVE  DOMAIN best = WithinFrom(Roots, MaxDepth)[MaxDepth]
    BY DEF CompleteWithinBound
  <2>0. MaxDepth \in Nat /\ roots \in Seq(Nodes) /\ Len(roots) \in Nat
    BY GraphAssumption, RanksInFlight
  <2>1. ASSUME NEW n \in DOMAIN best
        PROVE  n \in WithinFrom(Roots, MaxDepth)[MaxDepth]
    <3>1. best[n].edges \in Seq(Edge) /\ IsChain(best[n].edges, n)
      BY DEF TypeOK, Path, EvidenceInv, EvidenceIsReal
    <3>2. Len(best[n].edges) <= MaxDepth /\ Len(best[n].edges) \in 0 .. MaxDepth
      BY <2>0, RanksInFlight DEF OrderInv, BoundKept
    <3>. QED  BY <2>0, <3>1, <3>2, ChainWithin, WithinGrows
  <2>2. ASSUME NEW n \in WithinFrom(Roots, MaxDepth)[MaxDepth]
        PROVE  n \in DOMAIN best
    <3>1. \A r \in Roots : Position(r) <= Len(roots)
      BY <2>0, PositionFirst
    <3>. QED  BY <2>0, <3>1, ReachedIsStored, Roots \in SUBSET Roots, MaxDepth \in 0 .. MaxDepth
  <2>. QED  BY <2>1, <2>2
<1>. QED  BY <1>1, OrderInductive, PTL

(* When the search returns, a node with a callee that is not in the result *)
(* has a path marked truncated.                                            *)
THEOREM CutsDisclosed == Spec => []CutIsDisclosed
<1>1. TypeOK /\ EvidenceInv /\ OrderInv => CutIsDisclosed
  <2>. SUFFICES ASSUME TypeOK, EvidenceInv, OrderInv, Returned,
                       NEW n \in DOMAIN best, ~best[n].truncated
                PROVE  Successors({n}) \subseteq DOMAIN best
    BY DEF CutIsDisclosed
  <2>1. n \in visited
    BY DEF OrderInv, VisitedOrder, Returned, TypeOK
  <2>2. Len(best[n].edges) < MaxDepth
    BY <2>1, GraphAssumption, RanksInFlight DEF OrderInv, CutMarked
  <2>3. ASSUME NEW c, Calls(n, c) PROVE c \in DOMAIN best
    <3>1. PICK j \in 1 .. Len(out[n]) : out[n][j].callee = c
      BY <2>3 DEF Calls
    <3>. QED  BY <3>1, <2>1, <2>2 DEF OrderInv, Expanded, Returned
  <2>. QED  BY <2>3 DEF Successors
<1>. QED  BY <1>1, OrderInductive, PTL

(* When the search returns, the path of a node is a shortest one, and of   *)
(* those it starts at the entrypoint listed first.                         *)
THEOREM NearestFirst == Spec => []NearestEntrypointFirst
<1>1. TypeOK /\ EvidenceInv /\ OrderInv => NearestEntrypointFirst
  <2>. SUFFICES ASSUME TypeOK, EvidenceInv, OrderInv, Returned,
                       NEW n \in DOMAIN best, NEW r \in Roots,
                       n \in DOMAIN Distances({r}, MaxDepth)
                PROVE  LET d == Distances({r}, MaxDepth)[n]
                       IN  /\ Len(best[n].edges) <= d
                           /\ Len(best[n].edges) = d =>
                                 Position(StartOf(best[n].edges, n)) <= Position(r)
    BY DEF NearestEntrypointFirst
  <2>. DEFINE w == WithinFrom({r}, MaxDepth)
              d == Distances({r}, MaxDepth)[n]
  <2>1. n \in w[MaxDepth]
    BY DEF Distances
  <2>2. d \in 0 .. MaxDepth /\ n \in w[d]
    <3>. DEFINE steps == {k \in 0 .. MaxDepth : n \in w[k]}
    <3>1. steps \in SUBSET Nat /\ steps # {}
      <4>1. MaxDepth \in Nat /\ MaxDepth \in 0 .. MaxDepth
        BY GraphAssumption
      <4>2. MaxDepth \in steps
        BY <2>1, <4>1
      <4>3. \A k \in steps : k \in Nat
        BY <4>1
      <4>. HIDE DEF steps
      <4>. QED  BY <4>2, <4>3
    <3>2. PICK k \in steps : \A l \in steps : k <= l
      <4>. HIDE DEF steps
      <4>. QED  BY <3>1, LeastNat, Zenon
    <3>3. k \in 0 .. MaxDepth /\ n \in w[k] /\ (k = 0 \/ n \notin w[k - 1])
      <4>1. k # 0 => k - 1 \in 0 .. MaxDepth /\ ~(k <= k - 1)
        BY <3>2, GraphAssumption
      <4>. QED  BY <3>2, <4>1
    <3>. HIDE DEF w
    <3>4. d = CHOOSE l \in 0 .. MaxDepth : n \in w[l] /\ (l = 0 \/ n \notin w[l - 1])
      BY <2>1 DEF Distances, w
    <3>. QED  BY <3>3, <3>4
  <2>3. roots \in Seq(Nodes) /\ Position(r) \in Nat
    BY RanksInFlight, PositionFirst
  <2>4. Leq(BestRank(n), <<d, Position(r)>>)
    <3>. HIDE DEF d
    <3>1. \A s \in {r} : Position(s) <= Position(r)
      BY <2>3
    <3>. QED  BY <2>2, <2>3, <3>1, ReachedIsStored, {r} \in SUBSET Roots
  <2>. HIDE DEF d
  <2>5. BestRank(n) = <<Len(best[n].edges), Position(StartOf(best[n].edges, n))>>
    BY DEF BestRank, Rank
  <2>6. BestRank(n) \in Ranks
    BY RanksInFlight
  <2>. QED  BY <2>2, <2>3, <2>4, <2>5, <2>6 DEF Leq, Ranks, d
<1>. QED  BY <1>1, OrderInductive, PTL

=============================================================================
