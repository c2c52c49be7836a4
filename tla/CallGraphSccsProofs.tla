-------------------------- MODULE CallGraphSccsProofs --------------------------
(***************************************************************************)
(* The iterative search of CallGraph.sccs is right for every call graph:   *)
(* what it pops off its stack is a strongly connected component, whole and *)
(* new, and no component is given out before one it calls into.            *)
(***************************************************************************)
EXTENDS CallGraphSccs, TLAPS

-----------------------------------------------------------------------------
(* Sequences.                                                              *)

(* The elements of a sequence. *)
Elements(s) == {s[i] : i \in DOMAIN s}

(* What being a sequence says.                                             *)
LEMMA InSeq ==
    ASSUME NEW S, NEW s \in Seq(S)
    PROVE  /\ Len(s) \in Nat /\ DOMAIN s = 1 .. Len(s)
           /\ \A i \in 1 .. Len(s) : s[i] \in S
           /\ s # <<>> => Len(s) # 0 /\ Len(s) \in 1 .. Len(s)
OBVIOUS

(* What is left of a sequence when its head is taken.                       *)
LEMMA TailInSeq ==
    ASSUME NEW S, NEW s \in Seq(S), s # <<>>
    PROVE  /\ Head(s) \in S
           /\ Tail(s) \in Seq(S)
           /\ Len(Tail(s)) = Len(s) - 1
           /\ Len(s) > 0
           /\ Head(s) = s[1]
           /\ \A i \in 1 .. Len(Tail(s)) : Tail(s)[i] = s[i + 1]
OBVIOUS

(* A sequence with one more element.                                       *)
LEMMA AppendInSeq ==
    ASSUME NEW S, NEW s \in Seq(S), NEW x \in S
    PROVE  /\ Append(s, x) \in Seq(S)
           /\ Len(Append(s, x)) = Len(s) + 1
           /\ \A i \in 1 .. Len(s) : Append(s, x)[i] = s[i]
           /\ Append(s, x)[Len(s) + 1] = x
OBVIOUS

-----------------------------------------------------------------------------
(* The inductive invariant.  A node is discovered when it has an index; it *)
(* is open while it is on the work stack, and then on Tarjan's stack too,  *)
(* which it leaves when its component is given out.                        *)
Discovered == DOMAIN indices
Levels == 1 .. Len(work)
Open(i) == work[i].node
Rest(i) == Elements(work[i].rest)
Callees(x) == Abstract!Callees(x)
Reachable(x) == Abstract!Reachable(x)
Emitted == Abstract!Emitted

StackInv ==
    /\ onStack = Elements(stack)
    /\ \A i, j \in 1 .. Len(stack) : i < j => indices[stack[i]] < indices[stack[j]]
    /\ Discovered = onStack \cup Emitted /\ onStack \cap Emitted = {}
    /\ \A x \in Discovered : indices[x] < counter

WorkInv ==
    /\ \A i \in Levels : Open(i) \in onStack /\ Rest(i) \subseteq Callees(Open(i))
    /\ \A i, j \in Levels : i < j => indices[Open(i)] < indices[Open(j)]

(* A call leads to a node discovered, or is still to be followed, and what *)
(* is given out calls only what is given out.                              *)
CallsInv ==
    /\ \A x \in Discovered : \A y \in Callees(x) :
         y \in Discovered \/ \E i \in Levels : Open(i) = x /\ y \in Rest(i)
    /\ Abstract!Closed(Emitted)

(* From a node on the stack calls lead back to an open node discovered no  *)
(* later, and from an open node to all on the stack that are not older.    *)
CyclesInv ==
    /\ \A x \in onStack : \E i \in Levels : Open(i) \in Reachable(x) /\ indices[Open(i)] <= indices[x]
    /\ \A i \in Levels : \A x \in onStack :
         indices[Open(i)] <= indices[x] => x \in Reachable(Open(i))

(* A low link is the index of a node on the stack that is reached.         *)
LinksInv ==
    \A x \in onStack :
       /\ lowlinks[x] <= indices[x]
       /\ \E y \in onStack : indices[y] = lowlinks[x] /\ y \in Reachable(x)

(* It covers every call followed so far from a node that belongs to the    *)
(* open node: one that was discovered from there on, and before the next.  *)
Belongs(x, i) ==
    indices[Open(i)] <= indices[x] /\ (i < Len(work) => indices[x] < indices[Open(i + 1)])

CoverInv ==
    \A i \in Levels : \A x \in onStack : Belongs(x, i) =>
       \A y \in Callees(x) \cap onStack :
          (x = Open(i) /\ y \in Rest(i)) \/ lowlinks[Open(i)] <= indices[y]

StartsInv == \A n \in Nodes : n \in Discovered \/ n \in Elements(starts)

SccInv ==
    /\ TypeOK /\ StackInv /\ WorkInv /\ CallsInv /\ CyclesInv /\ LinksInv /\ CoverInv /\ StartsInv

-----------------------------------------------------------------------------
(* What calls reach.                                                       *)
LEMMA CalleesInNodes ==
    ASSUME TypeOK, NEW x \in Nodes
    PROVE  Callees(x) = Elements(succ[x]) /\ Callees(x) \subseteq Nodes
<1>1. succ[x] \in Seq(Nodes)
  BY DEF TypeOK
<1>. QED  BY <1>1 DEF Callees, Abstract!Callees, Elements

LEMMA ReachSelf ==
    ASSUME NEW x \in Nodes
    PROVE  x \in Reachable(x)
BY DEF Reachable, Abstract!Reachable

LEMMA ReachWithin ==
    ASSUME NEW S \in SUBSET Nodes, Abstract!Closed(S), NEW x \in S
    PROVE  Reachable(x) \subseteq S
BY DEF Reachable, Abstract!Reachable

LEMMA ReachCall ==
    ASSUME TypeOK, NEW x, NEW y \in Reachable(x), NEW z \in Callees(y)
    PROVE  z \in Reachable(x)
<1>1. y \in Nodes /\ z \in Nodes
  BY CalleesInNodes DEF Reachable, Abstract!Reachable
<1>2. ASSUME NEW S \in SUBSET Nodes, x \in S, Abstract!Closed(S) PROVE z \in S
  <2>1. y \in S
    BY <1>2 DEF Reachable, Abstract!Reachable
  <2>. QED  BY <1>2, <2>1 DEF Abstract!Closed, Callees
<1>. QED  BY <1>1, <1>2 DEF Reachable, Abstract!Reachable

LEMMA ReachTrans ==
    ASSUME NEW x, NEW y \in Reachable(x), NEW z \in Reachable(y)
    PROVE  z \in Reachable(x)
BY DEF Reachable, Abstract!Reachable

LEMMA SameCalls ==
    ASSUME succ' = succ
    PROVE  /\ \A x : Callees(x)' = Callees(x)
           /\ \A x : Reachable(x)' = Reachable(x)
           /\ \A S : Abstract!Closed(S)' <=> Abstract!Closed(S)
BY DEF Callees, Abstract!Callees, Reachable, Abstract!Reachable, Abstract!Closed

LEMMA SameEmitted ==
    ASSUME result' = result
    PROVE  Emitted' = Emitted
BY DEF Emitted, Abstract!Emitted, Abstract!Members

-----------------------------------------------------------------------------
(* What the steps do to the work stack and to the tables.                  *)
WorkItem == [node : Nodes, rest : Seq(Nodes)]

LEMMA TopFacts ==
    ASSUME TypeOK, work # <<>>
    PROVE  /\ Len(work) \in Nat \ {0} /\ Len(work) \in Levels
           /\ Top = work[Len(work)] /\ Top \in WorkItem
           /\ Top.node = Open(Len(work)) /\ Elements(Top.rest) = Rest(Len(work))
           /\ Top.node \in Nodes /\ Top.rest \in Seq(Nodes)
           /\ \A i \in Levels : work[i] \in WorkItem
<1>1. work \in Seq(WorkItem)
  BY DEF TypeOK, WorkItem
<1>2. /\ Len(work) \in Nat \ {0} /\ Len(work) \in 1 .. Len(work)
      /\ \A i \in 1 .. Len(work) : work[i] \in WorkItem
  <2>. HIDE DEF WorkItem
  <2>. QED  BY <1>1, InSeq
<1>3. \A r \in WorkItem : r.node \in Nodes /\ r.rest \in Seq(Nodes)
  BY DEF WorkItem
<1>. HIDE DEF WorkItem
<1>. QED  BY <1>2, <1>3 DEF Top, Levels, Open, Rest

LEMMA Yielded ==
    ASSUME NEW s \in Seq(Nodes), s # <<>>
    PROVE  /\ Head(s) \in Nodes /\ Tail(s) \in Seq(Nodes)
           /\ Elements(s) = Elements(Tail(s)) \cup {Head(s)}
<1>1. /\ Head(s) = s[1] /\ s[1] \in Nodes /\ Tail(s) \in Seq(Nodes)
      /\ DOMAIN s = 1 .. Len(s) /\ Len(s) \in Nat \ {0}
      /\ DOMAIN Tail(s) = 1 .. Len(s) - 1
      /\ \A i \in 1 .. Len(s) - 1 : Tail(s)[i] = s[i + 1]
  BY TailInSeq
<1>2. \A i \in DOMAIN s : i = 1 \/ (i - 1 \in DOMAIN Tail(s) /\ Tail(s)[i - 1] = s[i])
  <2>1. \A i \in 1 .. Len(s) : i = 1 \/ (i - 1 \in 1 .. Len(s) - 1 /\ (i - 1) + 1 = i)
    BY <1>1
  <2>. QED  BY <1>1, <2>1
<1>3. \A i \in DOMAIN Tail(s) : i + 1 \in DOMAIN s /\ s[i + 1] = Tail(s)[i]
  BY <1>1
<1>4. Elements(s) \subseteq Elements(Tail(s)) \cup {Head(s)}
  <2>. SUFFICES ASSUME NEW i \in DOMAIN s PROVE s[i] \in Elements(Tail(s)) \cup {Head(s)}
    BY DEF Elements
  <2>1. CASE i = 1
    BY <1>1, <2>1
  <2>2. CASE i - 1 \in DOMAIN Tail(s) /\ Tail(s)[i - 1] = s[i]
    <3>. DEFINE k == i - 1
    <3>1. k \in DOMAIN Tail(s) /\ Tail(s)[k] = s[i]
      BY <2>2
    <3>. HIDE DEF k
    <3>. QED  BY <3>1 DEF Elements
  <2>. QED  BY <1>2, <2>1, <2>2
<1>5. Elements(Tail(s)) \subseteq Elements(s)
  BY <1>3 DEF Elements
<1>6. Head(s) \in Elements(s)
  <2>1. 1 \in DOMAIN s
    BY <1>1
  <2>. QED  BY <1>1, <2>1 DEF Elements
<1>. QED  BY <1>1, <1>4, <1>5, <1>6

LEMMA AdvancedFacts ==
    ASSUME TypeOK, work # <<>>, Top.rest # <<>>
    PROVE  /\ Advanced \in Seq(WorkItem) /\ Len(Advanced) = Len(work)
           /\ \A i \in Levels : Advanced[i].node = Open(i)
           /\ \A i \in Levels : i # Len(work) => Elements(Advanced[i].rest) = Rest(i)
           /\ Rest(Len(work)) = Elements(Advanced[Len(work)].rest) \cup {Head(Top.rest)}
<1>. DEFINE m == Len(work)
            Step(i) == IF i < m THEN work[i] ELSE [node |-> work[i].node, rest |-> Tail(work[i].rest)]
<1>1. m \in Nat \ {0} /\ m \in Levels /\ Top = work[m] /\ Top.node \in Nodes /\ Top.rest \in Seq(Nodes)
  BY TopFacts
<1>2. Head(Top.rest) \in Nodes /\ Tail(Top.rest) \in Seq(Nodes)
      /\ Elements(Top.rest) = Elements(Tail(Top.rest)) \cup {Head(Top.rest)}
  BY <1>1, Yielded
<1>3. \A i \in Levels : work[i] \in WorkItem
  BY TopFacts
<1>4. Advanced = [i \in 1 .. m |-> Step(i)] /\ Levels = 1 .. m
  BY DEF Advanced, Levels
<1>5. ASSUME NEW i \in 1 .. m
      PROVE  /\ Step(i) \in WorkItem /\ Step(i).node = work[i].node
             /\ i # m => Step(i).rest = work[i].rest
             /\ i = m => Step(i).rest = Tail(Top.rest)
  <2>1. CASE i < m
    BY <1>3, <1>4, <2>1
  <2>2. CASE i = m
    BY <1>1, <1>2, <2>2 DEF WorkItem
  <2>. QED  BY <1>1, <2>1, <2>2
<1>6. Advanced \in Seq(WorkItem) /\ Len(Advanced) = m
  <2>. HIDE DEF Step, m
  <2>. QED  BY <1>1, <1>4, <1>5
<1>. HIDE DEF Step
<1>7. \A i \in Levels : Advanced[i] = Step(i)
  BY <1>4
<1>. HIDE DEF m
<1>8. \A i \in Levels : Advanced[i].node = Open(i)
  BY <1>4, <1>5, <1>7 DEF Open
<1>9. \A i \in Levels : i # m => Elements(Advanced[i].rest) = Rest(i)
  BY <1>4, <1>5, <1>7 DEF Rest
<1>10. Rest(m) = Elements(Advanced[m].rest) \cup {Head(Top.rest)}
  <2>1. Advanced[m].rest = Tail(Top.rest)
    BY <1>1, <1>4, <1>5, <1>7
  <2>. QED  BY <1>1, <1>2, <2>1 DEF Rest
<1>. QED  BY <1>6, <1>8, <1>9, <1>10 DEF m

(* A low link gets smaller, or stays.                                      *)
Lowers(k, v) ==
    /\ lowlinks' \in [Discovered -> Nat]
    /\ lowlinks'[k] \in {lowlinks[k], v} /\ lowlinks'[k] <= lowlinks[k] /\ lowlinks'[k] <= v
    /\ \A x \in Discovered : x # k => lowlinks'[x] = lowlinks[x]

LEMMA LoweredFacts ==
    ASSUME TypeOK, NEW k \in Discovered, NEW v \in Nat, lowlinks' = Lowered(k, v)
    PROVE  Lowers(k, v)
<1>. DEFINE low == MinOf(lowlinks[k], v)
<1>1. lowlinks \in [Discovered -> Nat] /\ lowlinks[k] \in Nat
  BY DEF TypeOK, Discovered
<1>2. low \in {lowlinks[k], v} /\ low <= lowlinks[k] /\ low <= v /\ low \in Nat
  BY <1>1 DEF MinOf
<1>. HIDE DEF low
<1>3. lowlinks' = Assign(lowlinks, k, low)
  BY DEF Lowered, low
<1>4. DOMAIN lowlinks = Discovered /\ DOMAIN lowlinks \cup {k} = Discovered
  BY <1>1
<1>5. lowlinks' = [x \in Discovered |-> IF x = k THEN low ELSE lowlinks[x]]
  BY <1>3, <1>4 DEF Assign
<1>6. /\ lowlinks' \in [Discovered -> Nat]
      /\ lowlinks'[k] = low /\ \A x \in Discovered : x # k => lowlinks'[x] = lowlinks[x]
  BY <1>1, <1>2, <1>5
<1>. QED  BY <1>2, <1>6 DEF Lowers

(* Start and Descend: n gets an index and is opened.                       *)
Discovers(n, m) ==
    /\ n \in Nodes \ Discovered
    /\ succ' = succ /\ result' = result /\ counter' = counter + 1
    /\ Discovered' = Discovered \cup {n}
    /\ indices' \in [Discovered' -> Nat] /\ lowlinks' \in [Discovered' -> Nat]
    /\ indices'[n] = counter /\ lowlinks'[n] = counter
    /\ \A x \in Discovered : indices'[x] = indices[x] /\ lowlinks'[x] = lowlinks[x]
    /\ stack' = Append(stack, n) /\ onStack' = onStack \cup {n}
    /\ work' \in Seq(WorkItem) /\ m \in Nat /\ Len(work) = m /\ Len(work') = m + 1
    /\ \A i \in 1 .. m : Open(i)' = Open(i)
    /\ \A i \in 1 .. m : i # m => Rest(i)' = Rest(i)
    /\ Open(m + 1)' = n /\ Rest(m + 1)' = Callees(n)
    /\ m # 0 => Rest(m) = Rest(m)' \cup {n}
    /\ starts' \in Seq(Nodes) /\ Elements(starts) \subseteq Elements(starts') \cup {n}

LEMMA DiscoverFacts ==
    ASSUME TypeOK, NEW n \in Nodes \ Discovered, NEW rest \in Seq(WorkItem),
           NEW m, m = Len(rest), Discover(n, rest)
    PROVE  /\ counter' = counter + 1
           /\ Discovered' = Discovered \cup {n}
           /\ indices' \in [Discovered' -> Nat] /\ lowlinks' \in [Discovered' -> Nat]
           /\ indices'[n] = counter /\ lowlinks'[n] = counter
           /\ \A x \in Discovered : indices'[x] = indices[x] /\ lowlinks'[x] = lowlinks[x]
           /\ stack' = Append(stack, n) /\ onStack' = onStack \cup {n}
           /\ work' \in Seq(WorkItem) /\ Len(work') = m + 1 /\ m \in Nat
           /\ \A i \in 1 .. m : work'[i] = rest[i]
           /\ Open(m + 1)' = n /\ Rest(m + 1)' = Callees(n)
<1>1. /\ indices' = Assign(indices, n, counter) /\ lowlinks' = Assign(lowlinks, n, counter)
      /\ counter' = counter + 1 /\ stack' = Append(stack, n) /\ onStack' = onStack \cup {n}
  BY DEF Discover
<1>2. /\ counter \in Nat /\ DOMAIN indices = Discovered /\ DOMAIN lowlinks = Discovered
      /\ \A x \in Discovered : indices[x] \in Nat /\ lowlinks[x] \in Nat
  BY DEF TypeOK, Discovered
<1>3. indices' = [x \in Discovered \cup {n} |-> IF x = n THEN counter ELSE indices[x]]
  BY <1>1, <1>2 DEF Assign
<1>4. lowlinks' = [x \in Discovered \cup {n} |-> IF x = n THEN counter ELSE lowlinks[x]]
  BY <1>1, <1>2 DEF Assign
<1>5. Discovered' = Discovered \cup {n}
  BY <1>3 DEF Discovered
<1>6. /\ indices' \in [Discovered' -> Nat] /\ lowlinks' \in [Discovered' -> Nat]
      /\ indices'[n] = counter /\ lowlinks'[n] = counter
      /\ \A x \in Discovered : indices'[x] = indices[x] /\ lowlinks'[x] = lowlinks[x]
  BY <1>2, <1>3, <1>4, <1>5
<1>. DEFINE item == [node |-> n, rest |-> succ[n]]
<1>7. item \in WorkItem /\ item.node = n /\ Elements(item.rest) = Callees(n)
  BY CalleesInNodes DEF TypeOK, WorkItem
<1>8. work' = Append(rest, item)
  BY DEF Discover
<1>. HIDE DEF item
<1>9. m \in Nat
  BY InSeq
<1>10. /\ work' \in Seq(WorkItem) /\ Len(work') = m + 1
       /\ \A i \in 1 .. m : work'[i] = rest[i]
       /\ work'[m + 1] = item
  BY <1>7, <1>8, AppendInSeq
<1>11. Open(m + 1)' = n /\ Rest(m + 1)' = Callees(n)
  BY <1>7, <1>10 DEF Open, Rest
<1>. QED  BY <1>1, <1>5, <1>6, <1>9, <1>10, <1>11

LEMMA StartDiscovers == TypeOK /\ Start => \E n, m : Discovers(n, m)
<1>. SUFFICES ASSUME TypeOK, Start PROVE \E n, m : Discovers(n, m)
  OBVIOUS
<1>1. PICK n : n = Head(starts)
  OBVIOUS
<1>2. work = <<>> /\ n \notin Discovered /\ Discover(n, <<>>) /\ succ' = succ /\ result' = result
      /\ starts' = Tail(starts) /\ starts # <<>> /\ starts \in Seq(Nodes)
  BY <1>1 DEF Start, Discovered, TypeOK
<1>3. /\ n \in Nodes /\ Tail(starts) \in Seq(Nodes)
      /\ Elements(starts) = Elements(Tail(starts)) \cup {n}
  BY <1>1, <1>2, Yielded
<1>. DEFINE e == <<>>
            m == 0
<1>4. e \in Seq(WorkItem) /\ m = Len(e) /\ work = e /\ Len(work) = m /\ m \in Nat /\ 1 .. m = {}
  BY <1>2
<1>5. Discover(n, e)
  BY <1>2
<1>6. n \in Nodes \ Discovered
  BY <1>2, <1>3
<1>. HIDE DEF e, m
<1>7. /\ counter' = counter + 1
      /\ Discovered' = Discovered \cup {n}
      /\ indices' \in [Discovered' -> Nat] /\ lowlinks' \in [Discovered' -> Nat]
      /\ indices'[n] = counter /\ lowlinks'[n] = counter
      /\ \A x \in Discovered : indices'[x] = indices[x] /\ lowlinks'[x] = lowlinks[x]
      /\ stack' = Append(stack, n) /\ onStack' = onStack \cup {n}
      /\ work' \in Seq(WorkItem) /\ Len(work') = m + 1
      /\ Open(m + 1)' = n /\ Rest(m + 1)' = Callees(n)
  BY <1>4, <1>5, <1>6, DiscoverFacts
<1>8. m = 0
  BY DEF m
<1>9. Discovers(n, m)
  BY <1>2, <1>3, <1>4, <1>6, <1>7, <1>8 DEF Discovers
<1>. QED  BY <1>9

LEMMA DescendDiscovers == TypeOK /\ Descend => \E n, m : Discovers(n, m)
<1>. SUFFICES ASSUME TypeOK, Descend PROVE \E n, m : Discovers(n, m)
  OBVIOUS
<1>1. PICK n, m, rest : n = Head(Top.rest) /\ m = Len(work) /\ rest = Advanced
  OBVIOUS
<1>2. /\ work # <<>> /\ Top.rest # <<>> /\ n \notin Discovered /\ Discover(n, rest)
      /\ succ' = succ /\ starts' = starts /\ result' = result
  BY <1>1 DEF Descend, Discovered
<1>3. /\ rest \in Seq(WorkItem) /\ m = Len(rest)
      /\ \A i \in Levels : rest[i].node = Open(i)
      /\ \A i \in Levels : i # m => Elements(rest[i].rest) = Rest(i)
      /\ Rest(m) = Elements(rest[m].rest) \cup {n}
  BY <1>1, <1>2, AdvancedFacts
<1>4. m \in Nat \ {0} /\ m \in Levels /\ Top.rest \in Seq(Nodes) /\ Levels = 1 .. m
  BY <1>1, <1>2, TopFacts DEF Levels
<1>5. n \in Nodes \ Discovered
  BY <1>1, <1>2, <1>4, Yielded
<1>6. /\ counter' = counter + 1
      /\ Discovered' = Discovered \cup {n}
      /\ indices' \in [Discovered' -> Nat] /\ lowlinks' \in [Discovered' -> Nat]
      /\ indices'[n] = counter /\ lowlinks'[n] = counter
      /\ \A x \in Discovered : indices'[x] = indices[x] /\ lowlinks'[x] = lowlinks[x]
      /\ stack' = Append(stack, n) /\ onStack' = onStack \cup {n}
      /\ work' \in Seq(WorkItem) /\ Len(work') = m + 1
      /\ \A i \in 1 .. m : work'[i] = rest[i]
      /\ Open(m + 1)' = n /\ Rest(m + 1)' = Callees(n)
  BY <1>2, <1>3, <1>5, DiscoverFacts
<1>7. \A i \in 1 .. m : Open(i)' = Open(i)
  BY <1>3, <1>4, <1>6 DEF Open
<1>8. \A i \in 1 .. m : Rest(i)' = Elements(rest[i].rest)
  BY <1>6 DEF Rest
<1>9. (\A i \in 1 .. m : i # m => Rest(i)' = Rest(i)) /\ Rest(m) = Rest(m)' \cup {n}
  BY <1>3, <1>4, <1>8
<1>10. starts' \in Seq(Nodes)
  BY <1>2 DEF TypeOK
<1>11. Discovers(n, m)
  BY <1>1, <1>2, <1>4, <1>5, <1>6, <1>7, <1>9, <1>10 DEF Discovers
<1>. QED  BY <1>11

-----------------------------------------------------------------------------
(* Discovering a node keeps the invariant.                                 *)
LEMMA DiscoverKeepsTypes ==
    ASSUME TypeOK, NEW n, NEW m, Discovers(n, m)
    PROVE  /\ TypeOK'
           /\ Len(stack') = Len(stack) + 1 /\ Len(stack) \in Nat
           /\ \A i \in 1 .. Len(stack) : stack'[i] = stack[i]
           /\ stack'[Len(stack) + 1] = n
           /\ Elements(stack') = Elements(stack) \cup {n}
<1>1. /\ stack \in Seq(Nodes) /\ counter \in Nat /\ onStack \subseteq Nodes
      /\ result \in Seq(Seq(Nodes)) /\ succ \in [Nodes -> Seq(Nodes)]
      /\ DOMAIN indices \subseteq Nodes
  BY DEF TypeOK
<1>2. n \in Nodes /\ stack' = Append(stack, n)
  BY DEF Discovers
<1>3. /\ stack' \in Seq(Nodes) /\ Len(stack') = Len(stack) + 1
      /\ \A i \in 1 .. Len(stack) : stack'[i] = stack[i]
      /\ stack'[Len(stack) + 1] = n
  BY <1>1, <1>2, AppendInSeq
<1>4. Len(stack) \in Nat /\ DOMAIN stack = 1 .. Len(stack) /\ DOMAIN stack' = 1 .. Len(stack) + 1
  BY <1>1, <1>3, InSeq
<1>5. Elements(stack') = Elements(stack) \cup {n}
  <2>1. DOMAIN stack' = DOMAIN stack \cup {Len(stack) + 1}
    BY <1>4
  <2>. QED  BY <1>3, <1>4, <2>1 DEF Elements
<1>6. TypeOK'
  BY <1>1, <1>2, <1>3 DEF TypeOK, Discovers, Discovered, WorkItem
<1>. QED  BY <1>3, <1>4, <1>5, <1>6

LEMMA DiscoverKeeps ==
    ASSUME SccInv, NEW n, NEW m, Discovers(n, m)
    PROVE  SccInv'
<1>. USE DEF SccInv
<1>1. /\ m \in Nat /\ Levels = 1 .. m /\ Levels' = 1 .. m + 1 /\ Len(work) = m /\ Len(work') = m + 1
      /\ n \in Nodes /\ n \notin Discovered /\ counter \in Nat
  BY DEF Discovers, Levels, TypeOK
<1>2. \A x \in onStack : x \in Discovered /\ x # n /\ x \in Nodes
  BY <1>1 DEF StackInv, TypeOK
<1>3. \A x \in Discovered : /\ indices[x] \in Nat /\ indices[x] < counter /\ indices'[x] = indices[x]
                            /\ lowlinks'[x] = lowlinks[x] /\ x \in Nodes
  BY DEF Discovers, StackInv, TypeOK, Discovered
<1>4. /\ Emitted' = Emitted /\ \A x : Callees(x)' = Callees(x) /\ Reachable(x)' = Reachable(x)
      /\ \A S : Abstract!Closed(S)' <=> Abstract!Closed(S)
  BY SameCalls, SameEmitted DEF Discovers
<1>5. /\ indices'[n] = counter /\ lowlinks'[n] = counter /\ Discovered' = Discovered \cup {n}
      /\ onStack' = onStack \cup {n} /\ counter' = counter + 1
  BY DEF Discovers
<1>6. \A i \in 1 .. m : Open(i)' = Open(i) /\ Open(i) \in onStack /\ (i # m => Rest(i)' = Rest(i))
  BY <1>1 DEF Discovers, WorkInv
<1>7. /\ Open(m + 1)' = n /\ Rest(m + 1)' = Callees(n)
      /\ m # 0 => m \in 1 .. m /\ Rest(m) = Rest(m)' \cup {n}
  BY <1>1 DEF Discovers
<1>8. \A i \in 1 .. m + 1 : i \in 1 .. m \/ i = m + 1
  BY <1>1
<1>9. TypeOK'
  BY DiscoverKeepsTypes
<1>10. StackInv'
  <2>. DEFINE k == Len(stack)
  <2>1. /\ Len(stack') = k + 1 /\ k \in Nat
        /\ \A i \in 1 .. k : stack'[i] = stack[i]
        /\ stack'[k + 1] = n
        /\ Elements(stack') = Elements(stack) \cup {n}
    BY DiscoverKeepsTypes
  <2>2. \A i \in 1 .. k : stack[i] \in onStack
    BY InSeq DEF StackInv, TypeOK, Elements
  <2>3. \A i, j \in 1 .. k : i < j => indices[stack[i]] < indices[stack[j]]
    BY DEF StackInv
  <2>. HIDE DEF k
  <2>4. ASSUME NEW i \in 1 .. k + 1, NEW j \in 1 .. k + 1, i < j
        PROVE  indices'[stack'[i]] < indices'[stack'[j]]
    <3>1. i \in 1 .. k /\ (j \in 1 .. k \/ j = k + 1)
      BY <2>1, <2>4
    <3>2. stack'[i] = stack[i] /\ stack[i] \in Discovered /\ indices'[stack[i]] = indices[stack[i]]
          /\ indices[stack[i]] < counter
      BY <1>2, <1>3, <2>1, <2>2, <3>1
    <3>3. CASE j = k + 1
      BY <1>5, <2>1, <3>2, <3>3
    <3>4. CASE j \in 1 .. k
      <4>1. stack'[j] = stack[j] /\ indices'[stack[j]] = indices[stack[j]]
        BY <1>2, <1>3, <2>1, <2>2, <3>4
      <4>. QED  BY <2>3, <2>4, <3>1, <3>2, <3>4, <4>1
    <3>. QED  BY <3>1, <3>3, <3>4
  <2>5. onStack' = Elements(stack')
    BY <1>5, <2>1 DEF StackInv
  <2>6. Discovered' = onStack' \cup Emitted' /\ onStack' \cap Emitted' = {}
    BY <1>1, <1>4, <1>5 DEF StackInv
  <2>7. \A x \in Discovered' : indices'[x] < counter'
    BY <1>1, <1>3, <1>5
  <2>. QED  BY <2>1, <2>4, <2>5, <2>6, <2>7 DEF StackInv
<1>11. WorkInv'
  <2>1. ASSUME NEW i \in 1 .. m + 1 PROVE Open(i)' \in onStack' /\ Rest(i)' \subseteq Callees(Open(i))'
    <3>. DEFINE o == Open(i)'
    <3>0. Callees(Open(i))' = Callees(o)
      BY DEF Discovers, Callees, Abstract!Callees
    <3>1. CASE i = m + 1
      BY <1>5, <1>7, <3>0, <3>1
    <3>2. CASE i \in 1 .. m
      <4>1. Rest(i) \subseteq Callees(Open(i)) /\ Rest(i)' \subseteq Rest(i)
        BY <1>1, <1>6, <1>7, <3>2 DEF WorkInv
      <4>. QED  BY <1>5, <1>6, <3>0, <3>2, <4>1
    <3>. QED  BY <1>8, <3>1, <3>2
  <2>2. ASSUME NEW i \in 1 .. m + 1, NEW j \in 1 .. m + 1, i < j
        PROVE  indices'[Open(i)'] < indices'[Open(j)']
    <3>1. i \in 1 .. m
      BY <1>1, <2>2
    <3>2. indices'[Open(i)'] = indices[Open(i)] /\ indices[Open(i)] < counter
      BY <1>2, <1>3, <1>6, <3>1
    <3>3. CASE j = m + 1
      BY <1>5, <1>7, <3>2, <3>3
    <3>4. CASE j \in 1 .. m
      <4>1. indices'[Open(j)'] = indices[Open(j)]
        BY <1>2, <1>3, <1>6, <3>4
      <4>. QED  BY <1>1, <2>2, <3>1, <3>2, <3>4, <4>1 DEF WorkInv
    <3>. QED  BY <1>8, <3>3, <3>4
  <2>. QED  BY <1>1, <2>1, <2>2 DEF WorkInv
<1>12. CallsInv'
  <2>1. ASSUME NEW x \in Discovered', NEW y \in Callees(x)
        PROVE  y \in Discovered' \/ \E i \in 1 .. m + 1 : Open(i)' = x /\ y \in Rest(i)'
    <3>1. CASE x = n
      BY <1>1, <1>7, <2>1, <3>1
    <3>2. CASE x \in Discovered /\ y \notin Discovered'
      <4>1. PICK i \in 1 .. m : Open(i) = x /\ y \in Rest(i)
        BY <1>1, <1>5, <2>1, <3>2 DEF CallsInv
      <4>2. y # n
        BY <1>5, <3>2
      <4>3. y \in Rest(i)' /\ Open(i)' = x /\ i \in 1 .. m + 1
        BY <1>1, <1>6, <1>7, <4>1, <4>2
      <4>. QED  BY <4>3
    <3>. QED  BY <1>5, <2>1, <3>1, <3>2
  <2>2. Abstract!Closed(Emitted)
    BY DEF CallsInv
  <2>. QED  BY <1>1, <1>4, <2>1, <2>2 DEF CallsInv
<1>13. CyclesInv'
  <2>1. ASSUME NEW x \in onStack'
        PROVE  \E i \in 1 .. m + 1 : Open(i)' \in Reachable(x) /\ indices'[Open(i)'] <= indices'[x]
    <3>1. CASE x = n
      <4>1. m + 1 \in 1 .. m + 1 /\ n \in Reachable(n) /\ counter <= counter
        BY <1>1, ReachSelf
      <4>. QED  BY <1>5, <1>7, <3>1, <4>1
    <3>2. CASE x \in onStack
      <4>1. PICK i \in 1 .. m : Open(i) \in Reachable(x) /\ indices[Open(i)] <= indices[x]
        BY <1>1, <3>2 DEF CyclesInv
      <4>2. /\ Open(i)' = Open(i) /\ indices'[Open(i)] = indices[Open(i)] /\ indices'[x] = indices[x]
            /\ i \in 1 .. m + 1
        BY <1>1, <1>2, <1>3, <1>6, <3>2
      <4>. QED  BY <4>1, <4>2
    <3>. QED  BY <1>5, <2>1, <3>1, <3>2
  <2>2. ASSUME NEW i \in 1 .. m + 1, NEW x \in onStack', indices'[Open(i)'] <= indices'[x]
        PROVE  x \in Reachable(Open(i)')
    <3>1. CASE i = m + 1
      <4>1. x = n
        <5>1. ASSUME x \in onStack PROVE FALSE
          <6>1. indices'[x] = indices[x] /\ indices[x] < counter /\ indices[x] \in Nat
            BY <1>2, <1>3, <5>1
          <6>2. counter <= indices'[x]
            BY <1>5, <1>7, <2>2, <3>1
          <6>. QED  BY <1>1, <6>1, <6>2
        <5>. QED  BY <1>5, <2>2, <5>1
      <4>. QED  BY <1>1, <1>7, <3>1, <4>1, ReachSelf
    <3>2. CASE i \in 1 .. m /\ x \in onStack
      <4>1. indices'[Open(i)'] = indices[Open(i)] /\ indices'[x] = indices[x] /\ Open(i)' = Open(i)
        BY <1>2, <1>3, <1>6, <3>2
      <4>. QED  BY <1>1, <2>2, <3>2, <4>1 DEF CyclesInv
    <3>3. CASE i \in 1 .. m /\ x = n
      <4>1. m # 0 /\ m \in 1 .. m
        BY <1>1, <3>3
      <4>2. Open(m) \in onStack /\ n \in Callees(Open(m))
        BY <1>1, <1>6, <1>7, <4>1 DEF WorkInv
      <4>3. indices[Open(i)] <= indices[Open(m)]
        <5>1. CASE i = m
          BY <1>2, <1>3, <4>2, <5>1
        <5>2. CASE i # m
          <6>1. i < m
            BY <1>1, <3>3, <5>2
          <6>2. indices[Open(i)] < indices[Open(m)] /\ indices[Open(i)] \in Nat /\ indices[Open(m)] \in Nat
            BY <1>1, <1>2, <1>3, <1>6, <3>3, <4>1, <6>1 DEF WorkInv
          <6>. QED  BY <6>2
        <5>. QED  BY <5>1, <5>2
      <4>4. Open(m) \in Reachable(Open(i))
        BY <1>1, <3>3, <4>2, <4>3 DEF CyclesInv
      <4>5. n \in Reachable(Open(i))
        BY <4>2, <4>4, ReachCall
      <4>. QED  BY <1>6, <3>3, <4>5
    <3>. QED  BY <1>5, <1>8, <2>2, <3>1, <3>2, <3>3
  <2>. QED  BY <1>1, <1>4, <2>1, <2>2 DEF CyclesInv
<1>14. LinksInv'
  <2>1. ASSUME NEW x \in onStack'
        PROVE  /\ lowlinks'[x] <= indices'[x]
               /\ \E y \in onStack' : indices'[y] = lowlinks'[x] /\ y \in Reachable(x)
    <3>1. CASE x = n
      BY <1>1, <1>5, <3>1, ReachSelf
    <3>2. CASE x \in onStack
      <4>1. PICK y \in onStack : indices[y] = lowlinks[x] /\ y \in Reachable(x)
        BY <3>2 DEF LinksInv
      <4>2. lowlinks[x] <= indices[x]
        BY <3>2 DEF LinksInv
      <4>. QED  BY <1>2, <1>3, <1>5, <3>2, <4>1, <4>2
    <3>. QED  BY <1>5, <2>1, <3>1, <3>2
  <2>. QED  BY <1>4, <2>1 DEF LinksInv
<1>15. CoverInv'
  <2>1. ASSUME NEW i \in 1 .. m + 1, NEW x \in onStack', Belongs(x, i)', NEW y \in Callees(x), y \in onStack'
        PROVE  (x = Open(i)' /\ y \in Rest(i)') \/ lowlinks'[Open(i)'] <= indices'[y]
    <3>1. indices'[Open(i)'] <= indices'[x]
          /\ (i < m + 1 => indices'[x] < indices'[Open(i + 1)'])
      BY <1>1, <2>1 DEF Belongs
    <3>2. CASE i = m + 1
      <4>1. x = n
        <5>1. ASSUME x \in onStack PROVE FALSE
          <6>1. indices'[x] = indices[x] /\ indices[x] < counter /\ indices[x] \in Nat
            BY <1>2, <1>3, <5>1
          <6>2. counter <= indices'[x]
            BY <1>5, <1>7, <3>1, <3>2
          <6>. QED  BY <1>1, <6>1, <6>2
        <5>. QED  BY <1>5, <2>1, <5>1
      <4>. QED  BY <1>7, <2>1, <3>2, <4>1
    <3>3. CASE i \in 1 .. m
      <4>1. /\ Open(i)' = Open(i) /\ Open(i) \in onStack /\ indices'[Open(i)] = indices[Open(i)]
            /\ lowlinks'[Open(i)] = lowlinks[Open(i)] /\ indices[Open(i)] \in Nat
            /\ indices[Open(i)] < counter
        BY <1>2, <1>3, <1>6, <3>3
      <4>2. lowlinks[Open(i)] <= indices[Open(i)] /\ lowlinks[Open(i)] \in Nat
        BY <1>2, <4>1 DEF LinksInv, TypeOK, Discovered
      <4>3. CASE y = n
        BY <1>1, <1>5, <4>1, <4>2, <4>3
      <4>4. CASE y # n /\ x # n
        <5>1. x \in onStack /\ y \in onStack /\ indices'[x] = indices[x] /\ indices'[y] = indices[y]
          BY <1>2, <1>3, <1>5, <2>1, <4>4
        <5>2. Belongs(x, i)
          <6>1. CASE i = m
            BY <1>1, <3>1, <4>1, <5>1, <6>1 DEF Belongs
          <6>2. CASE i < m
            <7>1. i + 1 \in 1 .. m /\ i < m + 1
              BY <1>1, <3>3, <6>2
            <7>2. indices'[Open(i + 1)'] = indices[Open(i + 1)]
              BY <1>2, <1>3, <1>6, <7>1
            <7>. QED  BY <3>1, <4>1, <5>1, <7>1, <7>2 DEF Belongs
          <6>. QED  BY <1>1, <3>3, <6>1, <6>2
        <5>3. (x = Open(i) /\ y \in Rest(i)) \/ lowlinks[Open(i)] <= indices[y]
          BY <1>1, <2>1, <3>3, <5>1, <5>2 DEF CoverInv
        <5>4. y \in Rest(i) => y \in Rest(i)'
          BY <1>6, <1>7, <3>3, <4>4
        <5>. QED  BY <4>1, <5>1, <5>3, <5>4
      <4>5. CASE x = n
        <5>1. i < m + 1 /\ i + 1 \in 1 .. m + 1
          BY <1>1, <3>3
        <5>2. counter < indices'[Open(i + 1)']
          BY <1>5, <3>1, <4>5, <5>1
        <5>3. Open(i + 1)' \in onStack \/ Open(i + 1)' = n
          BY <1>6, <1>7, <1>8, <5>1
        <5>. QED  BY <1>1, <1>2, <1>3, <1>5, <5>2, <5>3
      <4>. QED  BY <4>3, <4>4, <4>5
    <3>. QED  BY <1>8, <2>1, <3>2, <3>3
  <2>. QED  BY <1>1, <1>4, <2>1 DEF CoverInv
<1>16. StartsInv'
  <2>1. Elements(starts) \subseteq Elements(starts') \cup {n}
    BY DEF Discovers
  <2>. QED  BY <1>5, <2>1 DEF StartsInv
<1>. QED  BY <1>9, <1>10, <1>11, <1>12, <1>13, <1>14, <1>15, <1>16

-----------------------------------------------------------------------------
(* BackEdge and CrossEdge: a call from the open node on top leads to h,    *)
(* which has been discovered before.                                       *)
Advances(h, m) ==
    /\ m \in Nat \ {0} /\ Len(work) = m /\ Len(work') = m
    /\ h \in Discovered
    /\ work' \in Seq(WorkItem)
    /\ \A i \in 1 .. m : Open(i)' = Open(i)
    /\ \A i \in 1 .. m : i # m => Rest(i)' = Rest(i)
    /\ Rest(m) = Rest(m)' \cup {h}
    /\ UNCHANGED <<succ, starts, counter, indices, stack, onStack, result>>
    /\ lowlinks' \in [Discovered -> Nat]
    /\ \A x \in Discovered : x # Open(m) => lowlinks'[x] = lowlinks[x]
    /\ lowlinks'[Open(m)] <= lowlinks[Open(m)]
    /\ lowlinks'[Open(m)] = lowlinks[Open(m)] \/ (h \in onStack /\ lowlinks'[Open(m)] = indices[h])
    /\ h \in onStack => lowlinks'[Open(m)] <= indices[h]

LEMMA EdgeAdvances == SccInv /\ (BackEdge \/ CrossEdge) => \E h, m : Advances(h, m)
<1>. SUFFICES ASSUME SccInv, BackEdge \/ CrossEdge PROVE \E h, m : Advances(h, m)
  OBVIOUS
<1>0. TypeOK
  BY DEF SccInv
<1>1. PICK h, m, rest, n : h = Head(Top.rest) /\ m = Len(work) /\ rest = Advanced /\ n = Top.node
  OBVIOUS
<1>2. /\ work # <<>> /\ Top.rest # <<>> /\ h \in Discovered /\ work' = rest
      /\ UNCHANGED <<succ, starts, counter, indices, stack, onStack, result>>
  BY <1>1 DEF BackEdge, CrossEdge, Discovered
<1>3. /\ rest \in Seq(WorkItem) /\ m = Len(rest)
      /\ \A i \in Levels : rest[i].node = Open(i)
      /\ \A i \in Levels : i # m => Elements(rest[i].rest) = Rest(i)
      /\ Rest(m) = Elements(rest[m].rest) \cup {h}
  BY <1>0, <1>1, <1>2, AdvancedFacts
<1>4. m \in Nat \ {0} /\ m \in Levels /\ Levels = 1 .. m /\ n = Open(m)
  BY <1>0, <1>1, <1>2, TopFacts DEF Levels
<1>5. \A i \in 1 .. m : Open(i)' = Open(i)
  BY <1>2, <1>3, <1>4 DEF Open
<1>6. \A i \in 1 .. m : Rest(i)' = Elements(rest[i].rest)
  BY <1>2 DEF Rest
<1>7. (\A i \in 1 .. m : i # m => Rest(i)' = Rest(i)) /\ Rest(m) = Rest(m)' \cup {h}
  BY <1>3, <1>4, <1>6
<1>8. n \in Discovered /\ lowlinks \in [Discovered -> Nat] /\ indices \in [Discovered -> Nat]
  BY <1>4 DEF SccInv, WorkInv, StackInv, TypeOK, Discovered
<1>9. /\ lowlinks' \in [Discovered -> Nat]
      /\ \A x \in Discovered : x # n => lowlinks'[x] = lowlinks[x]
      /\ lowlinks'[n] <= lowlinks[n]
      /\ lowlinks'[n] = lowlinks[n] \/ (h \in onStack /\ lowlinks'[n] = indices[h])
      /\ h \in onStack => lowlinks'[n] <= indices[h]
  <2>1. CASE BackEdge
    <3>1. PICK v \in Nat : v = indices[h]
      BY <1>2, <1>8
    <3>2. h \in onStack /\ lowlinks' = Lowered(n, v)
      BY <1>1, <2>1, <3>1 DEF BackEdge
    <3>3. Lowers(n, v)
      BY <1>0, <1>8, <3>1, <3>2, LoweredFacts
    <3>. QED  BY <3>1, <3>2, <3>3 DEF Lowers
  <2>2. CASE CrossEdge
    <3>1. h \notin onStack /\ lowlinks' = lowlinks
      BY <1>1, <2>2 DEF CrossEdge
    <3>2. lowlinks[n] \in Nat
      BY <1>8
    <3>. QED  BY <1>8, <3>1, <3>2
  <2>. QED  BY <2>1, <2>2
<1>10. Advances(h, m)
  BY <1>1, <1>2, <1>3, <1>4, <1>5, <1>7, <1>9 DEF Advances
<1>. QED  BY <1>10

(* Following a call to a node that was discovered keeps the invariant.     *)
LEMMA AdvanceKeeps ==
    ASSUME SccInv, NEW h, NEW m, Advances(h, m)
    PROVE  SccInv'
<1>. USE DEF SccInv
<1>1. /\ m \in Nat \ {0} /\ m \in 1 .. m /\ Levels = 1 .. m /\ Levels' = 1 .. m
      /\ Len(work) = m /\ Len(work') = m /\ h \in Discovered
  BY DEF Advances, Levels
<1>2. /\ succ' = succ /\ starts' = starts /\ counter' = counter /\ indices' = indices
      /\ stack' = stack /\ onStack' = onStack /\ result' = result /\ Discovered' = Discovered
  BY DEF Advances, Discovered
<1>3. /\ Emitted' = Emitted /\ \A x : Callees(x)' = Callees(x) /\ Reachable(x)' = Reachable(x)
      /\ \A S : Abstract!Closed(S)' <=> Abstract!Closed(S)
  BY <1>2, SameCalls, SameEmitted
<1>4. /\ \A i \in 1 .. m : Open(i)' = Open(i) /\ Open(i) \in onStack /\ Rest(i)' \subseteq Rest(i)
      /\ \A i \in 1 .. m : \A y \in Rest(i) : y \in Rest(i)' \/ (i = m /\ y = h)
  BY <1>1 DEF Advances, WorkInv
<1>5. \A x \in onStack : x \in Discovered /\ x \in Nodes /\ lowlinks[x] \in Nat
                         /\ lowlinks'[x] \in Nat /\ indices[x] \in Nat /\ lowlinks'[x] <= lowlinks[x]
  <2>1. /\ onStack \subseteq Discovered /\ Discovered \subseteq Nodes
        /\ indices \in [Discovered -> Nat] /\ lowlinks \in [Discovered -> Nat]
    BY DEF StackInv, TypeOK, Discovered
  <2>2. /\ lowlinks' \in [Discovered -> Nat] /\ lowlinks'[Open(m)] <= lowlinks[Open(m)]
        /\ \A x \in Discovered : x # Open(m) => lowlinks'[x] = lowlinks[x]
    BY DEF Advances
  <2>. HIDE DEF SccInv
  <2>. QED  BY <2>1, <2>2
<1>6. \A i, j \in 1 .. m : i < j => indices[Open(i)] < indices[Open(j)]
  BY <1>1 DEF WorkInv
<1>7. TypeOK'
  BY <1>2 DEF TypeOK, Advances, WorkItem, Discovered
<1>8. StackInv'
  BY <1>2, <1>3 DEF StackInv
<1>9. WorkInv'
  <2>1. ASSUME NEW i \in 1 .. m PROVE Open(i)' \in onStack' /\ Rest(i)' \subseteq Callees(Open(i))'
    <3>. DEFINE o == Open(i)'
    <3>1. Callees(Open(i))' = Callees(o)
      BY <1>2 DEF Callees, Abstract!Callees
    <3>2. o = Open(i) /\ Rest(i) \subseteq Callees(Open(i))
      BY <1>1, <1>4 DEF WorkInv
    <3>. HIDE DEF o
    <3>3. Rest(i)' \subseteq Callees(o)
      BY <1>4, <3>2
    <3>. QED  BY <1>2, <1>4, <3>1, <3>3
  <2>2. \A i, j \in 1 .. m : i < j => indices'[Open(i)'] < indices'[Open(j)']
    BY <1>2, <1>4, <1>6
  <2>. QED  BY <1>1, <2>1, <2>2 DEF WorkInv
<1>10. CallsInv'
  <2>1. ASSUME NEW x \in Discovered', NEW y \in Callees(x)
        PROVE  y \in Discovered' \/ \E i \in 1 .. m : Open(i)' = x /\ y \in Rest(i)'
    <3>1. y \in Discovered \/ \E i \in 1 .. m : Open(i) = x /\ y \in Rest(i)
      BY <1>1, <1>2, <2>1 DEF CallsInv
    <3>. QED  BY <1>1, <1>2, <1>4, <3>1
  <2>2. Abstract!Closed(Emitted)
    BY DEF CallsInv
  <2>. QED  BY <1>1, <1>3, <2>1, <2>2 DEF CallsInv
<1>11. CyclesInv'
  <2>1. ASSUME NEW x \in onStack'
        PROVE  \E i \in 1 .. m : Open(i)' \in Reachable(x) /\ indices'[Open(i)'] <= indices'[x]
    <3>1. PICK i \in 1 .. m : Open(i) \in Reachable(x) /\ indices[Open(i)] <= indices[x]
      BY <1>1, <1>2, <2>1 DEF CyclesInv
    <3>. QED  BY <1>2, <1>4, <3>1
  <2>2. ASSUME NEW i \in 1 .. m, NEW x \in onStack', indices'[Open(i)'] <= indices'[x]
        PROVE  x \in Reachable(Open(i)')
    <3>1. x \in Reachable(Open(i))
      BY <1>1, <1>2, <1>4, <2>2 DEF CyclesInv
    <3>. QED  BY <1>4, <3>1
  <2>. QED  BY <1>1, <1>3, <2>1, <2>2 DEF CyclesInv
<1>12. LinksInv'
  <2>1. ASSUME NEW x \in onStack'
        PROVE  /\ lowlinks'[x] <= indices'[x]
               /\ \E y \in onStack' : indices'[y] = lowlinks'[x] /\ y \in Reachable(x)
    <3>1. x \in onStack /\ lowlinks[x] <= indices[x]
      BY <1>2, <2>1 DEF LinksInv
    <3>2. PICK y \in onStack : indices[y] = lowlinks[x] /\ y \in Reachable(x)
      BY <3>1 DEF LinksInv
    <3>3. lowlinks'[x] <= indices[x]
      BY <1>5, <3>1
    <3>4. CASE lowlinks'[x] = lowlinks[x]
      BY <1>2, <3>2, <3>3, <3>4
    <3>5. CASE x = Open(m) /\ h \in onStack /\ lowlinks'[x] = indices[h]
      <4>1. h \in Callees(x)
        BY <1>1, <3>5 DEF WorkInv, Advances
      <4>2. h \in Reachable(x)
        BY <1>5, <3>1, <4>1, ReachSelf, ReachCall
      <4>. QED  BY <1>2, <3>3, <3>5, <4>2
    <3>. QED  BY <1>5, <3>1, <3>4, <3>5 DEF Advances
  <2>. QED  BY <1>3, <2>1 DEF LinksInv
<1>13. CoverInv'
  <2>1. ASSUME NEW i \in 1 .. m, NEW x \in onStack', Belongs(x, i)', NEW y \in Callees(x), y \in onStack'
        PROVE  (x = Open(i)' /\ y \in Rest(i)') \/ lowlinks'[Open(i)'] <= indices'[y]
    <3>1. Belongs(x, i)
      <4>1. i < m => i + 1 \in 1 .. m
        BY <1>1
      <4>. QED  BY <1>1, <1>2, <1>4, <2>1, <4>1 DEF Belongs
    <3>2. x \in onStack /\ y \in onStack
      BY <1>2, <2>1
    <3>3. (x = Open(i) /\ y \in Rest(i)) \/ lowlinks[Open(i)] <= indices[y]
      BY <1>1, <2>1, <3>1, <3>2 DEF CoverInv
    <3>4. CASE x = Open(i) /\ y \in Rest(i)'
      BY <1>4, <3>4
    <3>5. CASE lowlinks[Open(i)] <= indices[y]
      BY <1>2, <1>4, <1>5, <3>2, <3>5
    <3>6. CASE i = m /\ y = h
      BY <1>2, <1>4, <3>2, <3>6 DEF Advances
    <3>. QED  BY <1>4, <3>3, <3>4, <3>5, <3>6
  <2>. QED  BY <1>1, <1>3, <2>1 DEF CoverInv
<1>14. StartsInv'
  BY <1>2 DEF StartsInv
<1>. QED  BY <1>7, <1>8, <1>9, <1>10, <1>11, <1>12, <1>13, <1>14

-----------------------------------------------------------------------------
(* CloseNode and CloseRoot: the open node on top has no calls left and is  *)
(* closed; the low link of the open node below takes over its own.         *)
Returns(n, m) ==
    /\ m \in Nat \ {0} /\ Len(work) = m /\ Len(work') = m - 1
    /\ n = Open(m) /\ Rest(m) = {}
    /\ work' \in Seq(WorkItem)
    /\ \A i \in 1 .. m - 1 : work'[i] = work[i]
    /\ UNCHANGED <<succ, starts, counter, indices>>
    /\ lowlinks' \in [Discovered -> Nat]
    /\ m = 1 => lowlinks' = lowlinks
    /\ m # 1 => Lowers(Open(m - 1), lowlinks[n])

LEMMA CloseReturns ==
    ASSUME SccInv, CloseNode \/ CloseRoot
    PROVE  Returns(Top.node, Len(work))
<1>0. TypeOK
  BY DEF SccInv
<1>1. PICK n, m, below : n = Top.node /\ m = Len(work) /\ below = SubSeq(work, 1, m - 1)
  OBVIOUS
<1>2. work # <<>> /\ Top.rest = <<>> /\ Return /\ UNCHANGED <<succ, starts, counter, indices>>
  BY DEF CloseNode, CloseRoot
<1>3. m \in Nat \ {0} /\ m \in Levels /\ Levels = 1 .. m /\ n = Open(m) /\ Elements(Top.rest) = Rest(m)
  BY <1>0, <1>1, <1>2, TopFacts DEF Levels
<1>4. work \in Seq(WorkItem)
  BY <1>0 DEF TypeOK, WorkItem
<1>5. below \in Seq(WorkItem) /\ Len(below) = m - 1 /\ \A i \in 1 .. m - 1 : below[i] = work[i]
  <2>. HIDE DEF WorkItem
  <2>. QED  BY <1>1, <1>3, <1>4
<1>6. work' = below /\ lowlinks' = IF below = <<>> THEN lowlinks
                                   ELSE Lowered(below[Len(below)].node, lowlinks[n])
  BY <1>1, <1>2 DEF Return
<1>7. Rest(m) = {}
  <2>1. Elements(<<>>) = {}
    BY DEF Elements
  <2>. QED  BY <1>2, <1>3, <2>1
<1>8. lowlinks \in [Discovered -> Nat] /\ n \in Discovered
  BY <1>0, <1>3 DEF SccInv, WorkInv, StackInv, TypeOK, Discovered
<1>9. m = 1 => lowlinks' = lowlinks
  BY <1>5, <1>6
<1>10. ASSUME m # 1 PROVE Lowers(Open(m - 1), lowlinks[n])
  <2>1. below # <<>> /\ m - 1 \in 1 .. m /\ m - 1 \in 1 .. m - 1
    BY <1>3, <1>5, <1>10
  <2>2. PICK k, v : k = Open(m - 1) /\ v = lowlinks[n]
    OBVIOUS
  <2>3. k \in Discovered /\ v \in Nat
    BY <1>3, <1>8, <2>1, <2>2 DEF SccInv, WorkInv, StackInv
  <2>4. lowlinks' = Lowered(k, v)
    BY <1>5, <1>6, <2>1, <2>2 DEF Open
  <2>5. Lowers(k, v)
    BY <1>0, <2>3, <2>4, LoweredFacts
  <2>. QED  BY <2>2, <2>5
<1>11. lowlinks' \in [Discovered -> Nat]
  BY <1>8, <1>9, <1>10 DEF Lowers
<1>12. Returns(n, m)
  BY <1>1, <1>2, <1>3, <1>5, <1>6, <1>7, <1>9, <1>10, <1>11 DEF Returns
<1>. QED  BY <1>1, <1>12

(* What holds in both cases.                                               *)
LEMMA ReturnFacts ==
    ASSUME SccInv, NEW n, NEW m, Returns(n, m)
    PROVE  /\ m \in Nat \ {0} /\ m \in 1 .. m /\ Levels = 1 .. m /\ Levels' = 1 .. m - 1
           /\ n = Open(m) /\ n \in onStack /\ Rest(m) = {}
           /\ \A i \in 1 .. m - 1 : /\ i \in 1 .. m /\ Open(i)' = Open(i) /\ Rest(i)' = Rest(i)
                                    /\ indices[Open(i)] < indices[n]
           /\ \A i \in 1 .. m : i \in 1 .. m - 1 \/ i = m
           /\ \A i \in 1 .. m : Open(i) \in onStack
           /\ \A x \in onStack : x \in Discovered /\ x \in Nodes /\ lowlinks[x] \in Nat
                                 /\ lowlinks'[x] \in Nat /\ indices[x] \in Nat
                                 /\ lowlinks'[x] <= lowlinks[x]
           /\ succ' = succ /\ indices' = indices /\ Discovered' = Discovered
           /\ counter' = counter /\ starts' = starts
           /\ \A x : Callees(x)' = Callees(x) /\ Reachable(x)' = Reachable(x)
           /\ \A S : Abstract!Closed(S)' <=> Abstract!Closed(S)
<1>1. /\ m \in Nat \ {0} /\ m \in 1 .. m /\ Levels = 1 .. m /\ Levels' = 1 .. m - 1
      /\ n = Open(m) /\ Rest(m) = {}
  BY DEF Returns, Levels
<1>2. \A i \in 1 .. m : (i \in 1 .. m - 1 \/ i = m) /\ Open(i) \in onStack
  BY <1>1 DEF SccInv, WorkInv
<1>3. \A i \in 1 .. m - 1 : i \in 1 .. m /\ i < m /\ Open(i)' = Open(i) /\ Rest(i)' = Rest(i)
  BY <1>1 DEF Returns, Open, Rest
<1>4. \A i \in 1 .. m - 1 : indices[Open(i)] < indices[n]
  BY <1>1, <1>3 DEF SccInv, WorkInv
<1>5. /\ onStack \subseteq Discovered /\ Discovered \subseteq Nodes
      /\ indices \in [Discovered -> Nat] /\ lowlinks \in [Discovered -> Nat]
  BY DEF SccInv, StackInv, TypeOK, Discovered
<1>6. lowlinks' \in [Discovered -> Nat] /\ \A x \in Discovered : lowlinks'[x] <= lowlinks[x]
  <2>1. \A x \in Discovered : lowlinks[x] \in Nat
    BY <1>5
  <2>2. CASE m = 1
    BY <1>5, <2>1, <2>2 DEF Returns
  <2>3. CASE m # 1
    BY <2>1, <2>3 DEF Returns, Lowers
  <2>. QED  BY <2>2, <2>3
<1>7. \A x \in onStack : x \in Discovered /\ x \in Nodes /\ lowlinks[x] \in Nat
                         /\ lowlinks'[x] \in Nat /\ indices[x] \in Nat
                         /\ lowlinks'[x] <= lowlinks[x]
  BY <1>5, <1>6
<1>8. /\ succ' = succ /\ indices' = indices /\ Discovered' = Discovered
      /\ counter' = counter /\ starts' = starts
  BY DEF Returns, Discovered
<1>9. /\ \A x : Callees(x)' = Callees(x) /\ Reachable(x)' = Reachable(x)
      /\ \A S : Abstract!Closed(S)' <=> Abstract!Closed(S)
  BY <1>8, SameCalls
<1>. QED  BY <1>1, <1>2, <1>3, <1>4, <1>7, <1>8, <1>9

(* What is left open is on the stack that is left.                         *)
LEMMA ReturnKeepsWork ==
    ASSUME SccInv, NEW n, NEW m, Returns(n, m), \A i \in 1 .. m - 1 : Open(i) \in onStack'
    PROVE  WorkInv' /\ StartsInv' /\ \A x \in Discovered' : \A y \in Callees(x) :
              y \in Discovered' \/ \E i \in 1 .. m - 1 : Open(i)' = x /\ y \in Rest(i)'
<1>1. /\ m \in Nat \ {0} /\ Levels = 1 .. m /\ Levels' = 1 .. m - 1 /\ Rest(m) = {}
      /\ \A i \in 1 .. m - 1 : i \in 1 .. m /\ Open(i)' = Open(i) /\ Rest(i)' = Rest(i)
      /\ \A i \in 1 .. m : i \in 1 .. m - 1 \/ i = m
      /\ succ' = succ /\ indices' = indices /\ Discovered' = Discovered /\ starts' = starts
  BY ReturnFacts
<1>2. ASSUME NEW i \in 1 .. m - 1 PROVE Open(i)' \in onStack' /\ Rest(i)' \subseteq Callees(Open(i))'
  <2>. DEFINE o == Open(i)'
  <2>1. Callees(Open(i))' = Callees(o)
    BY <1>1 DEF Callees, Abstract!Callees
  <2>2. o = Open(i) /\ Rest(i) \subseteq Callees(Open(i))
    BY <1>1 DEF SccInv, WorkInv
  <2>. HIDE DEF o
  <2>3. Rest(i)' \subseteq Callees(o)
    BY <1>1, <2>2
  <2>4. o \in onStack'
    BY <2>2
  <2>. QED  BY <2>1, <2>3, <2>4 DEF o
<1>3. \A i, j \in 1 .. m - 1 : i < j => indices'[Open(i)'] < indices'[Open(j)']
  BY <1>1 DEF SccInv, WorkInv
<1>4. WorkInv'
  BY <1>1, <1>2, <1>3 DEF WorkInv
<1>5. ASSUME NEW x \in Discovered', NEW y \in Callees(x), y \notin Discovered'
      PROVE  \E i \in 1 .. m - 1 : Open(i)' = x /\ y \in Rest(i)'
  <2>1. PICK i \in 1 .. m : Open(i) = x /\ y \in Rest(i)
    BY <1>1, <1>5 DEF SccInv, CallsInv
  <2>. QED  BY <1>1, <2>1
<1>6. StartsInv'
  BY <1>1 DEF SccInv, StartsInv
<1>. QED  BY <1>4, <1>5, <1>6

(* CloseNode: a node with a low link below its index has an older open     *)
(* node in its component, and waits on the stack for that one.             *)
LEMMA CloseNodeKeeps ==
    ASSUME SccInv, CloseNode
    PROVE  SccInv'
<1>1. PICK n, m : n = Top.node /\ m = Len(work)
  OBVIOUS
<1>2. Returns(n, m)
  BY <1>1, CloseReturns
<1>3. stack' = stack /\ onStack' = onStack /\ result' = result /\ lowlinks[n] # indices[n]
  BY <1>1 DEF CloseNode
<1>4. /\ m \in Nat \ {0} /\ m \in 1 .. m /\ Levels = 1 .. m /\ Levels' = 1 .. m - 1
      /\ n = Open(m) /\ n \in onStack /\ Rest(m) = {}
      /\ \A i \in 1 .. m - 1 : /\ i \in 1 .. m /\ Open(i)' = Open(i) /\ Rest(i)' = Rest(i)
                               /\ indices[Open(i)] < indices[n]
      /\ \A i \in 1 .. m : i \in 1 .. m - 1 \/ i = m
      /\ \A i \in 1 .. m : Open(i) \in onStack
      /\ \A x \in onStack : x \in Discovered /\ x \in Nodes /\ lowlinks[x] \in Nat
                            /\ lowlinks'[x] \in Nat /\ indices[x] \in Nat
                            /\ lowlinks'[x] <= lowlinks[x]
      /\ succ' = succ /\ indices' = indices /\ Discovered' = Discovered
      /\ counter' = counter /\ starts' = starts
  BY <1>2, ReturnFacts
<1>5. /\ \A x : Callees(x)' = Callees(x) /\ Reachable(x)' = Reachable(x)
      /\ \A S : Abstract!Closed(S)' <=> Abstract!Closed(S)
  BY <1>2, ReturnFacts
<1>6. Emitted' = Emitted
  BY <1>3, SameEmitted
<1>7. PICK k \in 1 .. m - 1 : Open(k) \in Reachable(n)
  <2>1. lowlinks[n] < indices[n]
    BY <1>3, <1>4 DEF SccInv, LinksInv
  <2>2. PICK y \in onStack : indices[y] = lowlinks[n] /\ y \in Reachable(n)
    BY <1>4 DEF SccInv, LinksInv
  <2>3. PICK i \in 1 .. m : Open(i) \in Reachable(y) /\ indices[Open(i)] <= indices[y]
    BY <1>4 DEF SccInv, CyclesInv
  <2>4. i # m
    BY <1>4, <2>1, <2>2, <2>3
  <2>5. Open(i) \in Reachable(n)
    BY <2>2, <2>3, ReachTrans
  <2>. QED  BY <1>4, <2>4, <2>5
<1>8. TypeOK'
  BY <1>2, <1>3, <1>4 DEF SccInv, TypeOK, Returns, WorkItem, Discovered
<1>9. StackInv'
  BY <1>3, <1>4, <1>6 DEF SccInv, StackInv
<1>10. /\ WorkInv' /\ StartsInv'
       /\ \A x \in Discovered' : \A y \in Callees(x) :
            y \in Discovered' \/ \E i \in 1 .. m - 1 : Open(i)' = x /\ y \in Rest(i)'
  BY <1>2, <1>3, <1>4, ReturnKeepsWork
<1>11. CallsInv'
  <2>1. Abstract!Closed(Emitted)
    BY DEF SccInv, CallsInv
  <2>. QED  BY <1>4, <1>5, <1>6, <1>10, <2>1 DEF CallsInv
<1>12. CyclesInv'
  <2>1. ASSUME NEW x \in onStack'
        PROVE  \E i \in 1 .. m - 1 : Open(i)' \in Reachable(x) /\ indices'[Open(i)'] <= indices'[x]
    <3>1. PICK i \in 1 .. m : Open(i) \in Reachable(x) /\ indices[Open(i)] <= indices[x]
      BY <1>3, <1>4, <2>1 DEF SccInv, CyclesInv
    <3>2. CASE i \in 1 .. m - 1
      BY <1>4, <3>1, <3>2
    <3>3. CASE i = m
      <4>1. n \in Reachable(x) /\ indices[n] <= indices[x]
        BY <1>4, <3>1, <3>3
      <4>2. Open(k) \in Reachable(x)
        BY <1>7, <4>1, ReachTrans
      <4>3. indices[Open(k)] <= indices[x]
        <5>1. /\ indices[Open(k)] < indices[n] /\ x \in onStack
              /\ Open(k) \in onStack /\ n \in onStack
          BY <1>3, <1>4, <1>7, <2>1
        <5>2. indices[Open(k)] \in Nat /\ indices[n] \in Nat /\ indices[x] \in Nat
          BY <1>4, <5>1
        <5>. QED  BY <4>1, <5>1, <5>2
      <4>. QED  BY <1>4, <1>7, <4>2, <4>3
    <3>. QED  BY <1>4, <3>2, <3>3
  <2>2. ASSUME NEW i \in 1 .. m - 1, NEW x \in onStack', indices'[Open(i)'] <= indices'[x]
        PROVE  x \in Reachable(Open(i)')
    <3>1. x \in Reachable(Open(i))
      BY <1>3, <1>4, <2>2 DEF SccInv, CyclesInv
    <3>. QED  BY <1>4, <3>1
  <2>. QED  BY <1>4, <1>5, <2>1, <2>2 DEF CyclesInv
<1>13. m # 1
  BY <1>4, <1>7
<1>14. PICK p : p = Open(m - 1)
  OBVIOUS
<1>15. /\ m - 1 \in 1 .. m - 1 /\ m - 1 \in 1 .. m /\ p \in onStack /\ indices[p] < indices[n]
       /\ lowlinks'[p] \in {lowlinks[p], lowlinks[n]} /\ lowlinks'[p] <= lowlinks[n]
       /\ \A x \in onStack : x # p => lowlinks'[x] = lowlinks[x]
       /\ indices[p] \in Nat /\ indices[n] \in Nat
  <2>1. m - 1 \in 1 .. m - 1
    BY <1>4, <1>13
  <2>. QED  BY <1>2, <1>4, <1>13, <1>14, <2>1 DEF Returns, Lowers
<1>16. LinksInv'
  <2>1. ASSUME NEW x \in onStack'
        PROVE  /\ lowlinks'[x] <= indices'[x]
               /\ \E y \in onStack' : indices'[y] = lowlinks'[x] /\ y \in Reachable(x)
    <3>1. x \in onStack /\ lowlinks[x] <= indices[x]
      BY <1>3, <2>1 DEF SccInv, LinksInv
    <3>2. PICK y \in onStack : indices[y] = lowlinks[x] /\ y \in Reachable(x)
      BY <3>1 DEF SccInv, LinksInv
    <3>3. lowlinks'[x] <= indices[x]
      BY <1>4, <3>1
    <3>4. CASE lowlinks'[x] = lowlinks[x]
      BY <1>3, <1>4, <3>2, <3>3, <3>4
    <3>5. CASE x = p /\ lowlinks'[x] = lowlinks[n]
      <4>1. PICK z \in onStack : indices[z] = lowlinks[n] /\ z \in Reachable(n)
        BY <1>4 DEF SccInv, LinksInv
      <4>2. indices[p] <= indices[n]
        BY <1>15
      <4>3. n \in Reachable(p)
        BY <1>4, <1>14, <1>15, <4>2 DEF SccInv, CyclesInv
      <4>4. z \in Reachable(p)
        BY <4>1, <4>3, ReachTrans
      <4>. QED  BY <1>3, <1>4, <3>3, <3>5, <4>1, <4>4
    <3>. QED  BY <1>15, <3>1, <3>4, <3>5
  <2>. QED  BY <1>5, <2>1 DEF LinksInv
<1>17. CoverInv'
  <2>1. ASSUME NEW i \in 1 .. m - 1, NEW x \in onStack', Belongs(x, i)', NEW y \in Callees(x), y \in onStack'
        PROVE  (x = Open(i)' /\ y \in Rest(i)') \/ lowlinks'[Open(i)'] <= indices'[y]
    <3>1. /\ x \in onStack /\ y \in onStack /\ Open(i)' = Open(i) /\ Rest(i)' = Rest(i)
          /\ i \in 1 .. m /\ Open(i) \in onStack
      BY <1>3, <1>4, <2>1
    <3>2. /\ indices[x] \in Nat /\ indices[y] \in Nat /\ lowlinks[Open(i)] \in Nat
          /\ lowlinks'[Open(i)] \in Nat /\ lowlinks'[Open(i)] <= lowlinks[Open(i)]
      BY <1>4, <3>1
    <3>3. /\ indices[Open(i)] <= indices[x]
          /\ i < m - 1 => indices[x] < indices[Open(i + 1)]
      <4>1. Len(work') = m - 1
        BY <1>2 DEF Returns
      <4>2. i < m - 1 => i + 1 \in 1 .. m - 1
        BY <1>4
      <4>. QED  BY <1>4, <2>1, <4>1, <4>2 DEF Belongs
    <3>4. CASE Belongs(x, i)
      <4>1. (x = Open(i) /\ y \in Rest(i)) \/ lowlinks[Open(i)] <= indices[y]
        BY <1>4, <2>1, <3>1, <3>4 DEF SccInv, CoverInv
      <4>. QED  BY <1>4, <3>1, <3>2, <4>1
    <3>5. CASE i = m - 1 /\ ~ (indices[x] < indices[n])
      <4>1. Belongs(x, m)
        <5>1. Len(work) = m /\ ~ (m < m)
          BY <1>2, <1>4 DEF Returns
        <5>. QED  BY <1>4, <1>15, <3>2, <3>5, <5>1 DEF Belongs
      <4>2. lowlinks[n] <= indices[y]
        BY <1>4, <2>1, <3>1, <4>1 DEF SccInv, CoverInv
      <4>3. lowlinks'[Open(i)] <= lowlinks[n] /\ lowlinks[n] \in Nat
        BY <1>4, <1>14, <1>15, <3>5
      <4>4. lowlinks'[Open(i)] <= indices[y]
        BY <3>2, <4>2, <4>3
      <4>. QED  BY <1>4, <3>1, <4>4
    <3>6. i < m - 1 \/ i = m - 1
      BY <1>4
    <3>7. i = m - 1 => i + 1 = m
      BY <1>4
    <3>8. Len(work) = m
      BY <1>2 DEF Returns
    <3>. QED  BY <1>4, <3>3, <3>4, <3>5, <3>6, <3>7, <3>8 DEF Belongs
  <2>. QED  BY <1>4, <1>5, <2>1 DEF CoverInv
<1>. QED  BY <1>8, <1>9, <1>10, <1>11, <1>12, <1>16, <1>17 DEF SccInv

-----------------------------------------------------------------------------
(* CloseRoot gives out what is on the stack from its root on ...           *)
From(n) == {x \in onStack : indices[n] <= indices[x]}

LEMMA PoppedFacts ==
    ASSUME SccInv, NEW n \in onStack, NEW p, p = Popped(n)
    PROVE  /\ p.kept \in Seq(Nodes) /\ p.scc \in Seq(Nodes)
           /\ Elements(p.kept) = onStack \ From(n)
           /\ {p.scc[i] : i \in 1 .. Len(p.scc)} = From(n)
           /\ \A i, j \in 1 .. Len(p.kept) : i < j => indices[p.kept[i]] < indices[p.kept[j]]
<1>. DEFINE size == Len(stack)
            at == CHOOSE i \in 1 .. size : stack[i] = n
<1>1. /\ stack \in Seq(Nodes) /\ size \in Nat /\ DOMAIN stack = 1 .. size
      /\ \A i \in 1 .. size : stack[i] \in Nodes
      /\ onStack = {stack[i] : i \in 1 .. size}
      /\ \A i, j \in 1 .. size : i < j => indices[stack[i]] < indices[stack[j]]
  BY InSeq DEF SccInv, TypeOK, StackInv, Elements
<1>2. \A x \in onStack : indices[x] \in Nat
  BY DEF SccInv, TypeOK, StackInv, Discovered
<1>3. at \in 1 .. size /\ stack[at] = n
  <2>1. \E i \in 1 .. size : stack[i] = n
    BY <1>1
  <2>. HIDE DEF size
  <2>. QED  BY <2>1
<1>4. p.kept = SubSeq(stack, 1, at - 1) /\ p.scc = [i \in 1 .. size - at + 1 |-> stack[size + 1 - i]]
  BY DEF Popped
<1>. HIDE DEF at
<1>5. p.kept \in Seq(Nodes) /\ Len(p.kept) = at - 1 /\ \A i \in 1 .. at - 1 : p.kept[i] = stack[i]
  BY <1>1, <1>3, <1>4
<1>. HIDE DEF size
<1>6. /\ \A i \in 1 .. size - at + 1 : size + 1 - i \in 1 .. size /\ at <= size + 1 - i
      /\ \A j \in 1 .. size : at <= j => size + 1 - j \in 1 .. size - at + 1 /\ size + 1 - (size + 1 - j) = j
      /\ size - at + 1 \in Nat
  BY <1>1, <1>3
<1>7. p.scc \in Seq(Nodes) /\ Len(p.scc) = size - at + 1
  BY <1>1, <1>4, <1>6
<1>8. \A j \in 1 .. size : at <= j <=> indices[n] <= indices[stack[j]]
  <2>. SUFFICES ASSUME NEW j \in 1 .. size PROVE at <= j <=> indices[n] <= indices[stack[j]]
    OBVIOUS
  <2>1. stack[j] \in onStack /\ indices[stack[j]] \in Nat /\ indices[n] \in Nat
    BY <1>1, <1>2
  <2>2. CASE at < j
    BY <1>1, <1>3, <2>1, <2>2
  <2>3. CASE at = j
    BY <1>3, <2>1, <2>3
  <2>4. CASE j < at
    BY <1>1, <1>3, <2>1, <2>4
  <2>. QED  BY <1>1, <1>3, <2>2, <2>3, <2>4
<1>9. From(n) = {stack[j] : j \in {k \in 1 .. size : at <= k}}
  BY <1>1, <1>8 DEF From
<1>10. {p.scc[i] : i \in 1 .. Len(p.scc)} = From(n)
  <2>1. ASSUME NEW i \in 1 .. Len(p.scc) PROVE p.scc[i] \in From(n)
    BY <1>4, <1>6, <1>7, <1>9
  <2>2. ASSUME NEW x \in From(n) PROVE x \in {p.scc[i] : i \in 1 .. Len(p.scc)}
    <3>1. PICK j \in 1 .. size : at <= j /\ x = stack[j]
      BY <1>9
    <3>2. PICK i \in 1 .. size - at + 1 : size + 1 - i = j
      BY <1>6, <3>1
    <3>3. p.scc[i] = x
      BY <1>4, <3>1, <3>2
    <3>. QED  BY <1>7, <3>3
  <2>. QED  BY <2>1, <2>2
<1>11. \A i \in 1 .. at - 1 : i \in 1 .. size /\ ~ (at <= i)
  BY <1>1, <1>3
<1>12. \A j \in 1 .. size : ~ (at <= j) => j \in 1 .. at - 1
  BY <1>1, <1>3
<1>13. Elements(p.kept) = onStack \ From(n)
  <2>1. Elements(p.kept) = {stack[i] : i \in 1 .. at - 1}
    <3>1. DOMAIN p.kept = 1 .. at - 1
      BY <1>5
    <3>. QED  BY <1>5, <3>1 DEF Elements
  <2>2. \A i \in 1 .. at - 1 : stack[i] \in onStack \ From(n)
    BY <1>1, <1>8, <1>11 DEF From
  <2>3. \A x \in onStack \ From(n) : \E i \in 1 .. at - 1 : x = stack[i]
    BY <1>1, <1>9, <1>12
  <2>. QED  BY <2>1, <2>2, <2>3
<1>14. \A i, j \in 1 .. Len(p.kept) : i < j => indices[p.kept[i]] < indices[p.kept[j]]
  BY <1>1, <1>5, <1>11
<1>. QED  BY <1>5, <1>7, <1>10, <1>13, <1>14

(* ... and that is the component of the root: the calls of its members do  *)
(* not lead to older nodes on the stack.                                   *)
LEMMA FromIsComponent ==
    ASSUME SccInv, NEW n, NEW m, Returns(n, m), lowlinks[n] = indices[n]
    PROVE  /\ From(n) = Abstract!Component(n) /\ n \in From(n)
           /\ \A x \in From(n) : Callees(x) \subseteq From(n) \cup Emitted
           /\ Abstract!Closed(From(n) \cup Emitted)
<1>1. /\ m \in Nat \ {0} /\ m \in 1 .. m /\ Levels = 1 .. m
      /\ n = Open(m) /\ n \in onStack /\ Rest(m) = {}
      /\ \A i \in 1 .. m - 1 : i \in 1 .. m /\ indices[Open(i)] < indices[n]
      /\ \A i \in 1 .. m : i \in 1 .. m - 1 \/ i = m
      /\ \A i \in 1 .. m : Open(i) \in onStack
      /\ \A x \in onStack : x \in Discovered /\ x \in Nodes /\ indices[x] \in Nat
  BY ReturnFacts
<1>2. Len(work) = m /\ ~ (m < m)
  BY <1>1 DEF Returns
<1>3. n \in From(n)
  BY <1>1 DEF From
<1>4. TypeOK
  BY DEF SccInv
<1>5. ASSUME NEW x \in From(n) PROVE Callees(x) \subseteq From(n) \cup Emitted
  <2>. SUFFICES ASSUME NEW y \in Callees(x), y \notin Emitted PROVE y \in From(n)
    OBVIOUS
  <2>1. x \in onStack /\ indices[n] <= indices[x] /\ indices[x] \in Nat /\ indices[n] \in Nat
    BY <1>1 DEF From
  <2>2. y \in Discovered
    <3>1. ASSUME NEW i \in 1 .. m, Open(i) = x, y \in Rest(i) PROVE FALSE
      <4>1. CASE i = m
        BY <1>1, <3>1, <4>1
      <4>2. CASE i \in 1 .. m - 1
        BY <1>1, <2>1, <3>1, <4>2
      <4>. QED  BY <1>1, <4>1, <4>2
    <3>. QED  BY <1>1, <2>1, <3>1 DEF SccInv, CallsInv
  <2>3. y \in onStack
    BY <2>2 DEF SccInv, StackInv
  <2>4. Belongs(x, m)
    BY <1>1, <1>2, <2>1 DEF Belongs
  <2>5. lowlinks[n] <= indices[y]
    BY <1>1, <2>1, <2>3, <2>4 DEF SccInv, CoverInv
  <2>. QED  BY <2>3, <2>5 DEF From
<1>6. Abstract!Closed(From(n) \cup Emitted)
  <2>1. \A x \in Emitted : Callees(x) \subseteq Emitted
    BY DEF SccInv, CallsInv, Abstract!Closed, Callees
  <2>. QED  BY <1>5, <2>1 DEF Abstract!Closed, Callees
<1>7. From(n) \cup Emitted \subseteq Nodes
  BY DEF From, SccInv, StackInv, TypeOK, Discovered
<1>8. ASSUME NEW x \in Abstract!Component(n) PROVE x \in From(n)
  <2>1. x \in Reachable(n) /\ n \in Reachable(x)
    BY <1>8 DEF Abstract!Component, Reachable
  <2>2. x \in From(n) \cup Emitted
    <3>. DEFINE S == From(n) \cup Emitted
    <3>1. S \in SUBSET Nodes /\ Abstract!Closed(S) /\ n \in S
      BY <1>3, <1>6, <1>7
    <3>. HIDE DEF S
    <3>2. x \in S
      BY <2>1, <3>1, ReachWithin
    <3>. QED  BY <3>2 DEF S
  <2>3. ASSUME x \in Emitted PROVE FALSE
    <3>1. Emitted \in SUBSET Nodes /\ Abstract!Closed(Emitted)
      BY <1>7 DEF SccInv, CallsInv
    <3>2. n \in Emitted
      BY <2>1, <2>3, <3>1, ReachWithin
    <3>. QED  BY <1>1, <3>2 DEF SccInv, StackInv
  <2>. QED  BY <2>2, <2>3
<1>9. ASSUME NEW x \in From(n) PROVE x \in Abstract!Component(n)
  <2>1. x \in onStack /\ indices[n] <= indices[x]
    BY DEF From
  <2>2. x \in Reachable(n)
    BY <1>1, <2>1 DEF SccInv, CyclesInv
  <2>3. PICK i \in 1 .. m : Open(i) \in Reachable(x)
    BY <1>1, <2>1 DEF SccInv, CyclesInv
  <2>4. Open(i) \in onStack /\ indices[Open(i)] <= indices[n]
    BY <1>1
  <2>5. n \in Reachable(Open(i))
    BY <1>1, <2>4 DEF SccInv, CyclesInv
  <2>6. n \in Reachable(x)
    BY <2>3, <2>5, ReachTrans
  <2>. QED  BY <2>2, <2>6 DEF Abstract!Component, Reachable
<1>. QED  BY <1>3, <1>5, <1>6, <1>8, <1>9

LEMMA RootGivenOut ==
    ASSUME SccInv, CloseRoot, NEW n, n = Top.node
    PROVE  /\ Returns(n, Len(work)) /\ lowlinks[n] = indices[n]
           /\ stack' \in Seq(Nodes) /\ onStack' = onStack \ From(n) /\ onStack' = Elements(stack')
           /\ \A i, j \in 1 .. Len(stack') : i < j => indices[stack'[i]] < indices[stack'[j]]
           /\ Emitted' = Emitted \cup From(n)
           /\ result' \in Seq(Seq(Nodes)) /\ Len(result) \in Nat
           /\ Len(result') = Len(result) + 1
           /\ \A i \in 1 .. Len(result) : result'[i] = result[i]
           /\ Abstract!Members(result'[Len(result) + 1]) = From(n)
<1>1. Returns(n, Len(work))
  BY CloseReturns
<1>2. n \in onStack
  BY <1>1, ReturnFacts
<1>3. PICK p : p = Popped(n)
  OBVIOUS
<1>4. /\ stack' = p.kept /\ result' = Append(result, p.scc)
      /\ onStack' = onStack \ {p.scc[i] : i \in 1 .. Len(p.scc)}
      /\ lowlinks[n] = indices[n]
  BY <1>3 DEF CloseRoot
<1>5. /\ p.kept \in Seq(Nodes) /\ p.scc \in Seq(Nodes)
      /\ Elements(p.kept) = onStack \ From(n)
      /\ {p.scc[i] : i \in 1 .. Len(p.scc)} = From(n)
      /\ \A i, j \in 1 .. Len(p.kept) : i < j => indices[p.kept[i]] < indices[p.kept[j]]
  BY <1>2, <1>3, PoppedFacts
<1>6. PICK scc : scc = p.scc
  OBVIOUS
<1>7. result \in Seq(Seq(Nodes)) /\ Len(result) \in Nat
  BY DEF SccInv, TypeOK
<1>8. /\ result' \in Seq(Seq(Nodes)) /\ Len(result') = Len(result) + 1
      /\ \A i \in 1 .. Len(result) : result'[i] = result[i]
      /\ result'[Len(result) + 1] = scc
  <2>. DEFINE T == Seq(Nodes)
  <2>1. result \in Seq(T) /\ scc \in T /\ result' = Append(result, scc)
    BY <1>4, <1>5, <1>6, <1>7
  <2>. HIDE DEF T
  <2>2. /\ result' \in Seq(T) /\ Len(result') = Len(result) + 1
        /\ \A i \in 1 .. Len(result) : result'[i] = result[i]
        /\ result'[Len(result) + 1] = scc
    BY <2>1, AppendInSeq
  <2>. QED  BY <2>2 DEF T
<1>9. Abstract!Members(scc) = From(n)
  BY <1>5, <1>6 DEF Abstract!Members
<1>10. Emitted' = Emitted \cup From(n)
  <2>1. Emitted' = UNION {Abstract!Members(result'[i]) : i \in 1 .. Len(result) + 1}
    BY <1>8 DEF Emitted, Abstract!Emitted, Abstract!Members
  <2>2. Emitted = UNION {Abstract!Members(result[i]) : i \in 1 .. Len(result)}
    BY DEF Emitted, Abstract!Emitted
  <2>3. \A i \in 1 .. Len(result) + 1 : i \in 1 .. Len(result) \/ i = Len(result) + 1
    BY <1>7
  <2>4. Len(result) + 1 \in 1 .. Len(result) + 1 /\ \A i \in 1 .. Len(result) : i \in 1 .. Len(result) + 1
    BY <1>7
  <2>5. \A i \in 1 .. Len(result) : Abstract!Members(result'[i]) = Abstract!Members(result[i])
    BY <1>8
  <2>6. Abstract!Members(result'[Len(result) + 1]) = From(n)
    BY <1>8, <1>9
  <2>. QED  BY <2>1, <2>2, <2>3, <2>4, <2>5, <2>6
<1>. QED  BY <1>1, <1>4, <1>5, <1>7, <1>8, <1>9, <1>10

(* What is given out is one component, new, and calls what was given out.  *)
LEMMA RootEmits ==
    ASSUME SccInv, CloseRoot
    PROVE  Abstract!Emit
<1>1. PICK n, m : n = Top.node /\ m = Len(work)
  OBVIOUS
<1>2. /\ Returns(n, m) /\ lowlinks[n] = indices[n]
      /\ Len(result) \in Nat /\ Len(result') = Len(result) + 1
      /\ \A i \in 1 .. Len(result) : result'[i] = result[i]
      /\ Abstract!Members(result'[Len(result) + 1]) = From(n)
  BY <1>1, RootGivenOut
<1>3. /\ From(n) = Abstract!Component(n) /\ n \in From(n)
      /\ \A x \in From(n) : Callees(x) \subseteq From(n) \cup Emitted
  BY <1>2, FromIsComponent
<1>4. n \in Nodes \ Emitted
  BY <1>3 DEF From, SccInv, StackInv, TypeOK
<1>5. succ' = succ
  BY <1>2 DEF Returns
<1>6. \A x \in Abstract!Component(n) : Abstract!Callees(x) \subseteq Abstract!Emitted \cup Abstract!Component(n)
  BY <1>3 DEF Callees, Emitted
<1>7. n \in Nodes \ Abstract!Emitted
  BY <1>4 DEF Emitted
<1>8. Abstract!Members(result'[Len(result')]) = Abstract!Component(n)
  BY <1>2, <1>3
<1>. QED  BY <1>2, <1>5, <1>6, <1>7, <1>8 DEF Abstract!Emit

LEMMA CloseRootKeeps ==
    ASSUME SccInv, CloseRoot
    PROVE  SccInv'
<1>1. PICK n, m : n = Top.node /\ m = Len(work)
  OBVIOUS
<1>2. /\ Returns(n, m) /\ lowlinks[n] = indices[n]
      /\ stack' \in Seq(Nodes) /\ onStack' = onStack \ From(n) /\ onStack' = Elements(stack')
      /\ \A i, j \in 1 .. Len(stack') : i < j => indices[stack'[i]] < indices[stack'[j]]
      /\ Emitted' = Emitted \cup From(n)
      /\ result' \in Seq(Seq(Nodes))
  BY <1>1, RootGivenOut
<1>3. Abstract!Closed(From(n) \cup Emitted)
  BY <1>2, FromIsComponent
<1>4. /\ m \in Nat \ {0} /\ m \in 1 .. m /\ Levels = 1 .. m /\ Levels' = 1 .. m - 1
      /\ n = Open(m) /\ n \in onStack
      /\ \A i \in 1 .. m - 1 : /\ i \in 1 .. m /\ Open(i)' = Open(i) /\ Rest(i)' = Rest(i)
                               /\ indices[Open(i)] < indices[n]
      /\ \A i \in 1 .. m : i \in 1 .. m - 1 \/ i = m
      /\ \A i \in 1 .. m : Open(i) \in onStack
      /\ \A x \in onStack : x \in Discovered /\ x \in Nodes /\ lowlinks[x] \in Nat
                            /\ lowlinks'[x] \in Nat /\ indices[x] \in Nat
                            /\ lowlinks'[x] <= lowlinks[x]
      /\ succ' = succ /\ indices' = indices /\ Discovered' = Discovered
      /\ counter' = counter /\ starts' = starts
  BY <1>2, ReturnFacts
<1>5. /\ \A x : Callees(x)' = Callees(x) /\ Reachable(x)' = Reachable(x)
      /\ \A S : Abstract!Closed(S)' <=> Abstract!Closed(S)
  BY <1>2, ReturnFacts
<1>6. \A x \in onStack : x \in onStack' <=> indices[x] < indices[n]
  BY <1>2, <1>4 DEF From
<1>7. /\ \A i \in 1 .. m - 1 : Open(i) \in onStack'
      /\ onStack' \subseteq onStack
  BY <1>2, <1>4, <1>6
<1>8. \A x \in onStack' : lowlinks'[x] = lowlinks[x]
  <2>1. CASE m = 1
    BY <1>2, <2>1 DEF Returns
  <2>2. CASE m # 1
    <3>1. PICK p : p = Open(m - 1)
      OBVIOUS
    <3>2. m - 1 \in 1 .. m - 1
      BY <1>4, <2>2
    <3>3. p \in onStack /\ indices[p] < indices[n] /\ lowlinks[p] <= indices[p]
      BY <1>4, <3>1, <3>2 DEF SccInv, LinksInv
    <3>4. /\ lowlinks'[p] \in {lowlinks[p], lowlinks[n]} /\ lowlinks'[p] <= lowlinks[p]
          /\ \A x \in Discovered : x # p => lowlinks'[x] = lowlinks[x]
      BY <1>2, <2>2, <3>1 DEF Returns, Lowers
    <3>5. lowlinks'[p] = lowlinks[p]
      <4>1. lowlinks[p] \in Nat /\ indices[p] \in Nat /\ indices[n] \in Nat
        BY <1>4, <3>3
      <4>. QED  BY <1>2, <3>3, <3>4, <4>1
    <3>. QED  BY <1>4, <1>7, <3>4, <3>5
  <2>. QED  BY <2>1, <2>2
<1>9. TypeOK'
  <2>1. onStack' \subseteq Nodes
    BY <1>4, <1>7
  <2>. QED  BY <1>2, <1>4, <2>1 DEF SccInv, TypeOK, Returns, WorkItem, Discovered
<1>10. StackInv'
  <2>1. Discovered = onStack' \cup Emitted' /\ onStack' \cap Emitted' = {}
    BY <1>2 DEF SccInv, StackInv, From
  <2>. QED  BY <1>2, <1>4, <2>1 DEF SccInv, StackInv
<1>11. /\ WorkInv' /\ StartsInv'
       /\ \A x \in Discovered' : \A y \in Callees(x) :
            y \in Discovered' \/ \E i \in 1 .. m - 1 : Open(i)' = x /\ y \in Rest(i)'
  BY <1>2, <1>7, ReturnKeepsWork
<1>12. CallsInv'
  <2>1. Abstract!Closed(Emitted')
    BY <1>2, <1>3 DEF Abstract!Closed
  <2>2. Abstract!Closed(Emitted)'
    <3>. DEFINE e == Emitted'
    <3>1. Abstract!Closed(Emitted)' <=> Abstract!Closed(e)
      BY <1>4 DEF Abstract!Closed, Abstract!Callees
    <3>. QED  BY <2>1, <3>1
  <2>. QED  BY <1>4, <1>5, <1>11, <2>2 DEF CallsInv
<1>13. CyclesInv'
  <2>1. ASSUME NEW x \in onStack'
        PROVE  \E i \in 1 .. m - 1 : Open(i)' \in Reachable(x) /\ indices'[Open(i)'] <= indices'[x]
    <3>1. PICK i \in 1 .. m : Open(i) \in Reachable(x) /\ indices[Open(i)] <= indices[x]
      BY <1>4, <1>7, <2>1 DEF SccInv, CyclesInv
    <3>2. i # m
      BY <1>4, <1>6, <1>7, <2>1, <3>1
    <3>. QED  BY <1>4, <3>1, <3>2
  <2>2. ASSUME NEW i \in 1 .. m - 1, NEW x \in onStack', indices'[Open(i)'] <= indices'[x]
        PROVE  x \in Reachable(Open(i)')
    <3>1. x \in Reachable(Open(i))
      BY <1>4, <1>7, <2>2 DEF SccInv, CyclesInv
    <3>. QED  BY <1>4, <3>1
  <2>. QED  BY <1>4, <1>5, <2>1, <2>2 DEF CyclesInv
<1>14. LinksInv'
  <2>1. ASSUME NEW x \in onStack'
        PROVE  /\ lowlinks'[x] <= indices'[x]
               /\ \E y \in onStack' : indices'[y] = lowlinks'[x] /\ y \in Reachable(x)
    <3>1. x \in onStack /\ lowlinks[x] <= indices[x] /\ indices[x] < indices[n]
      BY <1>6, <1>7, <2>1 DEF SccInv, LinksInv
    <3>2. PICK y \in onStack : indices[y] = lowlinks[x] /\ y \in Reachable(x)
      BY <3>1 DEF SccInv, LinksInv
    <3>3. indices[y] < indices[n]
      BY <1>4, <3>1, <3>2
    <3>4. y \in onStack'
      BY <1>6, <3>3
    <3>. QED  BY <1>4, <1>8, <2>1, <3>1, <3>2, <3>4
  <2>. QED  BY <1>5, <2>1 DEF LinksInv
<1>15. CoverInv'
  <2>1. ASSUME NEW i \in 1 .. m - 1, NEW x \in onStack', Belongs(x, i)', NEW y \in Callees(x), y \in onStack'
        PROVE  (x = Open(i)' /\ y \in Rest(i)') \/ lowlinks'[Open(i)'] <= indices'[y]
    <3>1. /\ x \in onStack /\ y \in onStack /\ Open(i)' = Open(i) /\ Rest(i)' = Rest(i)
          /\ i \in 1 .. m /\ Open(i) \in onStack' /\ indices[x] < indices[n]
      BY <1>4, <1>6, <1>7, <2>1
    <3>2. Belongs(x, i)
      <4>1. Len(work) = m /\ Len(work') = m - 1
        BY <1>2 DEF Returns
      <4>2. i < m - 1 => i + 1 \in 1 .. m - 1
        BY <1>4
      <4>3. indices[Open(i)] <= indices[x] /\ (i < m - 1 => indices[x] < indices[Open(i + 1)])
        BY <1>4, <2>1, <4>1, <4>2 DEF Belongs
      <4>4. i < m - 1 \/ i + 1 = m
        BY <1>4
      <4>. QED  BY <1>4, <3>1, <4>1, <4>3, <4>4 DEF Belongs
    <3>3. (x = Open(i) /\ y \in Rest(i)) \/ lowlinks[Open(i)] <= indices[y]
      BY <1>4, <2>1, <3>1, <3>2 DEF SccInv, CoverInv
    <3>. QED  BY <1>4, <1>8, <3>1, <3>3
  <2>. QED  BY <1>4, <1>5, <2>1 DEF CoverInv
<1>. QED  BY <1>9, <1>10, <1>11, <1>12, <1>13, <1>14, <1>15 DEF SccInv

-----------------------------------------------------------------------------
(* The invariant holds at the start, and every step keeps it.              *)
LEMMA InitScc == Init => SccInv
<1>. SUFFICES ASSUME Init PROVE SccInv
  OBVIOUS
<1>1. /\ succ \in [Nodes -> Seq(Nodes)] /\ starts \in Seq(Nodes)
      /\ \A n \in Nodes : n \in Elements(starts)
  <2>1. \A n \in Nodes : \E i \in DOMAIN Sorted : Sorted[i] = n
    <3>1. DOMAIN Sorted = 1 .. Len(Sorted)
      BY SccAssumption, InSeq
    <3>. QED  BY <3>1, SccAssumption
  <2>. QED  BY <2>1, SccAssumption DEF Init, Elements
<1>2. /\ counter = 0 /\ DOMAIN indices = {} /\ indices \in [{} -> Nat] /\ lowlinks \in [{} -> Nat]
      /\ stack = <<>> /\ Len(stack) = 0 /\ onStack = {} /\ work = <<>> /\ Len(work) = 0
      /\ result = <<>> /\ Len(result) = 0 /\ 1 .. 0 = {}
  BY DEF Init
<1>3. TypeOK
  BY <1>1, <1>2 DEF TypeOK
<1>4. Elements(stack) = {} /\ Emitted = {} /\ Discovered = {} /\ Levels = {}
  BY <1>2 DEF Elements, Emitted, Abstract!Emitted, Discovered, Levels
<1>5. StackInv
  BY <1>2, <1>4 DEF StackInv
<1>6. WorkInv /\ CallsInv /\ CyclesInv /\ LinksInv /\ CoverInv
  BY <1>2, <1>4 DEF WorkInv, CallsInv, CyclesInv, LinksInv, CoverInv, Abstract!Closed
<1>7. StartsInv
  BY <1>1 DEF StartsInv
<1>. QED  BY <1>3, <1>5, <1>6, <1>7 DEF SccInv

(* Only the root of a component changes what has been given out.           *)
LEMMA OthersGiveNothing ==
    ASSUME SccInv, SkipStart \/ Start \/ Descend \/ BackEdge \/ CrossEdge \/ CloseNode
    PROVE  succ' = succ /\ result' = result
BY DEF SkipStart, Start, Descend, BackEdge, CrossEdge, CloseNode

LEMMA Unchanging ==
    ASSUME SccInv, NEW rest, starts' = rest, rest \in Seq(Nodes),
           \A n \in Nodes : n \in Discovered \/ n \in Elements(rest),
           UNCHANGED <<succ, counter, indices, lowlinks, stack, onStack, work, result>>
    PROVE  SccInv'
<1>1. TypeOK'
  BY DEF SccInv, TypeOK
<1>2. /\ \A x : Callees(x)' = Callees(x) /\ Reachable(x)' = Reachable(x)
      /\ \A S : Abstract!Closed(S)' <=> Abstract!Closed(S)
      /\ Emitted' = Emitted
  BY SameCalls, SameEmitted
<1>3. /\ Levels' = Levels /\ Discovered' = Discovered
      /\ \A i : Open(i)' = Open(i) /\ Rest(i)' = Rest(i) /\ \A x : Belongs(x, i)' <=> Belongs(x, i)
  BY DEF Levels, Discovered, Open, Rest, Belongs
<1>4. StackInv'
  BY <1>2, <1>3 DEF SccInv, StackInv
<1>5. WorkInv'
  <2>1. \A i : Open(i)' = Open(i) /\ Rest(i)' = Rest(i) /\ Callees(Open(i))' = Callees(Open(i))
    BY DEF Open, Rest, Callees, Abstract!Callees
  <2>. QED  BY <1>3, <2>1 DEF SccInv, WorkInv
<1>6. CallsInv'
  <2>1. Abstract!Closed(Emitted)'
    <3>. DEFINE e == Emitted'
    <3>1. Abstract!Closed(Emitted)' <=> Abstract!Closed(e)
      BY DEF Abstract!Closed, Abstract!Callees
    <3>. QED  BY <1>2, <3>1 DEF SccInv, CallsInv
  <2>. QED  BY <1>2, <1>3, <2>1 DEF SccInv, CallsInv
<1>7. CyclesInv'
  <2>1. \A i : Open(i)' = Open(i) /\ Reachable(Open(i))' = Reachable(Open(i))
    BY DEF Open, Reachable, Abstract!Reachable, Abstract!Closed, Abstract!Callees
  <2>. QED  BY <1>2, <1>3, <2>1 DEF SccInv, CyclesInv
<1>8. LinksInv'
  BY <1>2 DEF SccInv, LinksInv
<1>9. CoverInv'
  BY DEF SccInv, CoverInv, Levels, Belongs, Open, Rest, Callees, Abstract!Callees
<1>10. StartsInv'
  BY DEF StartsInv, Discovered
<1>. QED  BY <1>1, <1>4, <1>5, <1>6, <1>7, <1>8, <1>9, <1>10 DEF SccInv

LEMMA NextScc == SccInv /\ [Next]_vars => SccInv'
<1>. SUFFICES ASSUME SccInv, [Next]_vars PROVE SccInv'
  OBVIOUS
<1>0. TypeOK
  BY DEF SccInv
<1>1. CASE SkipStart
  <2>1. PICK n, rest : n = Head(starts) /\ rest = Tail(starts)
    OBVIOUS
  <2>2. /\ starts # <<>> /\ starts \in Seq(Nodes) /\ n \in Discovered /\ starts' = rest
        /\ UNCHANGED <<succ, counter, indices, lowlinks, stack, onStack, work, result>>
    BY <1>0, <1>1, <2>1 DEF SkipStart, Discovered, TypeOK
  <2>3. rest \in Seq(Nodes) /\ Elements(starts) = Elements(rest) \cup {n}
    BY <2>1, <2>2, Yielded
  <2>4. \A x \in Nodes : x \in Discovered \/ x \in Elements(rest)
    BY <2>2, <2>3 DEF SccInv, StartsInv
  <2>. QED  BY <2>2, <2>3, <2>4, Unchanging
<1>2. CASE Start
  BY <1>0, <1>2, StartDiscovers, DiscoverKeeps
<1>3. CASE Descend
  BY <1>0, <1>3, DescendDiscovers, DiscoverKeeps
<1>4. CASE BackEdge \/ CrossEdge
  BY <1>4, EdgeAdvances, AdvanceKeeps
<1>5. CASE CloseNode
  BY <1>5, CloseNodeKeeps
<1>6. CASE CloseRoot
  BY <1>6, CloseRootKeeps
<1>7. CASE UNCHANGED vars
  <2>1. /\ starts' = starts
        /\ UNCHANGED <<succ, counter, indices, lowlinks, stack, onStack, work, result>>
    BY <1>7 DEF vars
  <2>2. starts \in Seq(Nodes) /\ \A n \in Nodes : n \in Discovered \/ n \in Elements(starts)
    BY <1>0 DEF SccInv, StartsInv, TypeOK
  <2>. QED  BY <2>1, <2>2, Unchanging
<1>. QED  BY <1>1, <1>2, <1>3, <1>4, <1>5, <1>6, <1>7 DEF Next

LEMMA AlwaysScc == Spec => []SccInv
<1>. QED  BY InitScc, NextScc, PTL DEF Spec

-----------------------------------------------------------------------------
(* The variables of the search are of their types.                         *)
THEOREM TypeCorrect == Spec => []TypeOK
<1>1. SccInv => TypeOK
  BY DEF SccInv
<1>. QED  BY <1>1, AlwaysScc, PTL

(* Whatever the call graph, and in whatever order its functions are listed, *)
(* each component CallGraph.sccs appends to its result is a strongly        *)
(* connected component, whole, of functions not given out before, and all   *)
(* that its members call outside it has been given out earlier.             *)
THEOREM GivenOutInOrder == Spec => Abstract!InOrder
<1>1. Init => Abstract!Init
  BY DEF Init, Abstract!Init
<1>2. SccInv /\ [Next]_vars => [Abstract!Emit]_<<succ, result>>
  <2>. SUFFICES ASSUME SccInv, [Next]_vars PROVE [Abstract!Emit]_<<succ, result>>
    OBVIOUS
  <2>1. CASE CloseRoot
    BY <2>1, RootEmits
  <2>2. CASE SkipStart \/ Start \/ Descend \/ BackEdge \/ CrossEdge \/ CloseNode
    BY <2>2, OthersGiveNothing
  <2>3. CASE UNCHANGED vars
    BY <2>3 DEF vars
  <2>. QED  BY <2>1, <2>2, <2>3 DEF Next
<1>. QED  BY <1>1, <1>2, AlwaysScc, PTL DEF Spec, Abstract!InOrder

(* When the search returns, every function has been given out.             *)
LEMMA WholeAtTheEnd == SccInv /\ Returned => Abstract!Emitted = Nodes
<1>. SUFFICES ASSUME SccInv, Returned PROVE Emitted = Nodes
  BY DEF Emitted
<1>1. Levels = {} /\ Elements(starts) = {}
  <2>1. Len(work) = 0 /\ 1 .. 0 = {} /\ DOMAIN starts = {}
    BY DEF Returned
  <2>. QED  BY <2>1 DEF Levels, Elements
<1>2. onStack = {}
  BY <1>1 DEF SccInv, CyclesInv
<1>. QED  BY <1>1, <1>2 DEF SccInv, StartsInv, StackInv, TypeOK, Discovered

(* CallGraph.sccs gives its consumers what the condensation promises: every *)
(* function once, in its component, callees first, and all of them once the *)
(* search has returned.                                                     *)
THEOREM Refinement == Spec /\ <>Returned => ImplementsCondensation
<1>. QED  BY GivenOutInOrder, AlwaysScc, WholeAtTheEnd, PTL DEF ImplementsCondensation, Abstract!Spec
=============================================================================
