----------------------- MODULE EffectPropagationProofs -----------------------
(***************************************************************************)
(* What EffectPropagation guarantees for every call graph, every placement *)
(* of sinks, every component order with callees first and every iteration  *)
(* limit: types, monotonic summaries, no effect without a function that    *)
(* causes it, no effect missed (the cap on the passes over a component is  *)
(* high enough), and closed summaries when an iteration without change     *)
(* ends the loop.                                                          *)
(***************************************************************************)
EXTENDS EffectPropagation, FiniteSetTheorems, TLAPS

Order == input.order

(* The input never changes and is one of the allowed ones. *)
InputInv == input \in Inputs

LEMMA InputFacts ==
    ASSUME InputInv
    PROVE  /\ input \in Input
           /\ input.out \in [Functions -> SUBSET Edge]
           /\ input.seeds \in [Functions -> SUBSET Sinks]
           /\ Order \in Seq(Seq(Functions))
           /\ Len(Order) \in Nat
           /\ \A f \in Functions : Covers(Order, f)
           /\ CalleesFirst(input)
           /\ \A s \in 1 .. Len(Order) :
                 /\ Len(Order[s]) \in Nat
                 /\ \A k \in 1 .. Len(Order[s]) : Order[s][k] \in Functions
<1>1. /\ input \in Input /\ CalleesFirst(input)
      /\ \A f \in Functions : Covers(Order, f)
  BY InputAssumption DEF InputInv, Order
<1>. QED  BY <1>1 DEF Input, Order

LEMMA FollowedType ==
    ASSUME InputInv, NEW f \in Functions
    PROVE  Followed(f) \subseteq Functions
BY InputFacts DEF Followed, Edge

LEMMA NewProvenanceType ==
    ASSUME InputInv, prov \in [Functions -> SUBSET Sinks], NEW f \in Functions
    PROVE  NewProvenance(f) \in SUBSET Sinks
BY FollowedType DEF NewProvenance, Inherited

LEMMA CountersInit == Init => CountersOK
<1>. SUFFICES ASSUME Init PROVE CountersOK
  OBVIOUS
<1>1. InputInv
  BY DEF Init, InputInv
<1>2. Len(Order) \in Nat /\ (1 <= Len(Order) => Len(Order[1]) \in Nat)
  BY <1>1, InputFacts
<1>3. LoopsOK
  BY <1>2 DEF Init, LoopsOK, MaxPasses, Order
<1>4. IterationsOK
  BY InputAssumption DEF Init, IterationsOK
<1>. QED  BY <1>3, <1>4 DEF Init, CountersOK, FlagsOK

LEMMA CountersStep ==
    ASSUME InputInv, CountersOK, Next
    PROVE  CountersOK'
<1>. DEFINE last == Len(Order)
<1>1. /\ last \in Nat
      /\ \A s \in 1 .. last : Len(Order[s]) \in Nat
  BY InputFacts
<1>2. input' = input
  BY DEF Next, Visit, NextPass, NextComponent, NextIteration, Return
<1>3. LoopsOK'
  <2>1. /\ scc \in 1 .. last + 1
        /\ scc <= last => Len(Order[scc]) \in Nat
        /\ scc + 1 <= last => Len(Order[scc + 1]) \in Nat
        /\ 1 <= last => Len(Order[1]) \in Nat
    BY <1>1 DEF CountersOK, LoopsOK, Order
  <2>. USE <1>1, <1>2, <2>1 DEF CountersOK, LoopsOK, MaxPasses, Order
  <2>2. CASE Visit
    BY <2>2 DEF Visit, InPass
  <2>3. CASE NextPass
    BY <2>3 DEF NextPass, PassEnded
  <2>4. CASE NextComponent
    BY <2>4 DEF NextComponent, PassEnded
  <2>5. CASE NextIteration
    BY <2>5 DEF NextIteration, IterationEnded
  <2>6. CASE Return
    BY <2>6 DEF Return, IterationEnded
  <2>. QED  BY <2>2, <2>3, <2>4, <2>5, <2>6 DEF Next
<1>4. IterationsOK'
  BY InputAssumption DEF Next, Visit, NextPass, NextComponent, NextIteration, Return,
     InPass, PassEnded, IterationEnded, CountersOK, IterationsOK
<1>5. FlagsOK'
  BY DEF Next, Visit, NextPass, NextComponent, NextIteration, Return, Changes,
     CountersOK, FlagsOK
<1>. QED  BY <1>3, <1>4, <1>5 DEF CountersOK

(* The variables keep their types and the counters their ranges. *)
LEMMA TypesInductive == Spec => [](TypeOK /\ InputInv)
<1>1. Init => TypeOK /\ InputInv
  <2>. SUFFICES ASSUME Init PROVE TypeOK /\ InputInv
    OBVIOUS
  <2>1. InputInv
    BY DEF Init, InputInv
  <2>. QED  BY <2>1, InputFacts, CountersInit DEF Init, TypeOK
<1>2. TypeOK /\ InputInv /\ [Next]_vars => TypeOK' /\ InputInv'
  <2>. SUFFICES ASSUME TypeOK, InputInv, [Next]_vars PROVE TypeOK' /\ InputInv'
    OBVIOUS
  <2>1. CASE UNCHANGED vars
    BY <2>1 DEF vars, counters, TypeOK, CountersOK, LoopsOK, IterationsOK, FlagsOK, InputInv
  <2>2. CASE Next
    <3>1. CountersOK'
      BY <2>2, CountersStep DEF TypeOK
    <3>2. input' = input
      BY <2>2 DEF Next, Visit, NextPass, NextComponent, NextIteration, Return
    <3>3. prov' \in [Functions -> SUBSET Sinks] /\ unresolved' \in [Functions -> BOOLEAN]
      <4>1. CASE Visit
        <5>1. Order[scc][pos] \in Functions
          BY <4>1, InputFacts DEF Visit, InPass, TypeOK, CountersOK, LoopsOK, Order
        <5>2. NewUnresolved(Order[scc][pos]) \in BOOLEAN
          BY <5>1 DEF NewUnresolved, TypeOK
        <5>3. NewProvenance(Order[scc][pos]) \in SUBSET Sinks
          BY <5>1, NewProvenanceType DEF TypeOK
        <5>. QED  BY <4>1, <5>1, <5>2, <5>3 DEF Visit, TypeOK, Order
      <4>2. CASE UNCHANGED <<prov, unresolved>>
        BY <4>2 DEF TypeOK
      <4>. QED  BY <2>2, <4>1, <4>2
             DEF Next, NextPass, NextComponent, NextIteration, Return
    <3>. QED  BY <3>1, <3>2, <3>3 DEF TypeOK, InputInv
  <2>. QED  BY <2>1, <2>2
<1>. QED  BY <1>1, <1>2, PTL DEF Spec

(* Every variable keeps its type; the loops stay within their bounds. *)
THEOREM TypeCorrect == Spec => []TypeOK
BY TypesInductive, PTL

-----------------------------------------------------------------------------
(* Monotonic summaries.                                                    *)

(* Only Visit touches the summaries, and only that of one function. *)
LEMMA VisitEffect ==
    ASSUME TypeOK, InputInv, Visit
    PROVE  \E f \in Functions :
             /\ f = Order[scc][pos]
             /\ prov' = [prov EXCEPT ![f] = NewProvenance(f)]
             /\ unresolved' = [unresolved EXCEPT ![f] = NewUnresolved(f)]
             /\ localChanged' = (localChanged \/ Changes(f))
<1>1. Order[scc][pos] \in Functions
  BY InputFacts DEF Visit, InPass, TypeOK, CountersOK, LoopsOK, Order
<1>. QED  BY <1>1 DEF Visit, Order

LEMMA OthersKeepSummaries ==
    ASSUME [Next]_vars, ~Visit
    PROVE  UNCHANGED <<input, prov, unresolved>>
BY DEF Next, NextPass, NextComponent, NextIteration, Return, vars

(* A step never takes an effect, or the incomplete mark, from a summary. *)
THEOREM SummariesOnlyGrow == Spec => SummariesGrow
<1>1. TypeOK /\ InputInv /\ [Next]_vars =>
        [\A f \in Functions :
            /\ prov[f] \subseteq prov'[f]
            /\ unresolved[f] => unresolved'[f]]_vars
  <2>. SUFFICES ASSUME TypeOK, InputInv, [Next]_vars, NEW g \in Functions
                PROVE  /\ prov[g] \subseteq prov'[g]
                       /\ unresolved[g] => unresolved'[g]
    OBVIOUS
  <2>1. CASE Visit
    <3>1. PICK f \in Functions :
             /\ prov' = [prov EXCEPT ![f] = NewProvenance(f)]
             /\ unresolved' = [unresolved EXCEPT ![f] = NewUnresolved(f)]
      BY <2>1, VisitEffect
    <3>2. prov[f] \subseteq NewProvenance(f) /\ (unresolved[f] => NewUnresolved(f))
      BY DEF NewProvenance, NewUnresolved
    <3>. QED  BY <3>1, <3>2 DEF TypeOK
  <2>2. CASE ~Visit
    BY <2>2, OthersKeepSummaries
  <2>. QED  BY <2>1, <2>2
<1>. QED  BY <1>1, TypesInductive, PTL DEF Spec, SummariesGrow

-----------------------------------------------------------------------------
(* No effect without a cause.                                              *)

(* The summaries stay below every assignment of sinks that contains the    *)
(* seeds and is closed under the calls that are followed: no sink appears  *)
(* in the summary of a function that cannot call it.                       *)
THEOREM LeastSummaries == Spec => []BelowEveryClosed
<1>1. Init => BelowEveryClosed
  BY DEF Init, BelowEveryClosed, ClosedSinks
<1>2. TypeOK /\ InputInv /\ BelowEveryClosed /\ [Next]_vars => BelowEveryClosed'
  <2>. SUFFICES ASSUME TypeOK, InputInv, BelowEveryClosed, [Next]_vars,
                       NEW F \in [Functions -> SUBSET Sinks], ClosedSinks(F)',
                       NEW g \in Functions
                PROVE  prov'[g] \subseteq F[g]
    BY DEF BelowEveryClosed
  <2>0. input' = input
    BY DEF Next, Visit, NextPass, NextComponent, NextIteration, Return, vars
  <2>1. ClosedSinks(F)
    BY <2>0 DEF ClosedSinks, Followed
  <2>2. \A f \in Functions : prov[f] \subseteq F[f]
    BY <2>1 DEF BelowEveryClosed
  <2>3. CASE Visit
    <3>1. PICK f \in Functions : prov' = [prov EXCEPT ![f] = NewProvenance(f)]
      BY <2>3, VisitEffect
    <3>2. \A h \in Followed(f) : prov[h] \subseteq F[f]
      BY <2>1, <2>2, FollowedType DEF ClosedSinks
    <3>3. NewProvenance(f) \subseteq F[f]
      BY <2>2, <3>2 DEF NewProvenance, Inherited
    <3>. QED  BY <2>2, <3>1, <3>3 DEF TypeOK
  <2>4. CASE ~Visit
    BY <2>2, <2>4, OthersKeepSummaries
  <2>. QED  BY <2>3, <2>4
<1>. QED  BY <1>1, <1>2, TypesInductive, PTL DEF Spec

-----------------------------------------------------------------------------
(* An iteration without change leaves closed summaries.                    *)

(* While this iteration has changed nothing, every function it has visited *)
(* accounts for its calls.  It holds because a visit that changes no type  *)
(* and no flag leaves what the other functions were compared with.         *)
VisitedAccount ==
    /\ ~changed /\ ~localChanged /\ ~done =>
          /\ \A s \in 1 .. scc - 1 : \A k \in 1 .. Len(Order[s]) : Accounts(Order[s][k])
          /\ scc <= Len(Order) =>
                \A k \in 1 .. pos - 1 : Accounts(Order[scc][k])
    /\ ~changed => pass = 1
    /\ scc > Len(Order) => ~localChanged
    /\ QuietMeansClosed

(* A visit that changes nothing makes its function account for its calls.  *)
LEMMA QuietVisit ==
    ASSUME TypeOK, InputInv, NEW f \in Functions, ~Changes(f),
           prov' = [prov EXCEPT ![f] = NewProvenance(f)],
           unresolved' = [unresolved EXCEPT ![f] = NewUnresolved(f)],
           input' = input
    PROVE  /\ \A g \in Functions : Types(prov'[g]) = Types(prov[g])
           /\ unresolved' = unresolved
           /\ Accounts(f)'
           /\ \A g \in Functions : Accounts(g) => Accounts(g)'
<1>1. \A g \in Functions : Types(prov'[g]) = Types(prov[g])
  BY DEF Changes, TypeOK
<1>2. unresolved' = unresolved
  BY Zenon DEF Changes, TypeOK
<1>3. \A g \in Functions : Followed(g)' = Followed(g) /\ CallsUnknown(g)' = CallsUnknown(g)
  BY DEF Followed, CallsUnknown
<1>4. Accounts(f)
  <2>1. \A g \in Followed(f) : Types(prov[g]) \subseteq Types(NewProvenance(f))
    BY DEF Types, NewProvenance, Inherited
  <2>2. Types(NewProvenance(f)) = Types(prov[f]) /\ NewUnresolved(f) = unresolved[f]
    BY DEF Changes
  <2>3. CallsUnknown(f) => unresolved[f]
    BY <2>2 DEF NewUnresolved
  <2>4. \A g \in Followed(f) : unresolved[g] => unresolved[f]
    BY <2>2 DEF NewUnresolved
  <2>. QED  BY <2>1, <2>2, <2>3, <2>4 DEF Accounts
<1>5. ASSUME NEW g \in Functions, Accounts(g) PROVE Accounts(g)'
  <2>1. \A h \in Followed(g) : Types(prov'[h]) \subseteq Types(prov'[g])
    BY <1>1, <1>5, FollowedType DEF Accounts
  <2>. QED  BY <1>2, <1>3, <1>5, <2>1 DEF Accounts
<1>. QED  BY <1>1, <1>2, <1>4, <1>5

LEMMA VisitedAccountStep ==
    ASSUME TypeOK, InputInv, VisitedAccount, [Next]_vars
    PROVE  VisitedAccount'
<1>. DEFINE last == Len(Order)
<1>0. /\ last \in Nat
      /\ \A s \in 1 .. last : Len(Order[s]) \in Nat
      /\ \A s \in 1 .. last : \A k \in 1 .. Len(Order[s]) : Order[s][k] \in Functions
      /\ scc \in 1 .. last + 1 /\ pos \in Nat \ {0}
      /\ scc <= last => pos <= Len(Order[scc]) + 1
  BY InputFacts DEF TypeOK, CountersOK, LoopsOK, Order
<1>1. input' = input /\ Order' = Order
  BY DEF Next, Visit, NextPass, NextComponent, NextIteration, Return, vars, Order
<1>2. CASE Visit
  <2>1. /\ ~done /\ done' = done /\ scc' = scc /\ pos' = pos + 1
        /\ changed' = changed /\ pass' = pass /\ scc <= last
    BY <1>2 DEF Visit, InPass, Order
  <2>2. PICK f \in Functions :
        /\ f = Order[scc][pos]
        /\ prov' = [prov EXCEPT ![f] = NewProvenance(f)]
        /\ unresolved' = [unresolved EXCEPT ![f] = NewUnresolved(f)]
        /\ localChanged' = (localChanged \/ Changes(f))
    BY <1>2, VisitEffect
  <2>3. ASSUME ~changed, ~localChanged'
        PROVE  /\ \A s \in 1 .. scc - 1 : \A k \in 1 .. Len(Order[s]) :
                     Accounts(Order[s][k])'
               /\ \A k \in 1 .. pos : Accounts(Order[scc][k])'
    <3>1. ~Changes(f) /\ ~localChanged
      BY <2>2, <2>3
    <3>2. Accounts(f)' /\ \A g \in Functions : Accounts(g) => Accounts(g)'
      BY <1>1, <2>2, <3>1, QuietVisit
    <3>3. \A s \in 1 .. scc - 1 : \A k \in 1 .. Len(Order[s]) : Accounts(Order[s][k])
      BY <2>1, <2>3, <3>1 DEF VisitedAccount
    <3>4. \A k \in 1 .. pos - 1 : Accounts(Order[scc][k])
      BY <2>1, <2>3, <3>1 DEF VisitedAccount
    <3>5. ASSUME NEW s \in 1 .. scc - 1, NEW k \in 1 .. Len(Order[s])
          PROVE  Accounts(Order[s][k])'
      <4>1. PICK g \in Functions : g = Order[s][k]
        BY <1>0
      <4>2. Accounts(g)'
        BY <3>2, <3>3, <4>1
      <4>. QED  BY <1>1, <4>1, <4>2
    <3>6. ASSUME NEW k \in 1 .. pos PROVE Accounts(Order[scc][k])'
      <4>1. CASE k = pos
        <5>1. Order'[scc'][k] = f
          BY <1>1, <2>1, <2>2, <4>1
        <5>. QED  BY <3>2, <5>1
      <4>2. CASE k # pos
        <5>1. k \in 1 .. pos - 1 /\ k \in 1 .. Len(Order[scc]) /\ scc \in 1 .. last
          BY <1>0, <2>1, <4>2
        <5>2. PICK g \in Functions : g = Order[scc][k]
          BY <1>0, <5>1
        <5>3. Accounts(g)'
          BY <3>2, <3>4, <5>1, <5>2
        <5>. QED  BY <1>1, <2>1, <5>2, <5>3
      <4>. QED  BY <4>1, <4>2
    <3>. QED  BY <3>5, <3>6
  <2>4. pos' - 1 = pos
    BY <1>0, <2>1
  <2>5. QuietMeansClosed'
    BY <2>1 DEF QuietMeansClosed
  <2>. QED  BY <1>0, <1>1, <2>1, <2>3, <2>4, <2>5 DEF VisitedAccount
<1>3. ASSUME UNCHANGED <<input, prov, unresolved>>
      PROVE  /\ \A g : Accounts(g) <=> Accounts(g)'
  BY <1>3 DEF Accounts, Followed, CallsUnknown, Types
<1>4. CASE NextPass
  <2>1. changed' /\ ~done' /\ scc' = scc /\ scc <= last
    BY <1>4 DEF NextPass, PassEnded, Order
  <2>. QED  BY <1>0, <1>1, <2>1 DEF VisitedAccount, QuietMeansClosed
<1>5. CASE NextComponent
  <2>1. /\ ~done /\ ~done' /\ scc <= last /\ scc' = scc + 1 /\ pos' = 1 /\ pass' = 1
        /\ ~localChanged' /\ changed' = (changed \/ localChanged)
        /\ pos > Len(Order[scc])
        /\ UNCHANGED <<input, prov, unresolved>>
    BY <1>5 DEF NextComponent, PassEnded, Order
  <2>2. ASSUME ~changed', NEW s \in 1 .. scc' - 1, NEW k \in 1 .. Len(Order[s])
        PROVE  Accounts(Order[s][k])'
    <3>1. ~changed /\ ~localChanged
      BY <2>1, <2>2
    <3>2. Accounts(Order[s][k])
      <4>1. CASE s = scc
        <5>1. k \in 1 .. pos - 1
          BY <1>0, <2>1, <4>1
        <5>. QED  BY <2>1, <3>1, <4>1, <5>1 DEF VisitedAccount
      <4>2. CASE s # scc
        <5>1. s \in 1 .. scc - 1
          BY <1>0, <2>1, <4>2
        <5>. QED  BY <2>1, <3>1, <5>1 DEF VisitedAccount
      <4>. QED  BY <4>1, <4>2
    <3>3. PICK g : g = Order[s][k]
      OBVIOUS
    <3>4. Accounts(g)'
      BY <1>3, <2>1, <3>2, <3>3
    <3>. QED  BY <1>1, <3>3, <3>4
  <2>. QED  BY <1>1, <2>1, <2>2 DEF VisitedAccount, QuietMeansClosed
<1>6. CASE NextIteration
  <2>1. /\ ~done' /\ scc' = 1 /\ pos' = pos /\ pass' = pass /\ scc > last
        /\ localChanged' = localChanged
        /\ pass = 1 /\ pos = 1
    BY <1>6 DEF NextIteration, IterationEnded, TypeOK, CountersOK, LoopsOK, Order
  <2>2. ~localChanged
    BY <2>1 DEF VisitedAccount
  <2>. QED  BY <1>0, <1>1, <2>1, <2>2 DEF VisitedAccount, QuietMeansClosed
<1>7. CASE Return
  <2>1. /\ ~done /\ done' /\ scc' = scc /\ scc > last /\ pass' = pass
        /\ changed' = changed /\ localChanged' = localChanged
        /\ UNCHANGED <<input, prov, unresolved>>
    BY <1>7 DEF Return, IterationEnded, Order
  <2>2. ASSUME ~changed, NEW f \in Functions PROVE Accounts(f)'
    <3>1. PICK s \in 1 .. last : \E k \in 1 .. Len(Order[s]) : Order[s][k] = f
      BY InputFacts DEF Covers
    <3>2. PICK k \in 1 .. Len(Order[s]) : Order[s][k] = f
      BY <3>1
    <3>3. s \in 1 .. scc - 1
      BY <1>0, <2>1
    <3>4. Accounts(Order[s][k])
      BY <2>1, <2>2, <3>3 DEF VisitedAccount
    <3>. QED  BY <1>3, <2>1, <3>2, <3>4
  <2>. QED  BY <1>1, <2>1, <2>2 DEF VisitedAccount, QuietMeansClosed
<1>8. CASE UNCHANGED vars
  <2>1. /\ UNCHANGED <<input, prov, unresolved>>
        /\ UNCHANGED <<scc, pass, pos, localChanged, changed, done>>
    BY <1>8 DEF vars, counters
  <2>. QED  BY <1>1, <1>3, <2>1 DEF VisitedAccount, QuietMeansClosed
<1>. QED  BY <1>2, <1>4, <1>5, <1>6, <1>7, <1>8 DEF Next

(* When the loop ends on an iteration without change, no function's        *)
(* summary lacks an effect type, or the incomplete mark, of a callee.      *)
THEOREM QuietClosed == Spec => []QuietMeansClosed
<1>1. Init => VisitedAccount
  <2>. SUFFICES ASSUME Init PROVE VisitedAccount
    OBVIOUS
  <2>1. InputInv
    BY DEF Init, InputInv
  <2>2. scc = 1 /\ pos = 1 /\ pass = 1 /\ ~localChanged /\ ~done
    BY DEF Init
  <2>. QED  BY <2>1, <2>2, InputFacts DEF VisitedAccount, QuietMeansClosed
<1>2. TypeOK /\ InputInv /\ VisitedAccount /\ [Next]_vars => VisitedAccount'
  BY VisitedAccountStep
<1>3. VisitedAccount => QuietMeansClosed
  BY DEF VisitedAccount
<1>. QED  BY <1>1, <1>2, <1>3, TypesInductive, PTL DEF Spec

-----------------------------------------------------------------------------
(* What a function can really call.                                        *)

LEMMA CallableFacts ==
    ASSUME InputInv, NEW f \in Functions
    PROVE  /\ f \in Callable(f) /\ Callable(f) \subseteq Functions
           /\ \A g \in Followed(f) : Callable(g) \subseteq Callable(f)
           /\ \A S \in SUBSET Functions :
                 f \in S /\ (\A h \in S : Followed(h) \subseteq S) => Callable(f) \subseteq S
<1>1. ASSUME NEW g \in Followed(f), NEW h \in Callable(g) PROVE h \in Callable(f)
  <2>. SUFFICES ASSUME NEW S \in SUBSET Functions, f \in S, \A x \in S : Followed(x) \subseteq S
                PROVE  h \in S
    BY <1>1 DEF Callable
  <2>1. g \in S
    OBVIOUS
  <2>. QED  BY <2>1 DEF Callable
<1>. QED  BY <1>1 DEF Callable

(* Every sink in a summary lies in a function that can be called, and a    *)
(* summary is incomplete only if an unknown call can be reached.           *)
THEOREM NothingInvented == Spec => []OnlyCallableEffects
<1>1. Init => OnlyCallableEffects
  <2>. SUFFICES ASSUME Init PROVE OnlyCallableEffects
    OBVIOUS
  <2>1. InputInv
    BY DEF Init, InputInv
  <2>2. \A f \in Functions : input.seeds[f] \subseteq CallableSinks(f)
    BY <2>1, CallableFacts DEF CallableSinks
  <2>. QED  BY <2>2 DEF Init, OnlyCallableEffects
<1>2. TypeOK /\ InputInv /\ OnlyCallableEffects /\ [Next]_vars => OnlyCallableEffects'
  <2>. SUFFICES ASSUME TypeOK, InputInv, OnlyCallableEffects, [Next]_vars
                PROVE  OnlyCallableEffects'
    OBVIOUS
  <2>1. input' = input
    BY DEF Next, Visit, NextPass, NextComponent, NextIteration, Return, vars
  <2>2. /\ \A f : Callable(f)' = Callable(f) /\ CallableSinks(f)' = CallableSinks(f)
        /\ \A f : CallsUnknown(f)' <=> CallsUnknown(f)
    BY <2>1 DEF Callable, CallableSinks, Followed, CallsUnknown
  <2>3. CASE Visit
    <3>1. PICK f \in Functions :
             /\ prov' = [prov EXCEPT ![f] = NewProvenance(f)]
             /\ unresolved' = [unresolved EXCEPT ![f] = NewUnresolved(f)]
      BY <2>3, VisitEffect
    <3>2. \A g \in Followed(f) : /\ prov[g] \subseteq CallableSinks(f)
                                 /\ unresolved[g] => \E h \in Callable(f) : CallsUnknown(h)
      <4>. SUFFICES ASSUME NEW g \in Followed(f)
                    PROVE  /\ prov[g] \subseteq CallableSinks(f)
                           /\ unresolved[g] => \E h \in Callable(f) : CallsUnknown(h)
        OBVIOUS
      <4>1. g \in Functions /\ Callable(g) \subseteq Callable(f)
        BY CallableFacts, FollowedType
      <4>. QED  BY <4>1 DEF OnlyCallableEffects, CallableSinks
    <3>3. NewProvenance(f) \subseteq CallableSinks(f)
      BY <3>2 DEF NewProvenance, Inherited, OnlyCallableEffects
    <3>4. NewUnresolved(f) => \E h \in Callable(f) : CallsUnknown(h)
      BY <3>2, CallableFacts DEF NewUnresolved, OnlyCallableEffects
    <3>. QED  BY <2>2, <3>1, <3>3, <3>4 DEF TypeOK, OnlyCallableEffects
  <2>4. CASE ~Visit
    BY <2>2, <2>4, OthersKeepSummaries DEF OnlyCallableEffects
  <2>. QED  BY <2>3, <2>4
<1>. QED  BY <1>1, <1>2, TypesInductive, PTL DEF Spec

-----------------------------------------------------------------------------
(* No effect is missed: neither the cap on the passes over a component nor *)
(* the cap on the iterations ever cuts the propagation short.              *)

(* What a summary tells its callers: effect types, and the incomplete mark. *)
Call == <<"unknown", "call">>

Marks(f) ==
    {<<"effect", t>> : t \in Types(prov[f])} \cup (IF unresolved[f] THEN {Call} ELSE {})

AllMarks == {<<"effect", t>> : t \in Types(Sinks)} \cup {Call}

(* What the summary of f should tell, by the calls in f.                   *)
Due(f) ==
    (IF CallsUnknown(f) THEN {Call} ELSE {}) \cup UNION {Marks(g) : g \in Followed(f)}

Lacks(f, m) == m \in Due(f) /\ m \notin Marks(f)

Members(s) == {Order[s][k] : k \in 1 .. Len(Order[s])}

Holders(s, m) == {f \in Members(s) : m \in Marks(f)}

LEMMA MarksFacts ==
    ASSUME NEW f
    PROVE  /\ \A t : <<"effect", t>> \in Marks(f) <=> t \in Types(prov[f])
           /\ Call \in Marks(f) <=> unresolved[f]
           /\ \A m \in Marks(f) : m = Call \/ \E t \in Types(prov[f]) : m = <<"effect", t>>
<1>1. \A t, u : <<"effect", t>> = <<"effect", u>> => t = u
  OBVIOUS
<1>2. \A t : <<"effect", t>> # Call
  BY DEF Call
<1>. QED  BY <1>1, <1>2 DEF Marks

LEMMA MarksTyped ==
    ASSUME TypeOK, InputInv, NEW f \in Functions
    PROVE  /\ Marks(f) \subseteq AllMarks
           /\ Due(f) \subseteq AllMarks
<1>1. \A g \in Functions : Types(prov[g]) \subseteq Types(Sinks)
  BY DEF TypeOK, Types
<1>2. \A g \in Functions : Marks(g) \subseteq AllMarks
  BY <1>1 DEF Marks, AllMarks
<1>. QED  BY <1>2, FollowedType DEF Due, AllMarks

LEMMA AccountsAsMarks ==
    ASSUME TypeOK, InputInv, NEW f \in Functions
    PROVE  Accounts(f) <=> Due(f) \subseteq Marks(f)
<1>1. ASSUME Accounts(f) PROVE Due(f) \subseteq Marks(f)
  <2>1. ASSUME NEW g \in Followed(f), NEW m \in Marks(g) PROVE m \in Marks(f)
    BY <1>1, MarksFacts DEF Accounts
  <2>2. CallsUnknown(f) => Call \in Marks(f)
    BY <1>1, MarksFacts DEF Accounts
  <2>. QED  BY <2>1, <2>2 DEF Due
<1>2. ASSUME Due(f) \subseteq Marks(f) PROVE Accounts(f)
  <2>1. \A g \in Followed(f) : Marks(g) \subseteq Marks(f)
    BY <1>2 DEF Due
  <2>2. CallsUnknown(f) => Call \in Marks(f)
    BY <1>2 DEF Due
  <2>3. \A g \in Followed(f) : Types(prov[g]) \subseteq Types(prov[f])
    BY <2>1, MarksFacts
  <2>. QED  BY <2>1, <2>2, <2>3, MarksFacts DEF Accounts
<1>. QED  BY <1>1, <1>2

(* A visit gives a function the marks it is due, and nothing else.         *)
LEMMA VisitMarks ==
    ASSUME TypeOK, InputInv, Visit
    PROVE  \E f \in Functions :
             /\ f = Order[scc][pos]
             /\ Marks(f)' = Marks(f) \cup Due(f)
             /\ \A g \in Functions : g # f => Marks(g)' = Marks(g)
             /\ \A g \in Functions : Marks(g) \subseteq Marks(g)' /\ Due(g) \subseteq Due(g)'
             /\ Marks(f)' = Marks(f) <=> ~Changes(f)
             /\ localChanged' = (localChanged \/ Changes(f))
<1>1. PICK f \in Functions :
         /\ f = Order[scc][pos]
         /\ prov' = [prov EXCEPT ![f] = NewProvenance(f)]
         /\ unresolved' = [unresolved EXCEPT ![f] = NewUnresolved(f)]
         /\ localChanged' = (localChanged \/ Changes(f))
  BY VisitEffect
<1>2. input' = input
  BY DEF Visit
<1>3. prov'[f] = NewProvenance(f) /\ unresolved'[f] = NewUnresolved(f)
      /\ \A g \in Functions : g # f => prov'[g] = prov[g] /\ unresolved'[g] = unresolved[g]
  BY <1>1 DEF TypeOK
<1>4. Types(NewProvenance(f)) = Types(prov[f]) \cup UNION {Types(prov[g]) : g \in Followed(f)}
  BY DEF Types, NewProvenance, Inherited
<1>5. \A g \in Functions : Types(prov[g])' = Types(prov'[g])
  OBVIOUS
<1>6. /\ \A t : <<"effect", t>> \in Marks(f)' <=> t \in Types(NewProvenance(f))
      /\ Call \in Marks(f)' <=> NewUnresolved(f)
      /\ \A m \in Marks(f)' : m = Call \/ \E t \in Types(NewProvenance(f)) : m = <<"effect", t>>
  <2>1. Marks(f)' = {<<"effect", t>> : t \in Types(NewProvenance(f))}
                       \cup (IF NewUnresolved(f) THEN {Call} ELSE {})
    BY <1>3 DEF Marks
  <2>2. \A t, u : <<"effect", t>> = <<"effect", u>> => t = u
    OBVIOUS
  <2>3. \A t : <<"effect", t>> # Call
    BY DEF Call
  <2>. QED  BY <2>1, <2>2, <2>3
<1>7. Marks(f)' = Marks(f) \cup Due(f)
  <2>1. \A t : <<"effect", t>> \in Due(f) <=>
                  \E g \in Followed(f) : t \in Types(prov[g])
    <3>. SUFFICES ASSUME NEW t
                  PROVE  <<"effect", t>> \in Due(f) <=> \E g \in Followed(f) : t \in Types(prov[g])
      OBVIOUS
    <3>. DEFINE m == <<"effect", t>>
    <3>1. m # Call
      BY DEF Call
    <3>2. \A g \in Followed(f) : m \in Marks(g) <=> t \in Types(prov[g])
      BY MarksFacts
    <3>. HIDE DEF m
    <3>3. m \in Due(f) <=> \E g \in Followed(f) : m \in Marks(g)
      BY <3>1 DEF Due
    <3>. QED  BY <3>2, <3>3 DEF m
  <2>2. Call \in Due(f) <=> CallsUnknown(f) \/ \E g \in Followed(f) : unresolved[g]
    BY MarksFacts DEF Due
  <2>3. \A m \in Due(f) : m = Call \/ \E t : m = <<"effect", t>>
    BY MarksFacts DEF Due
  <2>4. \A t : <<"effect", t>> \in Marks(f)' <=> <<"effect", t>> \in Marks(f) \cup Due(f)
    <3>1. \A t : t \in Types(NewProvenance(f)) <=>
                    t \in Types(prov[f]) \/ \E g \in Followed(f) : t \in Types(prov[g])
      BY <1>4
    <3>2. \A t : <<"effect", t>> \in Marks(f) <=> t \in Types(prov[f])
      BY MarksFacts
    <3>. QED  BY <1>6, <2>1, <3>1, <3>2
  <2>5. Call \in Marks(f)' <=> Call \in Marks(f) \cup Due(f)
    BY <1>6, <2>2, MarksFacts DEF NewUnresolved
  <2>. QED  BY <1>6, <2>3, <2>4, <2>5, MarksFacts
<1>8. \A g \in Functions : g # f => Marks(g)' = Marks(g)
  BY <1>3 DEF Marks
<1>9. \A g \in Functions : Marks(g) \subseteq Marks(g)'
  BY <1>7, <1>8
<1>10. \A g \in Functions : Due(g) \subseteq Due(g)'
  <2>1. \A g \in Functions : Followed(g)' = Followed(g) /\ (CallsUnknown(g)' <=> CallsUnknown(g))
    BY <1>2 DEF Followed, CallsUnknown
  <2>. QED  BY <1>9, <2>1, FollowedType DEF Due
<1>11. Marks(f)' = Marks(f) <=> ~Changes(f)
  <2>1. unresolved[f] \in BOOLEAN /\ NewUnresolved(f) \in BOOLEAN
    BY DEF TypeOK, NewUnresolved
  <2>2. ~Changes(f) <=> /\ Types(NewProvenance(f)) = Types(prov[f])
                        /\ NewUnresolved(f) <=> unresolved[f]
    BY <2>1, Zenon DEF Changes
  <2>3. Marks(f)' = Marks(f) => /\ Types(NewProvenance(f)) = Types(prov[f])
                                /\ NewUnresolved(f) <=> unresolved[f]
    <3>. SUFFICES ASSUME Marks(f)' = Marks(f)
                  PROVE  /\ Types(NewProvenance(f)) = Types(prov[f])
                         /\ NewUnresolved(f) <=> unresolved[f]
      OBVIOUS
    <3>1. \A t : <<"effect", t>> \in Marks(f) <=> t \in Types(prov[f])
      BY MarksFacts
    <3>2. \A t : t \in Types(NewProvenance(f)) <=> t \in Types(prov[f])
      BY <1>6, <3>1
    <3>3. Types(NewProvenance(f)) = Types(prov[f])
      BY <3>2
    <3>. QED  BY <1>6, <3>3, MarksFacts
  <2>4. ~Changes(f) => Marks(f)' = Marks(f)
    BY <1>6, <2>2, MarksFacts
  <2>. QED  BY <2>2, <2>3, <2>4
<1>. QED  BY <1>1, <1>7, <1>8, <1>9, <1>10, <1>11

LEMMA MembersFacts ==
    ASSUME InputInv, NEW s \in 1 .. Len(Order)
    PROVE  /\ Members(s) \subseteq Functions /\ IsFiniteSet(Members(s))
           /\ \A m : /\ IsFiniteSet(Holders(s, m))
                     /\ Cardinality(Holders(s, m)) \in 0 .. Len(Order[s])
           /\ \A f \in Members(s) : \A g \in Followed(f) : \E r \in 1 .. s : g \in Members(r)
<1>. DEFINE n == Len(Order[s])
            nth == [k \in 1 .. n |-> Order[s][k]]
<1>1. n \in Nat /\ \A k \in 1 .. n : Order[s][k] \in Functions
  BY InputFacts
<1>2. nth \in Surjection(1 .. n, Members(s))
  BY DEF Surjection, Members
<1>. HIDE DEF n, nth
<1>3. IsFiniteSet(1 .. n) /\ Cardinality(1 .. n) = n
  <2>1. 1 \in Int /\ n \in Int /\ (1 > n => n = 0)
    BY <1>1
  <2>. QED  BY <1>1, <2>1, FS_Interval
<1>4. IsFiniteSet(Members(s)) /\ Cardinality(Members(s)) <= n
      /\ Cardinality(Members(s)) \in Nat
  BY <1>2, <1>3, FS_Surjection, FS_CardinalityType
<1>5. ASSUME NEW m
      PROVE  IsFiniteSet(Holders(s, m)) /\ Cardinality(Holders(s, m)) \in 0 .. n
  <2>1. Holders(s, m) \in SUBSET Members(s)
    BY DEF Holders
  <2>2. IsFiniteSet(Holders(s, m)) /\ Cardinality(Holders(s, m)) <= Cardinality(Members(s))
    BY <1>4, <2>1, FS_Subset
  <2>3. Cardinality(Holders(s, m)) \in Nat
    BY <2>2, FS_CardinalityType
  <2>. QED  BY <1>1, <1>4, <2>2, <2>3
<1>6. ASSUME NEW f \in Members(s), NEW g \in Followed(f)
      PROVE  \E r \in 1 .. s : g \in Members(r)
  <2>1. PICK k \in 1 .. Len(Order[s]) : f = Order[s][k]
    BY DEF Members
  <2>2. PICK e \in input.out[f] : e.followed /\ g = e.callee
    BY DEF Followed
  <2>3. \E r \in 1 .. s : \E j \in 1 .. Len(Order[r]) : Order[r][j] = g
    BY <2>1, <2>2, InputFacts DEF CalleesFirst, Order
  <2>. QED  BY <2>3 DEF Members
<1>. QED  BY <1>1, <1>4, <1>5, <1>6 DEF n, Members

SeedsKept == \A f \in Functions : input.seeds[f] \subseteq prov[f]

(* The components before this one account for their calls, and in a later  *)
(* iteration all do.                                                       *)
Fixed ==
    \A s \in 1 .. Len(Order) :
        iterations > 0 \/ s < scc => \A f \in Members(s) : Accounts(f)

(* While this pass has changed nothing, so do the members it has visited.  *)
QuietPass ==
    scc <= Len(Order) /\ ~localChanged =>
        \A k \in 1 .. pos - 1 : Accounts(Order[scc][k])

(* Why the cap on the passes over a component is high enough: after each   *)
(* pass a mark has spread as far as it goes, or one more member has it.    *)
Spreads(m) ==
    \/ \A f \in Members(scc) : ~Lacks(f, m)
    \/ Cardinality(Holders(scc, m)) >= pass
    \/ /\ Cardinality(Holders(scc, m)) >= pass - 1
       /\ \E k \in pos .. Len(Order[scc]) : Lacks(Order[scc][k], m)

Spreading == iterations = 0 /\ scc <= Len(Order) => \A m \in AllMarks : Spreads(m)

Propagates ==
    SeedsKept /\ Fixed /\ QuietPass /\ Spreading /\ (done => iterations > 0)

(* Where a visit finds that its function accounts for its calls already,   *)
(* nothing changes for anyone.                                             *)
LEMMA IdleVisit ==
    ASSUME TypeOK, InputInv, Visit, NEW f \in Functions, f = Order[scc][pos], Accounts(f)
    PROVE  /\ \A g \in Functions : Marks(g)' = Marks(g)
           /\ ~Changes(f) /\ localChanged' = localChanged
<1>1. /\ Marks(f)' = Marks(f) \cup Due(f)
      /\ \A g \in Functions : g # f => Marks(g)' = Marks(g)
      /\ Marks(f)' = Marks(f) <=> ~Changes(f)
      /\ localChanged' = (localChanged \/ Changes(f))
  BY VisitMarks
<1>2. Due(f) \subseteq Marks(f)
  BY AccountsAsMarks
<1>3. localChanged \in BOOLEAN
  BY DEF TypeOK, CountersOK, FlagsOK
<1>. QED  BY <1>1, <1>2, <1>3

(* Marks and calls that stay as they are.                                  *)
LEMMA SameMarks ==
    ASSUME TypeOK, InputInv, input' = input,
           \A g \in Functions : Marks(g)' = Marks(g)
    PROVE  /\ \A g \in Functions : Due(g)' = Due(g)
           /\ \A g \in Functions : Accounts(g)' <=> Accounts(g)
           /\ \A s \in 1 .. Len(Order) : \A m : Holders(s, m)' = Holders(s, m)
<1>1. \A g \in Functions : Followed(g)' = Followed(g) /\ (CallsUnknown(g)' <=> CallsUnknown(g))
  BY DEF Followed, CallsUnknown
<1>2. \A g \in Functions : Due(g)' = Due(g)
  BY <1>1, FollowedType DEF Due
<1>3. ASSUME NEW g \in Functions
      PROVE  Types(prov'[g]) = Types(prov[g]) /\ (unresolved'[g] <=> unresolved[g])
  <2>1. {<<"effect", t>> : t \in Types(prov'[g])} \cup (IF unresolved'[g] THEN {Call} ELSE {})
          = Marks(g)
    BY DEF Marks
  <2>2. /\ \A t, u : <<"effect", t>> = <<"effect", u>> => t = u
        /\ \A t : <<"effect", t>> # Call
    BY DEF Call
  <2>3. \A t : t \in Types(prov'[g]) <=> <<"effect", t>> \in Marks(g)
    BY <2>1, <2>2
  <2>4. unresolved'[g] <=> Call \in Marks(g)
    BY <2>1, <2>2
  <2>5. \A t : t \in Types(prov'[g]) <=> t \in Types(prov[g])
    BY <2>3, MarksFacts
  <2>. QED  BY <2>4, <2>5, MarksFacts
<1>5. ASSUME NEW g \in Functions PROVE Accounts(g)' <=> Accounts(g)
  <2>1. \A h \in Followed(g) : h \in Functions
    BY FollowedType
  <2>. QED  BY <1>1, <1>3, <2>1 DEF Accounts
<1>6. ASSUME NEW s \in 1 .. Len(Order), NEW m PROVE Holders(s, m)' = Holders(s, m)
  <2>1. Members(s)' = Members(s)
    BY DEF Members, Order
  <2>2. Members(s) \subseteq Functions
    BY MembersFacts
  <2>. QED  BY <2>1, <2>2 DEF Holders
<1>. QED  BY <1>2, <1>5, <1>6

(* A visit takes no mark from a member of a component.                     *)
LEMMA HoldersGrow ==
    ASSUME TypeOK, InputInv, Visit, NEW s \in 1 .. Len(Order), NEW m
    PROVE  /\ Members(s)' = Members(s)
           /\ Cardinality(Holders(s, m)) \in Nat
           /\ Cardinality(Holders(s, m)') \in Nat
           /\ Cardinality(Holders(s, m)') >= Cardinality(Holders(s, m))
           /\ (\E f \in Members(s) : m \in Marks(f)' /\ m \notin Marks(f)) =>
                 Cardinality(Holders(s, m)') >= Cardinality(Holders(s, m)) + 1
<1>. DEFINE H == Holders(s, m)
            N == Holders(s, m)'
<1>1. Members(s)' = Members(s)
  BY DEF Visit, Members, Order
<1>2. Members(s) \subseteq Functions /\ IsFiniteSet(Members(s))
  BY MembersFacts
<1>3. \A g \in Functions : Marks(g) \subseteq Marks(g)'
  BY VisitMarks
<1>4. N = {g \in Members(s) : m \in Marks(g)'}
  BY <1>1 DEF Holders
<1>5. H \subseteq N /\ N \subseteq Members(s)
  BY <1>2, <1>3, <1>4 DEF Holders
<1>6. (\E f \in Members(s) : m \in Marks(f)' /\ m \notin Marks(f)) => H # N
  BY <1>4 DEF Holders
<1>. HIDE DEF H, N
<1>7. IsFiniteSet(N) /\ Cardinality(N) \in Nat
  BY <1>2, <1>5, FS_Subset, FS_CardinalityType
<1>8. /\ IsFiniteSet(H) /\ Cardinality(H) <= Cardinality(N)
      /\ Cardinality(H) = Cardinality(N) => H = N
  BY <1>5, <1>7, FS_Subset
<1>9. Cardinality(H) \in Nat
  BY <1>8, FS_CardinalityType
<1>10. Cardinality(N) >= Cardinality(H)
  BY <1>7, <1>8, <1>9
<1>11. H # N => Cardinality(N) >= Cardinality(H) + 1
  BY <1>7, <1>8, <1>9
<1>. QED  BY <1>1, <1>6, <1>7, <1>9, <1>10, <1>11 DEF H, N

(* A visit breaks into no component that accounts for its calls.           *)
LEMMA VisitFixed ==
    ASSUME TypeOK, InputInv, Fixed, Visit
    PROVE  Fixed'
<1>. DEFINE last == Len(Order)
<1>1. input' = input /\ Order' = Order /\ scc' = scc /\ iterations' = iterations
      /\ scc <= last
  BY DEF Visit, InPass, Order
<1>2. PICK f \in Functions :
         /\ f = Order[scc][pos]
         /\ prov' = [prov EXCEPT ![f] = NewProvenance(f)]
         /\ unresolved' = [unresolved EXCEPT ![f] = NewUnresolved(f)]
  BY VisitEffect
<1>3. f \in Members(scc) /\ last \in Nat /\ scc \in 1 .. last
  <2>1. pos \in 1 .. Len(Order[scc]) /\ scc \in 1 .. last
    BY InputFacts DEF Visit, InPass, TypeOK, CountersOK, LoopsOK, Order
  <2>. QED  BY <1>2, <2>1, InputFacts DEF Members
<1>4. SUFFICES ASSUME NEW s \in 1 .. last, iterations > 0 \/ s < scc, NEW g \in Members(s)
               PROVE  Accounts(g)'
  BY <1>1 DEF Fixed, Members
<1>5. g \in Functions /\ Accounts(g)
  BY <1>4, MembersFacts DEF Fixed
<1>6. CASE Accounts(f)
  BY <1>1, <1>2, <1>5, <1>6, IdleVisit, SameMarks
<1>7. CASE ~Accounts(f)
  <2>1. iterations <= 0 \/ ~(iterations > 0)
    BY <1>3, <1>7 DEF Fixed
  <2>2. s < scc /\ \A r \in 1 .. last : r < scc => f \notin Members(r)
    BY <1>3, <1>4, <1>7 DEF Fixed
  <2>3. \A h \in Followed(g) : h \in Functions /\ h # f
    <3>1. ASSUME NEW h \in Followed(g) PROVE h # f
      <4>1. PICK r \in 1 .. s : h \in Members(r)
        BY <1>4, MembersFacts
      <4>2. r \in 1 .. last /\ r < scc
        BY <1>3, <2>2
      <4>. QED  BY <2>2, <4>1, <4>2
    <3>. QED  BY <1>5, <3>1, FollowedType
  <2>4. g # f
    BY <1>4, <2>2
  <2>5. \A h \in Functions : h # f => prov'[h] = prov[h] /\ unresolved'[h] = unresolved[h]
    BY <1>2 DEF TypeOK
  <2>6. Followed(g)' = Followed(g) /\ (CallsUnknown(g)' <=> CallsUnknown(g))
    BY <1>1 DEF Followed, CallsUnknown
  <2>. QED  BY <1>5, <2>3, <2>4, <2>5, <2>6 DEF Accounts, Types
<1>. QED  BY <1>6, <1>7

LEMMA VisitQuiet ==
    ASSUME TypeOK, InputInv, QuietPass, Visit
    PROVE  QuietPass'
<1>. SUFFICES ASSUME ~localChanged', NEW j \in 1 .. pos' - 1
              PROVE  Accounts(Order[scc][j])'
  BY DEF QuietPass
<1>1. /\ input' = input /\ Order' = Order /\ scc' = scc /\ pos' = pos + 1
      /\ scc \in 1 .. Len(Order) /\ pos \in 1 .. Len(Order[scc])
  BY InputFacts DEF Visit, InPass, TypeOK, CountersOK, LoopsOK, Order
<1>2. PICK f \in Functions :
         /\ f = Order[scc][pos]
         /\ prov' = [prov EXCEPT ![f] = NewProvenance(f)]
         /\ unresolved' = [unresolved EXCEPT ![f] = NewUnresolved(f)]
         /\ localChanged' = (localChanged \/ Changes(f))
  BY VisitEffect
<1>3. ~Changes(f) /\ ~localChanged
  BY <1>2
<1>4. Accounts(f)' /\ \A g \in Functions : Accounts(g) => Accounts(g)'
  BY <1>1, <1>2, <1>3, QuietVisit
<1>5. PICK g \in Functions : g = Order[scc][j]
  BY <1>1, InputFacts
<1>6. Accounts(g)'
  <2>1. CASE j = pos
    BY <1>2, <1>4, <1>5, <2>1
  <2>2. CASE j # pos
    <3>1. j \in 1 .. pos - 1
      BY <1>1, <2>2
    <3>. QED  BY <1>1, <1>3, <1>4, <1>5, <3>1 DEF QuietPass
  <2>. QED  BY <2>1, <2>2
<1>. QED  BY <1>1, <1>5, <1>6

(* A visit carries each mark on, or finds it spread already.               *)
LEMMA VisitSpreads ==
    ASSUME TypeOK, InputInv, Spreading, Visit
    PROVE  Spreading'
<1>1. /\ input' = input /\ Order' = Order /\ scc' = scc /\ pass' = pass /\ pos' = pos + 1
      /\ iterations' = iterations
      /\ scc \in 1 .. Len(Order) /\ pos \in 1 .. Len(Order[scc]) /\ pass \in Nat
  BY InputFacts DEF Visit, InPass, TypeOK, CountersOK, LoopsOK, Order
<1>. SUFFICES ASSUME iterations = 0, NEW m \in AllMarks PROVE Spreads(m)'
  BY <1>1 DEF Spreading, AllMarks, Types
<1>2. PICK f \in Functions :
         /\ f = Order[scc][pos]
         /\ Marks(f)' = Marks(f) \cup Due(f)
         /\ \A g \in Functions : g # f => Marks(g)' = Marks(g)
         /\ \A g \in Functions : Marks(g) \subseteq Marks(g)' /\ Due(g) \subseteq Due(g)'
  BY VisitMarks
<1>3. f \in Members(scc) /\ Members(scc) \subseteq Functions
  BY <1>1, <1>2, MembersFacts DEF Members
<1>. DEFINE c == Cardinality(Holders(scc, m))
            d == Cardinality(Holders(scc, m)')
<1>4. /\ Members(scc)' = Members(scc)
      /\ c \in Nat /\ d \in Nat /\ d >= c
      /\ m \in Marks(f)' /\ m \notin Marks(f) => d >= c + 1
  BY <1>1, <1>3, HoldersGrow
<1>5. d = Cardinality(Holders(scc, m))'
  OBVIOUS
<1>. HIDE DEF c, d
<1>6. Spreads(m)' <=>
         \/ \A g \in Members(scc) : ~(m \in Due(g)' /\ m \notin Marks(g)')
         \/ d >= pass
         \/ d >= pass - 1 /\ \E k \in pos + 1 .. Len(Order[scc]) : Lacks(Order[scc][k], m)'
  BY <1>1, <1>4, <1>5 DEF Spreads, Lacks
<1>7. CASE \A g \in Members(scc) : ~Lacks(g, m)
  <2>1. m \in Due(f) => m \in Marks(f)
    BY <1>3, <1>7 DEF Lacks
  <2>2. \A g \in Functions : m \in Marks(g)' <=> m \in Marks(g)
    BY <1>2, <2>1
  <2>3. \A g \in Functions : m \in Due(g)' => m \in Due(g)
    <3>1. \A g \in Functions : Followed(g)' = Followed(g) /\ (CallsUnknown(g)' <=> CallsUnknown(g))
      BY <1>1 DEF Followed, CallsUnknown
    <3>. QED  BY <2>2, <3>1, FollowedType DEF Due
  <2>. QED  BY <1>3, <1>6, <1>7, <2>2, <2>3 DEF Lacks
<1>8. CASE c >= pass
  BY <1>1, <1>4, <1>6, <1>8
<1>9. CASE c >= pass - 1 /\ \E k \in pos .. Len(Order[scc]) : Lacks(Order[scc][k], m)
  <2>1. PICK k \in pos .. Len(Order[scc]) : Lacks(Order[scc][k], m)
    BY <1>9
  <2>2. Len(Order[scc]) \in Nat /\ k \in 1 .. Len(Order[scc])
    BY <1>1, InputFacts
  <2>3. PICK h \in Functions : h = Order[scc][k]
    BY <1>1, <2>2, InputFacts
  <2>4. m \in Due(h) /\ m \notin Marks(h)
    BY <2>1, <2>3 DEF Lacks
  <2>5. CASE h = f
    <3>1. m \in Marks(f)'
      BY <1>2, <2>4, <2>5
    <3>2. d >= c + 1
      BY <1>4, <2>4, <2>5, <3>1
    <3>3. d >= pass
      BY <1>1, <1>4, <1>9, <3>2
    <3>. QED  BY <1>6, <3>3
  <2>6. CASE h # f
    <3>1. k \in pos + 1 .. Len(Order[scc])
      <4>1. k # pos
        BY <1>2, <2>3, <2>6
      <4>. QED  BY <1>1, <2>2, <4>1
    <3>2. m \in Due(h)' /\ m \notin Marks(h)'
      BY <1>2, <2>4, <2>6
    <3>3. Lacks(Order[scc][k], m)'
      BY <1>1, <2>3, <3>2 DEF Lacks
    <3>4. d >= pass - 1
      BY <1>1, <1>4, <1>9
    <3>. QED  BY <1>6, <3>1, <3>3, <3>4
  <2>. QED  BY <2>5, <2>6
<1>. QED  BY <1>1, <1>7, <1>8, <1>9 DEF Spreading, Spreads, c

(* When the passes over a component end, its members account for their     *)
(* calls: the last pass was quiet, or there was one for every member.      *)
LEMMA ComponentEnds ==
    ASSUME TypeOK, InputInv, Fixed, QuietPass, Spreading, NextComponent
    PROVE  \A f \in Members(scc) : Accounts(f)
<1>1. /\ scc \in 1 .. Len(Order) /\ pos > Len(Order[scc]) /\ pos <= Len(Order[scc]) + 1
      /\ pos \in Nat /\ pass \in Nat /\ Len(Order[scc]) \in Nat
      /\ ~localChanged \/ pass >= Len(Order[scc]) + 1
      /\ iterations \in Nat
  BY InputFacts, InputAssumption
     DEF NextComponent, PassEnded, TypeOK, CountersOK, LoopsOK, IterationsOK, MaxPasses, Order
<1>2. CASE iterations > 0
  BY <1>1, <1>2 DEF Fixed
<1>3. CASE ~localChanged
  <2>1. pos - 1 = Len(Order[scc]) /\ scc <= Len(Order)
    BY <1>1
  <2>. QED  BY <1>3, <2>1 DEF QuietPass, Members
<1>4. CASE iterations = 0 /\ pass >= Len(Order[scc]) + 1
  <2>. SUFFICES ASSUME NEW f \in Members(scc), NEW m \in Due(f), m \notin Marks(f)
                PROVE  FALSE
    <3>1. Members(scc) \subseteq Functions
      BY <1>1, MembersFacts
    <3>. QED  BY <3>1, AccountsAsMarks
  <2>1. m \in AllMarks
    BY <1>1, MembersFacts, MarksTyped
  <2>2. Spreads(m)
    BY <1>1, <1>4, <2>1 DEF Spreading
  <2>3. Cardinality(Holders(scc, m)) \in 0 .. Len(Order[scc])
    BY <1>1, MembersFacts
  <2>. HIDE DEF Holders
  <2>4. ~(Cardinality(Holders(scc, m)) >= pass)
    BY <1>1, <1>4, <2>3
  <2>5. ~\E k \in pos .. Len(Order[scc]) : Lacks(Order[scc][k], m)
    BY <1>1
  <2>6. \A g \in Members(scc) : ~Lacks(g, m)
    BY <2>2, <2>4, <2>5 DEF Spreads
  <2>. QED  BY <2>6 DEF Lacks
<1>. QED  BY <1>1, <1>2, <1>3, <1>4

LEMMA PropagatesInit ==
    ASSUME Init
    PROVE  Propagates
<1>1. InputInv
  BY DEF Init, InputInv
<1>2. SeedsKept
  BY DEF Init, SeedsKept
<1>3. Fixed /\ QuietPass
  BY <1>1, InputFacts DEF Init, Fixed, QuietPass
<1>4. ASSUME 1 <= Len(Order), NEW m PROVE Spreads(m)
  <2>1. 1 \in 1 .. Len(Order) /\ Len(Order[1]) \in Nat
    BY <1>1, <1>4, InputFacts
  <2>2. Cardinality(Holders(1, m)) \in Nat
    BY <1>1, <2>1, MembersFacts
  <2>. HIDE DEF Holders
  <2>3. scc = 1 /\ pos = 1 /\ pass = 1
    BY DEF Init
  <2>. QED  BY <2>1, <2>2, <2>3 DEF Spreads, Members
<1>. QED  BY <1>2, <1>3, <1>4 DEF Init, Propagates, Spreading

LEMMA PropagatesStep ==
    ASSUME TypeOK, InputInv, Propagates, [Next]_vars
    PROVE  Propagates'
<1>. DEFINE last == Len(Order)
<1>1. input' = input /\ Order' = Order
  BY DEF Next, Visit, NextPass, NextComponent, NextIteration, Return, vars, Order
<1>2. /\ last \in Nat /\ scc \in 1 .. last + 1 /\ pass \in Nat /\ iterations \in Nat
      /\ \A s \in 1 .. last : Len(Order[s]) \in Nat
  BY InputFacts, InputAssumption DEF TypeOK, CountersOK, LoopsOK, IterationsOK, Order
<1>3. SeedsKept'
  <2>1. \A f \in Functions : prov[f] \subseteq prov'[f]
    <3>1. CASE Visit
      BY <3>1, VisitEffect DEF TypeOK, NewProvenance
    <3>2. CASE ~Visit
      BY <3>2, OthersKeepSummaries
    <3>. QED  BY <3>1, <3>2
  <2>. QED  BY <1>1, <2>1 DEF Propagates, SeedsKept
<1>4. ASSUME UNCHANGED <<input, prov, unresolved>>
      PROVE  /\ \A g : Accounts(g)' <=> Accounts(g)
             /\ \A g, m : Lacks(g, m)' <=> Lacks(g, m)
             /\ \A g : Marks(g)' = Marks(g)
             /\ \A s, m : Holders(s, m)' = Holders(s, m) /\ Members(s)' = Members(s)
  <2>1. \A g : Accounts(g)' <=> Accounts(g)
    BY <1>4 DEF Accounts, Followed, CallsUnknown, Types
  <2>2. \A g : Marks(g)' = Marks(g)
    BY <1>4 DEF Marks, Types
  <2>3. \A g : Due(g)' = Due(g)
    BY <1>4, <2>2 DEF Due, Followed, CallsUnknown
  <2>4. \A s : Members(s)' = Members(s)
    BY <1>1 DEF Members
  <2>. QED  BY <2>1, <2>2, <2>3, <2>4 DEF Lacks, Holders
<1>5. CASE Visit
  <2>1. Fixed' /\ QuietPass' /\ Spreading'
    BY <1>5, VisitFixed, VisitQuiet, VisitSpreads DEF Propagates
  <2>2. done' = done /\ iterations' = iterations
    BY <1>5 DEF Visit
  <2>. QED  BY <1>3, <2>1, <2>2 DEF Propagates
<1>6. CASE NextPass
  <2>1. /\ UNCHANGED <<input, prov, unresolved, scc, iterations, done>>
        /\ pass' = pass + 1 /\ pos' = 1 /\ scc \in 1 .. last /\ pos > Len(Order[scc])
        /\ pos \in Nat
    BY <1>2, <1>6 DEF NextPass, PassEnded, TypeOK, CountersOK, LoopsOK, Order
  <2>2. Fixed' /\ QuietPass'
    BY <1>1, <1>4, <2>1 DEF Propagates, Fixed, QuietPass, Members
  <2>3. ASSUME iterations = 0, NEW m \in AllMarks PROVE Spreads(m)'
    <3>1. Spreads(m)
      BY <1>2, <2>1, <2>3 DEF Propagates, Spreading
    <3>2. Cardinality(Holders(scc, m)) \in Nat
      BY <2>1, MembersFacts
    <3>. DEFINE c == Cardinality(Holders(scc, m))
    <3>3. c = Cardinality(Holders(scc, m))' /\ Members(scc)' = Members(scc)
      BY <1>4, <2>1
    <3>. HIDE DEF c
    <3>4. \/ \A g \in Members(scc) : ~Lacks(g, m)
          \/ c >= pass
      BY <1>2, <2>1, <3>1 DEF Spreads, c
    <3>5. CASE \A g \in Members(scc) : ~Lacks(g, m)
      BY <1>4, <2>1, <3>3, <3>5 DEF Spreads
    <3>6. CASE c >= pass /\ \E g \in Members(scc) : Lacks(g, m)
      <4>1. PICK k \in 1 .. Len(Order[scc]) : Lacks(Order[scc][k], m)
        BY <3>6 DEF Members
      <4>2. Lacks(Order[scc][k], m)'
        BY <1>1, <1>4, <2>1, <4>1 DEF Lacks
      <4>3. c >= pass' - 1
        BY <1>2, <2>1, <3>6
      <4>4. \E j \in pos' .. Len(Order[scc])' : Lacks(Order[scc][j], m)'
        BY <1>1, <2>1, <4>1, <4>2
      <4>. QED  BY <1>1, <2>1, <3>3, <4>3, <4>4 DEF Spreads
    <3>. QED  BY <3>4, <3>5, <3>6
  <2>4. Spreading'
    BY <2>1, <2>3 DEF Spreading, AllMarks, Types
  <2>. QED  BY <1>3, <2>1, <2>2, <2>4 DEF Propagates
<1>7. CASE NextComponent
  <2>1. /\ UNCHANGED <<input, prov, unresolved, iterations, done>>
        /\ scc' = scc + 1 /\ pass' = 1 /\ pos' = 1 /\ scc \in 1 .. last
    BY <1>2, <1>7 DEF NextComponent, PassEnded, Order
  <2>2. \A f \in Members(scc) : Accounts(f)
    BY <1>7, ComponentEnds DEF Propagates
  <2>3. Fixed' /\ QuietPass'
    <3>1. ASSUME NEW s \in 1 .. last, iterations > 0 \/ s < scc + 1, NEW f \in Members(s)
          PROVE  Accounts(f)
      BY <1>2, <2>1, <2>2, <3>1 DEF Propagates, Fixed
    <3>. QED  BY <1>1, <1>4, <2>1, <3>1 DEF Fixed, QuietPass, Members
  <2>4. ASSUME scc + 1 <= last, NEW m PROVE Spreads(m)'
    <3>1. scc + 1 \in 1 .. last /\ Len(Order[scc + 1]) \in Nat
      BY <1>2, <2>1, <2>4
    <3>. DEFINE c == Cardinality(Holders(scc + 1, m))
    <3>2. c \in Nat
      BY <3>1, MembersFacts
    <3>3. /\ c = Cardinality(Holders(scc, m))'
          /\ \A g : Lacks(g, m)' <=> Lacks(g, m)
          /\ Members(scc)' = Members(scc + 1)
      <4>1. Members(scc)' = Members(scc + 1)
        BY <1>1, <2>1 DEF Members
      <4>2. Holders(scc, m)' = Holders(scc + 1, m)
        <5>1. \A g : Marks(g)' = Marks(g)
          BY <1>4, <2>1
        <5>2. Holders(scc, m)' = {f \in Members(scc + 1) : m \in Marks(f)'}
          BY <4>1 DEF Holders
        <5>. HIDE DEF Members
        <5>. QED  BY <5>1, <5>2 DEF Holders
      <4>. HIDE DEF Holders
      <4>3. \A g : Lacks(g, m)' <=> Lacks(g, m)
        BY <1>4, <2>1
      <4>. QED  BY <4>1, <4>2, <4>3
    <3>. HIDE DEF c
    <3>4. CASE \A g \in Members(scc + 1) : ~Lacks(g, m)
      BY <3>3, <3>4 DEF Spreads
    <3>5. CASE \E g \in Members(scc + 1) : Lacks(g, m)
      <4>1. PICK k \in 1 .. Len(Order[scc + 1]) : Lacks(Order[scc + 1][k], m)
        BY <3>5 DEF Members
      <4>2. Lacks(Order[scc][k], m)'
        BY <1>1, <1>4, <2>1, <4>1 DEF Lacks
      <4>3. c >= pass' - 1
        BY <2>1, <3>2
      <4>4. \E j \in pos' .. Len(Order[scc])' : Lacks(Order[scc][j], m)'
        BY <1>1, <2>1, <4>1, <4>2
      <4>. QED  BY <3>3, <4>3, <4>4 DEF Spreads
    <3>. QED  BY <3>4, <3>5
  <2>5. Spreading'
    BY <1>1, <2>1, <2>4 DEF Spreading
  <2>. QED  BY <1>3, <2>1, <2>3, <2>5 DEF Propagates
<1>8. CASE NextIteration \/ Return
  <2>1. /\ UNCHANGED <<input, prov, unresolved>>
        /\ iterations' = iterations + 1 /\ iterations' > 0
        /\ scc > last /\ pos = 1 /\ pos' = pos
    BY <1>2, <1>8
       DEF NextIteration, Return, IterationEnded, TypeOK, CountersOK, LoopsOK, Order
  <2>2. \A s \in 1 .. last : \A f \in Members(s) : Accounts(f)
    BY <1>2, <2>1 DEF Propagates, Fixed
  <2>3. Fixed' /\ QuietPass' /\ Spreading'
    BY <1>1, <1>2, <1>4, <2>1, <2>2 DEF Fixed, QuietPass, Spreading, Members
  <2>. QED  BY <1>3, <2>1, <2>3 DEF Propagates
<1>9. CASE UNCHANGED vars
  <2>1. UNCHANGED <<input, prov, unresolved, scc, pass, pos, localChanged, iterations, done>>
    BY <1>9 DEF vars, counters
  <2>2. Fixed' /\ QuietPass'
    BY <1>1, <1>4, <2>1 DEF Propagates, Fixed, QuietPass, Members
  <2>3. \A m : Spreads(m) => Spreads(m)'
    <3>. SUFFICES ASSUME NEW m, Spreads(m) PROVE Spreads(m)'
      OBVIOUS
    <3>1. /\ Cardinality(Holders(scc, m))' = Cardinality(Holders(scc, m))
          /\ Members(scc)' = Members(scc)
          /\ \A g : Lacks(g, m)' <=> Lacks(g, m)
      BY <1>4, <2>1
    <3>2. \A k : Lacks(Order[scc][k], m) => Lacks(Order[scc][k], m)'
      BY <1>1, <1>4, <2>1 DEF Lacks
    <3>. QED  BY <1>1, <2>1, <3>1, <3>2 DEF Spreads
  <2>. QED  BY <1>1, <1>3, <2>1, <2>2, <2>3 DEF Propagates, Spreading, AllMarks, Types
<1>. QED  BY <1>5, <1>6, <1>7, <1>8, <1>9 DEF Next

(* When propagation returns, no summary lacks an effect type of a function *)
(* its own can call, or the incomplete mark of an unknown call among them: *)
(* the caps on passes and iterations are never the reason it stopped.      *)
THEOREM NothingMissed == Spec => []NoEffectMissed
<1>1. TypeOK /\ InputInv /\ Propagates => NoEffectMissed
  <2>. SUFFICES ASSUME TypeOK, InputInv, Propagates, done, NEW f \in Functions
                PROVE  /\ Types(CallableSinks(f)) \subseteq Types(prov[f])
                       /\ (\E g \in Callable(f) : CallsUnknown(g)) => unresolved[f]
    BY DEF NoEffectMissed
  <2>1. \A g \in Functions : Accounts(g)
    <3>. SUFFICES ASSUME NEW g \in Functions PROVE Accounts(g)
      OBVIOUS
    <3>1. PICK s \in 1 .. Len(Order) : g \in Members(s)
      BY InputFacts DEF Covers, Members
    <3>. QED  BY <3>1 DEF Propagates, Fixed
  <2>. DEFINE told == {g \in Functions : /\ Types(prov[g]) \subseteq Types(prov[f])
                                         /\ unresolved[g] => unresolved[f]}
  <2>2. f \in told /\ \A g \in told : Followed(g) \subseteq told
    BY <2>1, FollowedType DEF Accounts
  <2>3. Callable(f) \subseteq told
    BY <2>2, CallableFacts
  <2>4. \A g \in Callable(f) : Types(input.seeds[g]) \subseteq Types(prov[f])
    BY <2>3 DEF Propagates, SeedsKept, Types
  <2>5. Types(CallableSinks(f)) \subseteq Types(prov[f])
    BY <2>4 DEF CallableSinks, Types
  <2>6. \A g \in Callable(f) : CallsUnknown(g) => unresolved[f]
    BY <2>1, <2>3 DEF Accounts
  <2>. QED  BY <2>5, <2>6
<1>2. Init => Propagates
  BY PropagatesInit
<1>3. TypeOK /\ InputInv /\ Propagates /\ [Next]_vars => Propagates'
  BY PropagatesStep
<1>. QED  BY <1>1, <1>2, <1>3, TypesInductive, PTL DEF Spec
=============================================================================
