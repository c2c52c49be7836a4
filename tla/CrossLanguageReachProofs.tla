----------------------- MODULE CrossLanguageReachProofs -----------------------
(***************************************************************************)
(* What the repository layer and the layer of the other languages          *)
(* guarantee for every repository and every bound on the depth, whatever   *)
(* fails: they take nothing back from the reports of the scan, a finding   *)
(* of the Python layer lies at the end of a chain of resolved calls from   *)
(* an entrypoint, and a sink that only such chains reach is reported.      *)
(* Then, for the search in the TypeScript or Go files: a chain it reports  *)
(* is a chain of calls the code makes, and a sink that plain calls run is  *)
(* reported unless a call the search did not follow is disclosed.  Last,   *)
(* for the Python index: the graph has the edge of every call whose name   *)
(* plainly means one function.                                             *)
(***************************************************************************)
EXTENDS CrossLanguageReach, FiniteSetTheorems, TLAPS, WellFoundedInduction

-----------------------------------------------------------------------------
(* Numbers and sequences.                                                  *)

(* A set of natural numbers that is not empty has a least element.         *)
LEMMA LeastNat ==
    ASSUME NEW S \in SUBSET Nat, S # {}
    PROVE  \E m \in S : \A k \in S : m <= k
<1>. DEFINE R == {ss \in Nat \X Nat : ss[1] < ss[2]}
<1>1. IsWellFoundedOn(R, Nat)
  <2>1. R = OpToRel(<, Nat)
    BY DEF OpToRel
  <2>. QED  BY <2>1, NatLessThanWellFounded, Zenon
<1>2. PICK m \in S : \A k \in S : <<k, m>> \notin R
  <2>. HIDE DEF R
  <2>. QED  BY <1>1, WFMin, Zenon
<1>3. ASSUME NEW k \in S PROVE m <= k
  <2>1. <<k, m>> \notin R /\ k \in Nat /\ m \in Nat
    BY <1>2
  <2>. QED  BY <2>1
<1>. QED  BY <1>3

(* A set with 0, and with the successor of each of its numbers below n,    *)
(* has all numbers up to n.                                                *)
LEMMA IntervalInduction ==
    ASSUME NEW n \in Nat, NEW S, 0 \in S, \A k \in 0 .. n - 1 : k \in S => k + 1 \in S
    PROVE  0 .. n \subseteq S
<1>. SUFFICES ASSUME (0 .. n) \ S # {} PROVE FALSE
  OBVIOUS
<1>. DEFINE missing == (0 .. n) \ S
<1>1. missing \in SUBSET Nat /\ missing # {}
  OBVIOUS
<1>2. PICK m \in missing : \A k \in missing : m <= k
  <2>. HIDE DEF missing
  <2>. QED  BY <1>1, LeastNat
<1>3. m \in 0 .. n /\ m # 0 /\ m - 1 \in 0 .. n - 1 /\ (m - 1) + 1 = m
  BY <1>2
<1>4. m - 1 \in S
  BY <1>2, <1>3
<1>. QED  BY <1>2, <1>3, <1>4

(* A function of 0 .. n that is given by its first value and by how each   *)
(* value follows from the one before exists: recursive functions are       *)
(* defined by CHOOSE, and this is what there is to choose.                 *)
Recursion(f, a, step, n) ==
    f[0] = a /\ \A k \in 1 .. n : f[k] = step[<<k, f[k - 1]>>]

LEMMA RecursionExists ==
    ASSUME NEW n \in Nat, NEW T, NEW a \in T, NEW step \in [(1 .. n) \X T -> T]
    PROVE  \E f \in [0 .. n -> T] : Recursion(f, a, step, n)
<1>. DEFINE Starts(f) == f[0] = a
            Goes(f, m) == \A k \in 1 .. m : f[k] = step[<<k, f[k - 1]>>]
            Defined == {m \in 0 .. n : \E f \in [0 .. m -> T] : Starts(f) /\ Goes(f, m)}
<1>1. 0 \in Defined
  <2>. DEFINE g == [k \in 0 .. 0 |-> a]
  <2>1. g \in [0 .. 0 -> T] /\ Starts(g) /\ Goes(g, 0)
    OBVIOUS
  <2>2. 0 \in 0 .. n
    OBVIOUS
  <2>. HIDE DEF g, Starts, Goes
  <2>. QED  BY <2>1, <2>2
<1>2. ASSUME NEW m \in 0 .. n - 1, m \in Defined PROVE m + 1 \in Defined
  <2>1. PICK f \in [0 .. m -> T] : Starts(f) /\ Goes(f, m)
    BY <1>2
  <2>. DEFINE x == step[<<m + 1, f[m]>>]
              g == [k \in 0 .. m + 1 |-> IF k = m + 1 THEN x ELSE f[k]]
  <2>2. x \in T
    <3>1. m + 1 \in 1 .. n /\ f[m] \in T
      OBVIOUS
    <3>2. <<m + 1, f[m]>> \in (1 .. n) \X T
      BY <3>1
    <3>. QED  BY <3>2
  <2>. HIDE DEF x
  <2>3. \A k \in 0 .. m : g[k] = f[k]
    OBVIOUS
  <2>4. g[m + 1] = x
    OBVIOUS
  <2>5. g \in [0 .. m + 1 -> T]
    BY <2>2
  <2>. HIDE DEF g
  <2>6. Starts(g)
    BY <2>1, <2>3
  <2>7. ASSUME NEW k \in 1 .. m + 1 PROVE g[k] = step[<<k, g[k - 1]>>]
    <3>1. CASE k = m + 1
      <4>1. k - 1 = m /\ g[m] = f[m]
        BY <3>1, <2>3
      <4>. QED  BY <3>1, <4>1, <2>4 DEF x
    <3>2. CASE k # m + 1
      <4>1. k \in 1 .. m /\ k - 1 \in 0 .. m /\ k \in 0 .. m
        BY <3>2
      <4>. QED  BY <4>1, <2>1, <2>3
    <3>. QED  BY <3>1, <3>2
  <2>8. m + 1 \in 0 .. n
    OBVIOUS
  <2>. QED  BY <2>5, <2>6, <2>7, <2>8
<1>3. 0 .. n \subseteq Defined
  <2>. HIDE DEF Defined
  <2>. QED  BY <1>1, <1>2, IntervalInduction, Zenon
<1>4. n \in Defined
  BY <1>3
<1>5. PICK f \in [0 .. n -> T] : Starts(f) /\ Goes(f, n)
  BY <1>4
<1>. QED  BY <1>5 DEF Recursion

(* What is left of a sequence when its head is taken.                       *)
LEMMA TailInSeq ==
    ASSUME NEW S, NEW s \in Seq(S), s # <<>>
    PROVE  /\ Head(s) \in S
           /\ Tail(s) \in Seq(S)
           /\ Len(Tail(s)) = Len(s) - 1
           /\ Len(s) > 0
           /\ Head(s) = s[1]
           /\ \A i \in 1 .. Len(Tail(s)) : Tail(s)[i] = s[i + 1]
OBVIOUS

(* A sequence with one more element.                                       *)
LEMMA AppendInSeq ==
    ASSUME NEW S, NEW s \in Seq(S), NEW x \in S
    PROVE  /\ Append(s, x) \in Seq(S)
           /\ Len(Append(s, x)) = Len(s) + 1
           /\ \A i \in 1 .. Len(s) : Append(s, x)[i] = s[i]
           /\ Append(s, x)[Len(s) + 1] = x
OBVIOUS

(* The elements of a sequence. *)
Elements(s) == {s[i] : i \in DOMAIN s}

(* Kept keeps what is in A. *)
LEMMA KeptFacts ==
    ASSUME NEW T, NEW s \in Seq(T), NEW A
    PROVE  /\ Kept(s, A) \in Seq(T)
           /\ Elements(Kept(s, A)) = Elements(s) \cap A
<1>. DEFINE n == Len(s)
            Next1(t, k) == IF s[k] \in A THEN Append(t, s[k]) ELSE t
            Step(f, k) == IF k = 0 THEN <<>> ELSE Next1(f[k - 1], k)
            kept == CHOOSE f : f = [k \in 0 .. n |-> Step(f, k)]
<1>1. n \in Nat /\ DOMAIN s = 1 .. n /\ \A k \in 1 .. n : s[k] \in T
  OBVIOUS
<1>2. Kept(s, A) = kept[n]
  BY DEF Kept
<1>3. \E f : f = [k \in 0 .. n |-> Step(f, k)]
  <2>. DEFINE step == [p \in (1 .. n) \X Seq(T) |-> Next1(p[2], p[1])]
  <2>1. step \in [(1 .. n) \X Seq(T) -> Seq(T)]
    BY <1>1
  <2>2. <<>> \in Seq(T)
    OBVIOUS
  <2>3. \A k \in 1 .. n : \A t \in Seq(T) : step[<<k, t>>] = Next1(t, k)
    OBVIOUS
  <2>. HIDE DEF step, n, Next1
  <2>4. PICK f \in [0 .. n -> Seq(T)] :
           f[0] = <<>> /\ \A k \in 1 .. n : f[k] = step[<<k, f[k - 1]>>]
    <3>. DEFINE V == Seq(T)
                a == <<>>
    <3>1. n \in Nat /\ a \in V /\ step \in [(1 .. n) \X V -> V]
      BY <1>1, <2>1, <2>2
    <3>. HIDE DEF V, a
    <3>2. \E f \in [0 .. n -> V] : Recursion(f, a, step, n)
      BY <3>1, RecursionExists, Zenon
    <3>. QED  BY <3>2 DEF V, a, Recursion
  <2>5. ASSUME NEW k \in 0 .. n PROVE f[k] = Step(f, k)
    <3>1. CASE k = 0
      BY <2>4, <3>1
    <3>2. CASE k # 0
      <4>1. k \in 1 .. n /\ k - 1 \in 0 .. n
        BY <1>1, <3>2
      <4>. QED  BY <3>2, <4>1, <2>3, <2>4
    <3>. QED  BY <3>1, <3>2
  <2>. HIDE DEF Step
  <2>6. f = [k \in 0 .. n |-> Step(f, k)]
    BY <2>5
  <2>. QED  BY <2>6
<1>. HIDE DEF n, Next1
<1>4. kept = [k \in 0 .. n |-> Step(kept, k)]
  <2>. HIDE DEF Step
  <2>. QED  BY <1>3
<1>. HIDE DEF kept
<1>5. kept[0] = <<>> /\ \A k \in 0 .. n - 1 : kept[k + 1] = Next1(kept[k], k + 1)
  <2>1. \A k \in 0 .. n : kept[k] = Step(kept, k)
    BY <1>4
  <2>2. \A k \in 0 .. n - 1 : k + 1 \in 0 .. n /\ k + 1 # 0 /\ (k + 1) - 1 = k
    BY <1>1
  <2>. QED  BY <1>1, <2>1, <2>2
<1>. DEFINE Good == {k \in 0 .. n :
                 /\ kept[k] \in Seq(T)
                 /\ Elements(kept[k]) = {s[i] : i \in 1 .. k} \cap A}
<1>6. 0 \in Good
  <2>1. kept[0] = <<>> /\ DOMAIN kept[0] = {}
    BY <1>5
  <2>2. Elements(kept[0]) = {}
    BY <2>1 DEF Elements
  <2>3. {s[i] : i \in 1 .. 0} = {}
    OBVIOUS
  <2>4. 0 \in 0 .. n /\ kept[0] \in Seq(T)
    BY <1>1, <2>1
  <2>. QED  BY <2>2, <2>3, <2>4
<1>7. ASSUME NEW k \in 0 .. n - 1, k \in Good PROVE k + 1 \in Good
  <2>. DEFINE t == kept[k]
              u == kept[k + 1]
              x == s[k + 1]
  <2>1. /\ t \in Seq(T) /\ Elements(t) = {s[i] : i \in 1 .. k} \cap A
        /\ k + 1 \in 1 .. n /\ k + 1 \in 0 .. n /\ x \in T
    BY <1>1, <1>7
  <2>2. u = IF x \in A THEN Append(t, x) ELSE t
    BY <1>5 DEF Next1
  <2>3. {s[i] : i \in 1 .. k + 1} = {s[i] : i \in 1 .. k} \cup {x}
    OBVIOUS
  <2>. HIDE DEF t, u
  <2>4. CASE x \notin A
    BY <2>1, <2>2, <2>3, <2>4 DEF u
  <2>5. CASE x \in A
    <3>1. /\ u \in Seq(T) /\ Len(t) \in Nat
          /\ DOMAIN t = 1 .. Len(t)
          /\ DOMAIN u = (1 .. Len(t)) \cup {Len(t) + 1}
          /\ \A i \in 1 .. Len(t) : u[i] = t[i]
          /\ u[Len(t) + 1] = x
      <4>1. u = Append(t, x)
        BY <2>2, <2>5
      <4>. QED  BY <2>1, <4>1, AppendInSeq
    <3>2. Elements(u) = Elements(t) \cup {x}
      BY <3>1 DEF Elements
    <3>. QED  BY <2>1, <2>3, <2>5, <3>1, <3>2 DEF u
  <2>. QED  BY <2>4, <2>5
<1>8. n \in Good
  <2>. HIDE DEF Good
  <2>1. 0 .. n \subseteq Good
    BY <1>1, <1>6, <1>7, IntervalInduction, Zenon
  <2>. QED  BY <1>1, <2>1
<1>9. Elements(s) = {s[i] : i \in 1 .. n}
  BY <1>1 DEF Elements
<1>. QED  BY <1>2, <1>8, <1>9

-----------------------------------------------------------------------------
(* Sets and sequences of sequences as one sequence.                        *)

LEMMA SetToSeqFacts ==
    ASSUME NEW S, IsFiniteSet(S)
    PROVE  /\ SetToSeq(S) \in Seq(S)
           /\ \A x \in S : \E i \in 1 .. Len(SetToSeq(S)) : SetToSeq(S)[i] = x
<1>. DEFINE n == Cardinality(S)
            f == SetToSeq(S)
<1>1. n \in Nat /\ ExistsBijection(1 .. n, S)
  BY FS_CardinalityType
<1>2. \E g \in [1 .. n -> S] : IsInjective(g)
  BY <1>1 DEF ExistsBijection, Bijection, Injection
<1>3. f \in [1 .. n -> S] /\ IsInjective(f)
  BY <1>2 DEF SetToSeq
<1>. HIDE DEF f, n
<1>4. f \in Injection(1 .. n, S)
  BY <1>3 DEF Injection
<1>5. IsFiniteSet(1 .. n) /\ Cardinality(1 .. n) = n
  <2>1. 1 \in Int /\ n \in Int /\ (1 > n => n = 0)
    BY <1>1
  <2>. QED  BY <1>1, <2>1, FS_Interval
<1>6. f \in Surjection(1 .. n, S)
  BY <1>4, <1>5, FS_Injection DEF n
<1>7. f \in Seq(S) /\ Len(f) = n
  BY <1>1, <1>3
<1>. QED  BY <1>6, <1>7 DEF f, Surjection

LEMMA ConcatElements ==
    ASSUME NEW T, NEW s \in Seq(T), NEW t \in Seq(T)
    PROVE  s \o t \in Seq(T) /\ Elements(s \o t) = Elements(s) \cup Elements(t)
<1>1. /\ s \o t \in Seq(T) /\ Len(s) \in Nat /\ Len(t) \in Nat
      /\ Len(s \o t) = Len(s) + Len(t)
      /\ \A i \in 1 .. Len(s) : (s \o t)[i] = s[i]
  OBVIOUS
<1>2. \A i \in 1 .. Len(t) : (s \o t)[Len(s) + i] = t[i]
  OBVIOUS
<1>. DEFINE u == s \o t
<1>. HIDE DEF u
<1>3. \A i \in 1 .. Len(s) : i \in 1 .. Len(u) /\ u[i] = s[i]
  BY <1>1 DEF u
<1>4. \A i \in 1 .. Len(t) : Len(s) + i \in 1 .. Len(u) /\ u[Len(s) + i] = t[i]
  BY <1>1, <1>2 DEF u
<1>5. \A i \in 1 .. Len(u) : u[i] \in Elements(s) \cup Elements(t)
  <2>1. ASSUME NEW i \in 1 .. Len(u), i > Len(s) PROVE i - Len(s) \in 1 .. Len(t) /\ u[i] = t[i - Len(s)]
    <3>1. i - Len(s) \in 1 .. Len(t) /\ Len(s) + (i - Len(s)) = i
      BY <1>1, <2>1 DEF u
    <3>. QED  BY <1>4, <3>1
  <2>2. ASSUME NEW i \in 1 .. Len(u), ~(i > Len(s)) PROVE i \in 1 .. Len(s)
    BY <1>1, <2>2
  <2>. QED  BY <1>3, <2>1, <2>2 DEF Elements
<1>6. Elements(u) = Elements(s) \cup Elements(t)
  <2>1. DOMAIN u = 1 .. Len(u) /\ DOMAIN s = 1 .. Len(s) /\ DOMAIN t = 1 .. Len(t)
    BY <1>1 DEF u
  <2>2. \A x \in Elements(s) : x \in Elements(u)
    BY <1>3, <2>1 DEF Elements
  <2>3. \A x \in Elements(t) : x \in Elements(u)
    BY <1>4, <2>1 DEF Elements
  <2>4. \A x \in Elements(u) : x \in Elements(s) \cup Elements(t)
    BY <1>5, <2>1 DEF Elements
  <2>. QED  BY <2>2, <2>3, <2>4
<1>. QED  BY <1>1, <1>6 DEF u

LEMMA FlattenInSeq ==
    ASSUME NEW T, NEW rows \in Seq(Seq(T))
    PROVE  /\ FlattenSeq(rows) \in Seq(T)
           /\ Elements(FlattenSeq(rows)) = UNION {Elements(rows[i]) : i \in 1 .. Len(rows)}
<1>. DEFINE n == Len(rows)
            Goes(f, k) == IF k = 1 THEN rows[k] ELSE f[k - 1] \o rows[k]
            flatten == CHOOSE f : f = [k \in 1 .. n |-> Goes(f, k)]
<1>1. n \in Nat /\ DOMAIN rows = 1 .. n /\ \A k \in 1 .. n : rows[k] \in Seq(T)
  OBVIOUS
<1>2. FlattenSeq(rows) = IF n = 0 THEN rows ELSE flatten[n]
  BY DEF FlattenSeq
<1>3. CASE n = 0
  <2>1. rows = <<>> /\ <<>> \in Seq(T)
    BY <1>1, <1>3
  <2>2. Elements(rows) = {} /\ UNION {Elements(rows[i]) : i \in 1 .. n} = {}
    BY <1>1, <1>3 DEF Elements
  <2>. QED  BY <1>2, <1>3, <2>1, <2>2
<1>4. CASE n # 0
  <2>. DEFINE V == Seq(T)
              m == n - 1
              a == rows[1]
              step == [p \in (1 .. m) \X V |-> p[2] \o rows[p[1] + 1]]
  <2>1. m \in Nat /\ m + 1 = n /\ a \in V
    BY <1>1, <1>4
  <2>2. step \in [(1 .. m) \X V -> V]
    <3>1. \A p \in (1 .. m) \X V : p[1] + 1 \in 1 .. n
      BY <1>1, <2>1
    <3>. QED  BY <1>1, <3>1
  <2>3. \A k \in 1 .. m : \A t \in V : step[<<k, t>>] = t \o rows[k + 1]
    OBVIOUS
  <2>4. PICK g \in [0 .. m -> V] : g[0] = a /\ \A k \in 1 .. m : g[k] = step[<<k, g[k - 1]>>]
    <3>. HIDE DEF V, m, a, step
    <3>1. \E g \in [0 .. m -> V] : Recursion(g, a, step, m)
      BY <2>1, <2>2, RecursionExists, Zenon
    <3>. QED  BY <3>1 DEF Recursion
  <2>. HIDE DEF step, V
  <2>5. \E f : f = [k \in 1 .. n |-> Goes(f, k)]
    <3>. DEFINE f == [k \in 1 .. n |-> g[k - 1]]
    <3>1. ASSUME NEW k \in 1 .. n PROVE f[k] = Goes(f, k)
      <4>1. CASE k = 1
        BY <1>1, <1>4, <2>4, <4>1
      <4>2. CASE k # 1
        <5>1. k - 1 \in 1 .. m /\ k - 1 \in 1 .. n /\ (k - 1) + 1 = k /\ (k - 1) - 1 \in 0 .. m
          BY <1>1, <2>1, <4>2
        <5>2. g[k - 1] = g[(k - 1) - 1] \o rows[k]
          BY <2>3, <2>4, <5>1
        <5>3. f[k] = g[k - 1] /\ f[k - 1] = g[(k - 1) - 1]
          BY <5>1
        <5>. QED  BY <4>2, <5>2, <5>3
      <4>. QED  BY <4>1, <4>2
    <3>. HIDE DEF Goes
    <3>2. f = [k \in 1 .. n |-> Goes(f, k)]
      BY <3>1
    <3>. HIDE DEF f
    <3>. QED  BY <3>2
  <2>6. flatten = [k \in 1 .. n |-> Goes(flatten, k)]
    <3>. HIDE DEF Goes
    <3>. QED  BY <2>5
  <2>. HIDE DEF flatten
  <2>. DEFINE Upto(k) == UNION {Elements(rows[i]) : i \in 1 .. k}
              Good == {k \in 0 .. m : flatten[k + 1] \in Seq(T) /\ Elements(flatten[k + 1]) = Upto(k + 1)}
  <2>7. 0 \in Good
    <3>1. flatten[1] = rows[1] /\ Upto(1) = Elements(rows[1]) /\ 0 \in 0 .. m
      BY <1>1, <1>4, <2>1, <2>6
    <3>. QED  BY <1>1, <1>4, <3>1
  <2>8. ASSUME NEW k \in 0 .. m - 1, k \in Good PROVE k + 1 \in Good
    <3>1. /\ k + 1 \in 1 .. n /\ (k + 1) + 1 \in 1 .. n /\ ((k + 1) + 1) - 1 = k + 1
          /\ (k + 1) + 1 # 1 /\ k + 1 \in 0 .. m
      BY <1>1, <2>1
    <3>2. flatten[(k + 1) + 1] = flatten[k + 1] \o rows[(k + 1) + 1]
      BY <2>6, <3>1
    <3>3. flatten[k + 1] \in Seq(T) /\ rows[(k + 1) + 1] \in Seq(T)
      BY <1>1, <2>8, <3>1
    <3>. DEFINE s == flatten[k + 1]
                t == rows[(k + 1) + 1]
    <3>4. s \o t \in Seq(T) /\ Elements(s \o t) = Elements(s) \cup Elements(t)
      <4>. HIDE DEF s, t
      <4>1. s \in Seq(T) /\ t \in Seq(T)
        BY <3>3 DEF s, t
      <4>. QED  BY <4>1, ConcatElements
    <3>5. Upto((k + 1) + 1) = Upto(k + 1) \cup Elements(t)
      <4>1. 1 .. (k + 1) + 1 = (1 .. k + 1) \cup {(k + 1) + 1}
        BY <2>1
      <4>. QED  BY <4>1
    <3>6. Elements(s) = Upto(k + 1)
      BY <2>8
    <3>. HIDE DEF Upto
    <3>7. flatten[(k + 1) + 1] \in Seq(T) /\ Elements(flatten[(k + 1) + 1]) = Upto((k + 1) + 1)
      BY <3>2, <3>4, <3>5, <3>6
    <3>. QED  BY <3>1, <3>7
  <2>9. 0 .. m \subseteq Good
    <3>. HIDE DEF Good, m
    <3>. QED  BY <2>1, <2>7, <2>8, IntervalInduction, Zenon
  <2>10. flatten[n] \in Seq(T) /\ Elements(flatten[n]) = Upto(n)
    <3>1. m \in Good
      <4>1. m \in Nat
        BY <2>1
      <4>. HIDE DEF Good, m
      <4>. QED  BY <2>9, <4>1
    <3>. QED  BY <2>1, <3>1
  <2>. QED  BY <1>2, <1>4, <2>10
<1>. QED  BY <1>3, <1>4

-----------------------------------------------------------------------------
(* Reports are records, and the lists of reports grow.                     *)

Of(file, line, rule, hash, suppressed, layer, evidence) ==
    [file |-> file, line |-> line, rule |-> rule, hash |-> hash,
     suppressed |-> suppressed, layer |-> layer, evidence |-> evidence]

Shaped(r) == \E a, b, c, d, e, f, g : r = Of(a, b, c, d, e, f, g)

ReportList(l) == \E R : l \in Seq(R) /\ \A r \in R : Shaped(r)

ReportSet(S) == IsFiniteSet(S) /\ \A r \in S : Shaped(r)

LEMMA ShapedFacts ==
    ASSUME NEW r, Shaped(r), NEW more
    PROVE  /\ Shaped(WithEvidence(r, more))
           /\ [WithEvidence(r, more) EXCEPT !.evidence = r.evidence] = r
           /\ r.evidence \subseteq WithEvidence(r, more).evidence
           /\ WithEvidence(r, more).file = r.file /\ WithEvidence(r, more).line = r.line
           /\ [r EXCEPT !.evidence = r.evidence] = r
<1>1. PICK a, b, c, d, e, f, g : r = Of(a, b, c, d, e, f, g)
  BY DEF Shaped
<1>2. r.evidence = g /\ r.file = a /\ r.line = b
  BY <1>1 DEF Of
<1>3. WithEvidence(r, more) = Of(a, b, c, d, e, f, g \cup more)
  <2>1. [r EXCEPT !.evidence = g \cup more] = Of(a, b, c, d, e, f, g \cup more)
    BY <1>1, SMTT(30) DEF Of
  <2>. QED  BY <1>2, <2>1 DEF WithEvidence
<1>4. Shaped(Of(a, b, c, d, e, f, g \cup more))
  BY DEF Shaped
<1>5. [Of(a, b, c, d, e, f, g \cup more) EXCEPT !.evidence = g] = r
  BY <1>1 DEF Of
<1>6. [r EXCEPT !.evidence = g] = r
  BY <1>1 DEF Of
<1>7. /\ Of(a, b, c, d, e, f, g \cup more).file = a /\ Of(a, b, c, d, e, f, g \cup more).line = b
      /\ Of(a, b, c, d, e, f, g \cup more).evidence = g \cup more
  BY DEF Of
<1>. QED  BY <1>2, <1>3, <1>4, <1>5, <1>6, <1>7

LEMMA OfShaped ==
    ASSUME NEW a, NEW b, NEW c, NEW d, NEW e, NEW f, NEW g, NEW x
    PROVE  /\ Shaped(Of(a, b, c, d, e, f, g))
           /\ Shaped([Of(a, b, c, d, e, f, g) EXCEPT !.layer = x])
<1>1. [Of(a, b, c, d, e, f, g) EXCEPT !.layer = x] = Of(a, b, c, d, e, x, g)
  BY DEF Of
<1>2. Shaped(Of(a, b, c, d, e, f, g)) /\ Shaped(Of(a, b, c, d, e, x, g))
  BY DEF Shaped
<1>. QED  BY <1>1, <1>2

LEMMA NewFindingShaped ==
    ASSUME NEW d, NEW l
    PROVE  /\ Shaped(NewFinding(d)) /\ Shaped([NewFinding(d) EXCEPT !.layer = l])
           /\ NewFinding(d).file = d.file /\ NewFinding(d).line = d.line
<1>. DEFINE a == d.file
            b == d.line
            c == d.rule
            h == 0
            e == FALSE
            f == "repository"
            g == {<<"chain">>}
            r == Of(a, b, c, h, e, f, g)
<1>1. NewFinding(d) = r
  BY DEF NewFinding, Of
<1>. HIDE DEF a, b, c, h, e, f, g
<1>2. /\ Shaped(r) /\ Shaped([r EXCEPT !.layer = l])
      /\ r.file = a /\ r.line = b
  <2>1. Shaped(r)
    BY OfShaped
  <2>2. Shaped([r EXCEPT !.layer = l])
    BY OfShaped
  <2>3. r.file = a /\ r.line = b
    BY DEF Of
  <2>. QED  BY <2>1, <2>2, <2>3
<1>. HIDE DEF r
<1>3. NewFinding(d).file = a /\ NewFinding(d).line = b
  BY <1>1, <1>2
<1>. QED  BY <1>1, <1>2, <1>3 DEF a, b

LEMMA GrowsSame ==
    ASSUME NEW l, ReportList(l)
    PROVE  Grows(l, l)
<1>1. PICK R : l \in Seq(R) /\ \A r \in R : Shaped(r)
  BY DEF ReportList
<1>2. ASSUME NEW i \in 1 .. Len(l) PROVE [l[i] EXCEPT !.evidence = l[i].evidence] = l[i]
  BY <1>1, ShapedFacts, SMTT(30)
<1>. QED  BY <1>1, <1>2 DEF Grows

(* A list with more evidence, and with more reports behind it.             *)
Enriches(l, m) ==
    /\ Len(m) = Len(l)
    /\ m \in Seq({m[i] : i \in 1 .. Len(m)})
    /\ \A i \in 1 .. Len(l) : \E more : m[i] = WithEvidence(l[i], more)

LEMMA GrowsMore ==
    ASSUME NEW l, ReportList(l), NEW S, ReportSet(S), NEW m, Enriches(l, m)
    PROVE  /\ ReportList(m) /\ Grows(l, m)
           /\ ReportList(m \o SetToSeq(S)) /\ Grows(l, m \o SetToSeq(S))
           /\ \A r \in S : \E i \in 1 .. Len(m \o SetToSeq(S)) : (m \o SetToSeq(S))[i] = r
<1>0. /\ Len(m) = Len(l) /\ m \in Seq({m[i] : i \in 1 .. Len(m)})
      /\ \A i \in 1 .. Len(l) : \E more : m[i] = WithEvidence(l[i], more)
  BY DEF Enriches
<1>1. PICK R : l \in Seq(R) /\ \A r \in R : Shaped(r)
  BY DEF ReportList
<1>. DEFINE M == {m[i] : i \in 1 .. Len(m)}
            new == SetToSeq(S)
            all == m \o new
<1>2. Len(l) \in Nat /\ m \in Seq(M) /\ Len(m) \in Nat
  BY <1>0, <1>1
<1>3. ASSUME NEW i \in 1 .. Len(l)
      PROVE  /\ Shaped(m[i]) /\ [m[i] EXCEPT !.evidence = l[i].evidence] = l[i]
             /\ l[i].evidence \subseteq m[i].evidence
  <2>1. Shaped(l[i])
    BY <1>1
  <2>2. PICK more : m[i] = WithEvidence(l[i], more)
    BY <1>0
  <2>. QED  BY <2>1, <2>2, ShapedFacts
<1>4. \A r \in M : Shaped(r)
  BY <1>0, <1>3
<1>5. /\ new \in Seq(S) /\ \A r \in S : \E i \in 1 .. Len(new) : new[i] = r
      /\ \A r \in S : Shaped(r)
  BY SetToSeqFacts DEF ReportSet
<1>. HIDE DEF M, new
<1>6. /\ all \in Seq(M \cup S) /\ Len(all) = Len(m) + Len(new) /\ Len(new) \in Nat
      /\ \A i \in 1 .. Len(m) : all[i] = m[i]
      /\ \A i \in 1 .. Len(new) : all[Len(m) + i] = new[i]
  <2>1. m \in Seq(M \cup S) /\ new \in Seq(M \cup S)
    BY <1>2, <1>5
  <2>. HIDE DEF all
  <2>2. /\ all \in Seq(M \cup S) /\ Len(all) = Len(m) + Len(new) /\ Len(new) \in Nat
    BY <2>1 DEF all
  <2>3. \A i \in 1 .. Len(m) : all[i] = m[i]
    BY <1>2, <1>5, <2>1 DEF all
  <2>4. \A i \in 1 .. Len(new) : all[Len(m) + i] = new[i]
    BY <1>2, <1>5, <2>1 DEF all
  <2>. QED  BY <2>2, <2>3, <2>4
<1>7. ReportList(m) /\ ReportList(all)
  BY <1>2, <1>4, <1>5, <1>6 DEF ReportList
<1>8. Grows(l, m)
  BY <1>0, <1>2, <1>3, SMTT(30) DEF Grows
<1>. HIDE DEF all
<1>9. Grows(l, all)
  BY <1>0, <1>2, <1>3, <1>6 DEF Grows
<1>10. ASSUME NEW r \in S PROVE \E i \in 1 .. Len(all) : all[i] = r
  <2>1. PICK i \in 1 .. Len(new) : new[i] = r
    BY <1>5
  <2>2. Len(m) + i \in 1 .. Len(all)
    BY <1>2, <1>6
  <2>. QED  BY <1>6, <2>1, <2>2
<1>. QED  BY <1>7, <1>8, <1>9, <1>10 DEF all, new

(* What was reported stays so.                                             *)
LEMMA ReportedStays ==
    ASSUME ReportList(findings), ReportList(capabilities),
           ReportList(findings'), ReportList(capabilities'),
           Grows(findings, findings'), Grows(capabilities, capabilities'),
           NEW loc, Reported(loc)
    PROVE  Reported(loc)'
<1>1. ASSUME NEW l, NEW m, ReportList(l), ReportList(m), Grows(l, m), NEW r \in ToSet(l)
      PROVE  \E s \in ToSet(m) : s.file = r.file /\ s.line = r.line
  <2>1. PICK R : l \in Seq(R) /\ \A s \in R : Shaped(s)
    BY <1>1 DEF ReportList
  <2>2. PICK Q : m \in Seq(Q) /\ \A s \in Q : Shaped(s)
    BY <1>1 DEF ReportList
  <2>3. PICK i \in 1 .. Len(l) : l[i] = r
    BY <2>1 DEF ToSet
  <2>4. i \in 1 .. Len(m) /\ m[i] \in ToSet(m) /\ Shaped(m[i])
    BY <1>1, <2>1, <2>2, <2>3 DEF Grows, ToSet
  <2>5. [m[i] EXCEPT !.evidence = r.evidence] = r
    BY <1>1, <2>3 DEF Grows
  <2>6. m[i].file = r.file /\ m[i].line = r.line
    <3>1. PICK a, b, c, d, e, f, g : m[i] = Of(a, b, c, d, e, f, g)
      BY <2>4 DEF Shaped
    <3>2. [m[i] EXCEPT !.evidence = r.evidence] = Of(a, b, c, d, e, f, r.evidence)
      BY <3>1 DEF Of
    <3>3. r = Of(a, b, c, d, e, f, r.evidence)
      BY <2>5, <3>2
    <3>4. /\ Of(a, b, c, d, e, f, r.evidence).file = a
          /\ Of(a, b, c, d, e, f, r.evidence).line = b
          /\ Of(a, b, c, d, e, f, g).file = a /\ Of(a, b, c, d, e, f, g).line = b
      BY DEF Of
    <3>. QED  BY <3>1, <3>3, <3>4
  <2>. QED  BY <2>4, <2>6
<1>2. PICK r \in ToSet(findings) \cup ToSet(capabilities) : <<r.file, r.line>> = loc
  BY DEF Reported
<1>3. \E s \in ToSet(findings') \cup ToSet(capabilities') : s.file = r.file /\ s.line = r.line
  BY <1>1, <1>2
<1>. QED  BY <1>2, <1>3 DEF Reported

-----------------------------------------------------------------------------
(* The inductive invariant.  The lists hold reports, and what is appended  *)
(* to them is finite.                                                      *)
ListsInv ==
    /\ ReportList(findings) /\ ReportList(capabilities)
    /\ ReportSet(fresh) /\ ReportSet(newFindings)
    /\ sinks \in Seq(ToSet(sinks))
    /\ IsFiniteSet(direct)

(* Before its phase comes, a part of the result is empty.                  *)
PhaseInv ==
    /\ phase \in {"index", "graph", "entry", "reach"} => reach = <<>>
    /\ phase \in {"index", "graph", "entry", "reach", "seed"} =>
         direct = {} /\ todo = {} /\ fresh = {}
    /\ ~failed /\ phase # "analyse" => todo = {}

(* What is reached is at the end of a shortest chain over the edges the    *)
(* state still has, and no end is left out.                                *)
ReachInv ==
    /\ \A n \in DOMAIN reach : reach[n] \in ShortestChains /\ reach[n].node = n
    /\ direct # {} \/ phase = "seed" => \A c \in ShortestChains : c.node \in DOMAIN reach

(* A new finding comes from a sink of a function reached.                  *)
FreshInv == \A r \in fresh : \E d \in direct : r = NewFinding(d) /\ Proven(d.caller)

(* A sink the layer knows is still to be looked at, is not reached, is on  *)
(* a line with a report, or will be once the new findings are merged.      *)
LookedAt ==
    \A d \in direct :
       \/ d.caller \in todo
       \/ ~Proven(d.caller)
       \/ Reported(<<d.file, d.line>>)
       \/ phase # "done" /\ NewFinding(d) \in fresh

LayerInv == ListsInv /\ PhaseInv /\ ReachInv /\ FreshInv /\ LookedAt

(* Chains end in a name with one of the three certainties.                 *)
LEMMA WeakerCertainty == \A c, d : Weaker(c, d) \in Certainty
BY DEF Weaker, Certainty

Ends == {[node |-> n, certainty |-> t] :
           n \in entrypoints \cup {e.callee : e \in edges}, t \in Certainty}

LEMMA ChainsEnd ==
    ASSUME NEW k \in 0 .. MaxDepth
    PROVE  Chains[k] \subseteq Ends
<1>. DEFINE first == {[node |-> q, certainty |-> "resolved"] : q \in entrypoints}
            Further(c) == {[node |-> e.callee, certainty |-> Weaker(c.certainty, e.certainty)] :
                             e \in {d \in edges : d.caller = c.node}}
            More(C) == UNION {Further(c) : c \in C}
            Goes(f, n) == IF n = 0 THEN first ELSE More(f[n - 1])
            chains == CHOOSE f : f = [n \in 0 .. MaxDepth |-> Goes(f, n)]
            V == SUBSET Ends
            m == MaxDepth
            step == [p \in (1 .. m) \X V |-> More(p[2])]
<1>1. Chains = chains
  BY DEF Chains
<1>2. m \in Nat
  BY AnalysisAssumption
<1>3. first \in V
  BY DEF Ends, Certainty
<1>4. ASSUME NEW C PROVE More(C) \in V
  <2>1. ASSUME NEW c, NEW e \in edges
        PROVE  [node |-> e.callee, certainty |-> Weaker(c.certainty, e.certainty)] \in Ends
    BY WeakerCertainty DEF Ends
  <2>. QED  BY <2>1
<1>. HIDE DEF first, More, V
<1>5. step \in [(1 .. m) \X V -> V]
  BY <1>4
<1>6. \A n \in 1 .. m : \A C \in V : step[<<n, C>>] = More(C)
  OBVIOUS
<1>. HIDE DEF step
<1>7. PICK g \in [0 .. m -> V] : g[0] = first /\ \A n \in 1 .. m : g[n] = step[<<n, g[n - 1]>>]
  <2>1. \E g \in [0 .. m -> V] : Recursion(g, first, step, m)
    <3>. HIDE DEF m
    <3>. QED  BY <1>2, <1>3, <1>5, RecursionExists, Zenon
  <2>. QED  BY <2>1 DEF Recursion
<1>8. g = [n \in 0 .. MaxDepth |-> Goes(g, n)]
  <2>1. ASSUME NEW n \in 0 .. m PROVE g[n] = Goes(g, n)
    <3>1. CASE n = 0
      BY <1>7, <3>1
    <3>2. CASE n # 0
      <4>1. n \in 1 .. m /\ n - 1 \in 0 .. m
        BY <1>2, <3>2
      <4>2. g[n - 1] \in V
        BY <1>7, <4>1
      <4>3. g[n] = More(g[n - 1])
        BY <1>6, <1>7, <4>1, <4>2
      <4>. QED  BY <3>2, <4>3
    <3>. QED  BY <3>1, <3>2
  <2>. HIDE DEF Goes
  <2>. QED  BY <1>7, <2>1
<1>9. chains = [n \in 0 .. MaxDepth |-> Goes(chains, n)]
  <2>. HIDE DEF Goes
  <2>. QED  BY <1>8
<1>. HIDE DEF chains
<1>10. CASE k = 0
  BY <1>1, <1>3, <1>9, <1>10 DEF V
<1>11. CASE k # 0
  <2>1. Chains[k] = More(chains[k - 1])
    BY <1>1, <1>2, <1>9, <1>11
  <2>. QED  BY <1>4, <2>1 DEF V
<1>. QED  BY <1>10, <1>11

(* A shortest chain that is resolved is one of the chains, of its length.  *)
LEMMA ShortestIsChain ==
    ASSUME NEW s \in ShortestChains, s.certainty = "resolved"
    PROVE  /\ s.length \in 0 .. MaxDepth
           /\ [node |-> s.node, certainty |-> "resolved"] \in Chains[s.length]
<1>1. PICK k \in 0 .. MaxDepth : \E c \in Chains[k] :
         s = [node |-> c.node, length |-> k, certainty |-> c.certainty]
  BY DEF ShortestChains
<1>2. PICK c \in Chains[k] : s = [node |-> c.node, length |-> k, certainty |-> c.certainty]
  BY <1>1
<1>3. c \in Ends
  BY ChainsEnd
<1>4. PICK n, t : c = [node |-> n, certainty |-> t]
  BY <1>3 DEF Ends
<1>5. s.length = k /\ s.node = n /\ t = "resolved"
  BY <1>2, <1>4
<1>. QED  BY <1>4, <1>5

-----------------------------------------------------------------------------
(* The lists of the scan, at its start and after every step.               *)
LEMMA ImageFinite ==
    ASSUME NEW S, IsFiniteSet(S), NEW f, f = [x \in S |-> f[x]]
    PROVE  IsFiniteSet({f[x] : x \in S})
<1>. DEFINE T == {f[x] : x \in S}
<1>1. f \in Surjection(S, T)
  BY DEF Surjection
<1>. HIDE DEF T
<1>2. IsFiniteSet(T)
  BY <1>1, FS_Surjection
<1>. QED  BY <1>2 DEF T

LEMMA InRange ==
    ASSUME NEW S, NEW s \in Seq(S)
    PROVE  s \in Seq(ToSet(s)) /\ IsFiniteSet(ToSet(s)) /\ ToSet(s) \subseteq S
<1>. DEFINE n == Len(s)
            whole == 1 .. n
<1>1. n \in Nat /\ s \in [whole -> S] /\ DOMAIN s = whole
  OBVIOUS
<1>2. IsFiniteSet(whole)
  <2>1. 1 \in Int /\ n \in Int
    BY <1>1
  <2>. HIDE DEF n
  <2>. QED  BY <2>1, FS_Interval
<1>3. ToSet(s) = {s[i] : i \in whole}
  BY <1>1 DEF ToSet
<1>4. IsFiniteSet({s[i] : i \in whole})
  <2>1. s = [i \in whole |-> s[i]]
    BY <1>1
  <2>. HIDE DEF whole
  <2>. QED  BY <1>2, <2>1, ImageFinite
<1>5. s \in [whole -> ToSet(s)] /\ ToSet(s) \subseteq S
  BY <1>1, <1>3
<1>6. s \in Seq(ToSet(s))
  BY <1>1, <1>5
<1>. QED  BY <1>3, <1>4, <1>5, <1>6

LEMMA ReportsOfFiles ==
    ASSUME sinks \in Seq(ToSet(sinks)), NEW seen, NEW known
    PROVE  ReportList(FileReports(seen, known))
<1>. DEFINE T == ToSet(sinks)
            A == {s \in ToSet(sinks) : s.seen \in seen}
            own == Kept(sinks, A)
            all == [i \in 1 .. Len(own) |-> FileReport(own[i], known)]
            R == {all[i] : i \in 1 .. Len(own)}
<1>1. own \in Seq(T)
  <2>1. sinks \in Seq(T)
    OBVIOUS
  <2>. HIDE DEF T, A
  <2>. QED  BY <2>1, KeptFacts
<1>. HIDE DEF own
<1>2. Len(own) \in Nat
  BY <1>1
<1>3. all \in Seq(R)
  BY <1>2
<1>4. ASSUME NEW s PROVE Shaped(FileReport(s, known))
  <2>. DEFINE a == s.file
              b == s.line
              c == s.rule
              e == <<s.file, s.line>> \in known
              f == "file"
              g == {<<"reachable">>}
  <2>1. FileReport(s, known) = Of(a, b, c, b, e, f, g)
    BY DEF FileReport, Of
  <2>. HIDE DEF a, b, c, e, f, g
  <2>2. Shaped(Of(a, b, c, b, e, f, g))
    BY OfShaped
  <2>. QED  BY <2>1, <2>2
<1>5. \A r \in R : Shaped(r)
  BY <1>4
<1>6. FileReports(seen, known) = all
  BY DEF FileReports, own
<1>. HIDE DEF all
<1>. QED  BY <1>3, <1>5, <1>6 DEF ReportList

LEMMA SinksBesideInSeq ==
    ASSUME NEW them, Len(them) \in Nat,
           \A i \in 1 .. Len(them) : them[i].sinks \in Seq(LanguageSink)
    PROVE  \E T : SinksBeside(them) \in Seq(T)
<1>. DEFINE Row(i) == [n \in 1 .. Len(them[i].sinks) |->
                         them[i].sinks[n] @@ [file |-> them[i].path, scope |-> <<>>, guards |-> {}]]
            All(i) == {Row(i)[n] : n \in 1 .. Len(them[i].sinks)}
            T == UNION {All(i) : i \in 1 .. Len(them)}
            rows == [i \in 1 .. Len(them) |-> Row(i)]
<1>1. ASSUME NEW i \in 1 .. Len(them) PROVE Row(i) \in Seq(T)
  <2>. DEFINE m == Len(them[i].sinks)
              row == Row(i)
  <2>1. m \in Nat
    OBVIOUS
  <2>2. row \in Seq({row[n] : n \in 1 .. m})
    BY <2>1
  <2>3. {row[n] : n \in 1 .. m} \subseteq T
    <3>1. {row[n] : n \in 1 .. m} = All(i)
      OBVIOUS
    <3>. HIDE DEF All, row
    <3>. QED  BY <3>1
  <2>. HIDE DEF m, row, T
  <2>4. row \in Seq(T)
    BY <2>2, <2>3
  <2>. QED  BY <2>4 DEF row
<1>. HIDE DEF T, Row
<1>2. rows \in Seq(Seq(T))
  BY <1>1
<1>3. SinksBeside(them) = FlattenSeq(rows)
  BY DEF SinksBeside, Row
<1>. HIDE DEF rows
<1>. QED  BY <1>2, <1>3, FlattenInSeq

LEMMA ListsAtStart == ScanInit => ListsInv
<1>. SUFFICES ASSUME ScanInit PROVE ListsInv
  OBVIOUS
<1>0. PICK p \in Programs : \E b \in Beside(p) : AnalysisInit(SinksBeside(b.ts) \o SinksBeside(b.go))
  BY DEF ScanInit
<1>1. PICK b \in Beside(p) : AnalysisInit(SinksBeside(b.ts) \o SinksBeside(b.go))
  BY <1>0
<1>. DEFINE ts == SinksBeside(b.ts)
            go == SinksBeside(b.go)
<1>2. PICK T : ts \in Seq(T)
  <2>1. Len(b.ts) \in Nat /\ \A i \in 1 .. Len(b.ts) : b.ts[i].sinks \in Seq(LanguageSink)
    BY BesideAssumption DEF SourceFile
  <2>. QED  BY <2>1, SinksBesideInSeq
<1>3. PICK G : go \in Seq(G)
  <2>1. Len(b.go) \in Nat /\ \A i \in 1 .. Len(b.go) : b.go[i].sinks \in Seq(LanguageSink)
    BY BesideAssumption DEF SourceFile
  <2>. QED  BY <2>1, SinksBesideInSeq
<1>. HIDE DEF ts, go
<1>4. PICK list \in SinkLists : sinks = Kept(list, {s \in ToSet(list) : InProgram(s)}) \o (ts \o go)
  BY <1>1 DEF AnalysisInit, ts, go
<1>5. sinks \in Seq(ToSet(sinks))
  <2>. DEFINE own == Kept(list, {s \in ToSet(list) : InProgram(s)})
              U == Sink \cup (T \cup G)
  <2>1. own \in Seq(Sink)
    <3>1. list \in Seq(Sink)
      BY AnalysisAssumption
    <3>. DEFINE S == Sink
                A == {s \in ToSet(list) : InProgram(s)}
    <3>. HIDE DEF S, A
    <3>2. list \in Seq(S)
      BY <3>1 DEF S
    <3>3. Kept(list, A) \in Seq(S)
      BY <3>2, KeptFacts
    <3>. QED  BY <3>3 DEF S, A
  <2>. HIDE DEF own
  <2>2. own \in Seq(U) /\ ts \in Seq(U) /\ go \in Seq(U)
    BY <1>2, <1>3, <2>1
  <2>. HIDE DEF U
  <2>3. sinks \in Seq(U)
    BY <1>4, <2>2 DEF own
  <2>. QED  BY <2>3, InRange
<1>6. /\ findings = FileReports({"finding"}, {})
      /\ capabilities = FileReports({"finding", "guarded"}, {})
      /\ fresh = {} /\ direct = {} /\ newFindings = {}
  BY <1>1 DEF AnalysisInit, ScanInit
<1>7. ReportList(findings) /\ ReportList(capabilities)
  BY <1>5, <1>6, ReportsOfFiles
<1>8. IsFiniteSet({}) /\ ReportSet({})
  BY FS_EmptySet DEF ReportSet
<1>. QED  BY <1>5, <1>6, <1>7, <1>8 DEF ListsInv

LEMMA NewFindingsSet ==
    ASSUME NEW D, IsFiniteSet(D)
    PROVE  ReportSet({NewFinding(d) : d \in D})
<1>. DEFINE f == [d \in D |-> NewFinding(d)]
<1>1. f = [d \in D |-> f[d]] /\ {NewFinding(d) : d \in D} = {f[d] : d \in D}
  OBVIOUS
<1>. HIDE DEF f
<1>2. IsFiniteSet({f[d] : d \in D})
  BY <1>1, ImageFinite
<1>3. \A r \in {NewFinding(d) : d \in D} : Shaped(r)
  BY NewFindingShaped
<1>. QED  BY <1>1, <1>2, <1>3 DEF ReportSet

LEMMA ReportSetUnion ==
    ASSUME NEW A, NEW B, ReportSet(A), ReportSet(B)
    PROVE  ReportSet(A \cup B)
BY FS_Union DEF ReportSet

(* A list of the scan with more evidence.                                  *)
LEMMA EvidenceAdded ==
    ASSUME NEW l, ReportList(l), NEW m, m = [i \in 1 .. Len(l) |-> m[i]],
           \A i \in 1 .. Len(l) : \E more : m[i] = WithEvidence(l[i], more),
           NEW S, ReportSet(S)
    PROVE  /\ ReportList(m) /\ Grows(l, m)
           /\ ReportList(m \o SetToSeq(S)) /\ Grows(l, m \o SetToSeq(S))
           /\ \A r \in S : r \in ToSet(m \o SetToSeq(S))
<1>1. Len(l) \in Nat
  BY DEF ReportList
<1>2. Len(m) = Len(l) /\ m \in Seq({m[i] : i \in 1 .. Len(m)})
  <2>. DEFINE n == Len(l)
              T == {m[i] : i \in 1 .. n}
  <2>1. m \in [1 .. n -> T]
    OBVIOUS
  <2>2. n \in Nat
    BY <1>1
  <2>. HIDE DEF n, T
  <2>3. m \in Seq(T) /\ Len(m) = n
    BY <2>1, <2>2
  <2>. QED  BY <2>3 DEF n, T
<1>. DEFINE all == m \o SetToSeq(S)
<1>3. /\ ReportList(m) /\ Grows(l, m) /\ ReportList(all) /\ Grows(l, all)
      /\ \A r \in S : \E i \in 1 .. Len(all) : all[i] = r
  <2>1. Enriches(l, m)
    BY <1>2 DEF Enriches
  <2>. QED  BY <2>1, GrowsMore
<1>. HIDE DEF all
<1>4. ASSUME NEW r \in S PROVE r \in ToSet(all)
  BY <1>3 DEF ReportList, ToSet
<1>. QED  BY <1>3, <1>4 DEF all

(* A list as it is has more evidence, of none.                             *)
LEMMA SameEvidence ==
    ASSUME NEW l, ReportList(l)
    PROVE  /\ l = [i \in 1 .. Len(l) |-> l[i]]
           /\ \A i \in 1 .. Len(l) : l[i] = WithEvidence(l[i], {})
<1>1. PICK R : l \in Seq(R) /\ \A r \in R : Shaped(r)
  BY DEF ReportList
<1>2. ASSUME NEW i \in 1 .. Len(l) PROVE l[i] = WithEvidence(l[i], {})
  <2>. DEFINE r == l[i]
  <2>1. Shaped(r)
    BY <1>1
  <2>. HIDE DEF r
  <2>2. [r EXCEPT !.evidence = r.evidence] = r
    BY <2>1, ShapedFacts
  <2>3. r.evidence \cup {} = r.evidence
    OBVIOUS
  <2>. QED  BY <2>2, <2>3 DEF WithEvidence, r
<1>. QED  BY <1>1, <1>2

(* What each step does to the lists.                                       *)
Keeps ==
    /\ findings' = findings /\ capabilities' = capabilities /\ fresh' = fresh
    /\ newFindings' = newFindings /\ sinks' = sinks /\ direct' = direct

LEMMA KeepsLists == ListsInv /\ Keeps =>
    ListsInv' /\ Grows(findings, findings') /\ Grows(capabilities, capabilities')
<1>. SUFFICES ASSUME ListsInv, Keeps
              PROVE  ListsInv' /\ Grows(findings, findings') /\ Grows(capabilities, capabilities')
  OBVIOUS
<1>1. ListsInv'
  BY DEF ListsInv, Keeps
<1>2. Grows(findings, findings) /\ Grows(capabilities, capabilities)
  BY GrowsSame DEF ListsInv
<1>. QED  BY <1>1, <1>2 DEF Keeps

Loud == Seed \/ AnalyseFunction \/ AddGuardEvidence \/ Merge

LEMMA QuietSteps ==
    [ScanNext]_scanVars =>
      \/ Keeps /\ round' = round
      \/ Loud /\ UNCHANGED <<beside, languageVars>>
      \/ ReportSink \/ MergeFindings \/ ScanAgain
<1>. SUFFICES ASSUME [ScanNext]_scanVars, ~(Loud /\ UNCHANGED <<beside, languageVars>>),
                     ~ReportSink, ~MergeFindings, ~ScanAgain
              PROVE  Keeps /\ round' = round
  OBVIOUS
<1>. USE DEF Keeps, vars, workVars, resultVars, indexVars, languageVars, registryVars, searchVars, reportVars
<1>1. CASE UNCHANGED scanVars
  BY <1>1 DEF scanVars
<1>2. CASE PythonLayer /\ UNCHANGED <<beside, languageVars>>
  BY <1>2 DEF PythonLayer, Loud, IndexFile, FinishIndex, Fail, BuildGraph, DiscoverEntrypoints, Reach,
              FinishAnalysis
<1>3. CASE LanguageLayer
  <2>1. Onward => UNCHANGED newFindings
    BY DEF Onward
  <2>. QED  BY <1>3, <2>1 DEF LanguageLayer, StartLayer, AddLanguageFile, NoSymbols, FinalizeLanguage,
              FailLayer, NoHandlers, DiscoverHandlers, NextEntry, VisitPath, StartReport, FinishReport
<1>. QED  BY <1>1, <1>2, <1>3 DEF ScanNext

LEMMA ListsSeed == ListsInv /\ Seed /\ UNCHANGED <<beside, languageVars>> =>
    ListsInv' /\ findings' = findings /\ capabilities' = capabilities
<1>. SUFFICES ASSUME ListsInv, Seed, UNCHANGED languageVars
              PROVE  ListsInv' /\ findings' = findings /\ capabilities' = capabilities
  OBVIOUS
<1>1. /\ findings' = findings /\ capabilities' = capabilities /\ fresh' = fresh /\ sinks' = sinks
      /\ newFindings' = newFindings
  BY DEF Seed, resultVars, languageVars, reportVars
<1>. DEFINE known == Seeds
            f == [s \in known |-> [caller |-> CallerOf(s), file |-> s.file, line |-> s.line, rule |-> s.rule]]
<1>2. direct' = {f[s] : s \in known} /\ f = [s \in known |-> f[s]]
  BY DEF Seed
<1>3. IsFiniteSet(known)
  <2>. DEFINE T == ToSet(sinks)
  <2>1. sinks \in Seq(T)
    BY DEF ListsInv
  <2>2. IsFiniteSet(T)
    <3>. HIDE DEF T
    <3>1. IsFiniteSet(ToSet(sinks))
      BY <2>1, InRange
    <3>. QED  BY <3>1 DEF T
  <2>3. known \subseteq T
    BY DEF Seeds, Seedable, ToSet
  <2>. HIDE DEF T, known
  <2>. QED  BY <2>2, <2>3, FS_Subset
<1>. HIDE DEF known, f
<1>4. IsFiniteSet({f[s] : s \in known})
  BY <1>2, <1>3, ImageFinite
<1>5. ListsInv'
  BY <1>1, <1>2, <1>4 DEF ListsInv
<1>. QED  BY <1>1, <1>5

LEMMA ListsAnalyse == ListsInv /\ AnalyseFunction /\ UNCHANGED <<beside, languageVars>> =>
    ListsInv' /\ findings' = findings /\ capabilities' = capabilities
<1>. SUFFICES ASSUME ListsInv, AnalyseFunction, UNCHANGED languageVars
              PROVE  ListsInv' /\ findings' = findings /\ capabilities' = capabilities
  OBVIOUS
<1>1. /\ findings' = findings /\ capabilities' = capabilities /\ sinks' = sinks
      /\ newFindings' = newFindings /\ direct' = direct
  BY DEF AnalyseFunction, resultVars, languageVars, reportVars
<1>2. PICK f \in todo :
        fresh' = IF Proven(f)
                 THEN fresh \cup {NewFinding(d) : d \in {e \in {x \in direct : x.caller = f} :
                                                           ~Reported(<<e.file, e.line>>)}}
                 ELSE fresh
  BY DEF AnalyseFunction
<1>. DEFINE D == {e \in {x \in direct : x.caller = f} : ~Reported(<<e.file, e.line>>)}
            N == {NewFinding(d) : d \in D}
<1>3. IsFiniteSet(D)
  <2>1. IsFiniteSet(direct) /\ D \subseteq direct
    BY DEF ListsInv
  <2>. HIDE DEF D
  <2>. QED  BY <2>1, FS_Subset
<1>4. fresh' = fresh \/ fresh' = fresh \cup N
  BY <1>2
<1>. HIDE DEF D
<1>5. ReportSet(N)
  BY <1>3, NewFindingsSet
<1>. HIDE DEF N
<1>6. ReportSet(fresh) /\ ReportSet(fresh \cup N)
  BY <1>5, ReportSetUnion DEF ListsInv
<1>7. ReportSet(fresh')
  BY <1>4, <1>6
<1>8. ListsInv'
  BY <1>1, <1>7 DEF ListsInv
<1>. QED  BY <1>1, <1>8

LEMMA ListsGuards == ListsInv /\ AddGuardEvidence /\ UNCHANGED <<beside, languageVars>> =>
    ListsInv' /\ Grows(findings, findings') /\ Grows(capabilities, capabilities')
<1>. SUFFICES ASSUME ListsInv, AddGuardEvidence, UNCHANGED languageVars
              PROVE  ListsInv' /\ Grows(findings, findings') /\ Grows(capabilities, capabilities')
  OBVIOUS
<1>1. /\ sinks' = sinks /\ newFindings' = newFindings /\ direct' = direct /\ fresh' = fresh
  BY DEF AddGuardEvidence, workVars, languageVars, reportVars
<1>. DEFINE Augment(r, skipped) == IF r \in skipped THEN r ELSE WithEvidence(r, EvidenceFor(GuardsAt(r)))
<1>2. PICK skipped :
        /\ findings' = [i \in 1 .. Len(findings) |-> Augment(findings[i], skipped)]
        /\ capabilities' = [i \in 1 .. Len(capabilities) |-> Augment(capabilities[i], skipped)]
  BY DEF AddGuardEvidence
<1>3. ASSUME NEW l, ReportList(l), NEW m, m = [i \in 1 .. Len(l) |-> Augment(l[i], skipped)]
      PROVE  ReportList(m) /\ Grows(l, m)
  <2>1. ASSUME NEW i \in 1 .. Len(l) PROVE \E more : m[i] = WithEvidence(l[i], more)
    <3>1. l[i] = WithEvidence(l[i], {})
      BY <1>3, SameEvidence
    <3>2. m[i] = Augment(l[i], skipped)
      BY <1>3
    <3>. QED  BY <3>1, <3>2
  <2>2. m = [i \in 1 .. Len(l) |-> m[i]]
    <3>. HIDE DEF Augment
    <3>. QED  BY <1>3
  <2>3. ReportSet({})
    BY FS_EmptySet DEF ReportSet
  <2>. QED  BY <1>3, <2>1, <2>2, <2>3, EvidenceAdded
<1>. HIDE DEF Augment
<1>4. /\ ReportList(findings') /\ Grows(findings, findings')
      /\ ReportList(capabilities') /\ Grows(capabilities, capabilities')
  <2>1. ReportList(findings) /\ ReportList(capabilities)
    BY DEF ListsInv
  <2>2. ReportList(findings') /\ Grows(findings, findings')
    BY <1>2, <1>3, <2>1
  <2>3. ReportList(capabilities') /\ Grows(capabilities, capabilities')
    BY <1>2, <1>3, <2>1
  <2>. QED  BY <2>2, <2>3
<1>5. ListsInv'
  BY <1>1, <1>4 DEF ListsInv
<1>. QED  BY <1>4, <1>5

LEMMA ListsMerge == ListsInv /\ Merge /\ UNCHANGED <<beside, languageVars>> =>
    /\ ListsInv' /\ Grows(findings, findings') /\ Grows(capabilities, capabilities')
    /\ \A r \in fresh : r \in ToSet(findings')
<1>. SUFFICES ASSUME ListsInv, Merge, UNCHANGED languageVars
              PROVE  /\ ListsInv' /\ Grows(findings, findings') /\ Grows(capabilities, capabilities')
                     /\ \A r \in fresh : r \in ToSet(findings')
  OBVIOUS
<1>1. /\ sinks' = sinks /\ newFindings' = newFindings /\ direct' = direct /\ fresh' = fresh
      /\ capabilities' = capabilities
  BY DEF Merge, workVars, languageVars, reportVars
<1>. DEFINE m == [i \in 1 .. Len(findings) |->
                    WithEvidence(findings[i], IF i \in augmented THEN {<<"chain">>} ELSE {})]
            all == m \o SetToSeq(fresh)
<1>2. findings' = all
  BY DEF Merge
<1>3. m = [i \in 1 .. Len(findings) |-> m[i]]
  OBVIOUS
<1>4. \A i \in 1 .. Len(findings) : \E more : m[i] = WithEvidence(findings[i], more)
  OBVIOUS
<1>5. ReportList(findings) /\ ReportList(capabilities) /\ ReportSet(fresh)
  BY DEF ListsInv
<1>. HIDE DEF m
<1>6. ReportList(all) /\ Grows(findings, all) /\ \A r \in fresh : r \in ToSet(all)
  BY <1>3, <1>4, <1>5, EvidenceAdded
<1>. HIDE DEF all
<1>7. ReportList(findings') /\ Grows(findings, findings') /\ \A r \in fresh : r \in ToSet(findings')
  BY <1>2, <1>6
<1>8. Grows(capabilities, capabilities')
  BY <1>1, <1>5, GrowsSame
<1>9. ListsInv'
  BY <1>1, <1>7 DEF ListsInv
<1>. QED  BY <1>7, <1>8, <1>9

LEMMA ListsReport == ListsInv /\ ReportSink =>
    ListsInv' /\ Grows(findings, findings') /\ Grows(capabilities, capabilities')
<1>. SUFFICES ASSUME ListsInv, ReportSink
              PROVE  ListsInv' /\ Grows(findings, findings') /\ Grows(capabilities, capabilities')
  OBVIOUS
<1>1. sinks' = sinks /\ direct' = direct /\ fresh' = fresh /\ capabilities' = capabilities
  BY DEF ReportSink, workVars
<1>. DEFINE s == Head(unreported)
            new == [NewFinding(s) EXCEPT !.layer = language]
<1>2. newFindings' = newFindings \/ newFindings' = newFindings \cup {new}
  BY DEF ReportSink
<1>3. PICK chained :
        findings' = [n \in 1 .. Len(findings) |->
                       IF n \in chained THEN WithEvidence(findings[n], {<<"chain">>}) ELSE findings[n]]
  BY DEF ReportSink
<1>. DEFINE m == [n \in 1 .. Len(findings) |->
                    IF n \in chained THEN WithEvidence(findings[n], {<<"chain">>}) ELSE findings[n]]
<1>4. ReportList(findings) /\ ReportList(capabilities) /\ ReportSet(newFindings)
  BY DEF ListsInv
<1>5. m = [n \in 1 .. Len(findings) |-> m[n]]
  OBVIOUS
<1>6. ASSUME NEW n \in 1 .. Len(findings) PROVE \E more : m[n] = WithEvidence(findings[n], more)
  <2>1. findings[n] = WithEvidence(findings[n], {})
    BY <1>4, SameEvidence
  <2>. QED  BY <2>1
<1>7. ReportSet({})
  BY FS_EmptySet DEF ReportSet
<1>. HIDE DEF m
<1>8. ReportList(m) /\ Grows(findings, m)
  BY <1>4, <1>5, <1>6, <1>7, EvidenceAdded
<1>9. findings' = m
  BY <1>3 DEF m
<1>10. ReportSet(newFindings')
  <2>1. Shaped(new)
    BY NewFindingShaped
  <2>. HIDE DEF new
  <2>2. ReportSet({new})
    BY <2>1, FS_Singleton DEF ReportSet
  <2>3. ReportSet(newFindings \cup {new})
    BY <1>4, <2>2, ReportSetUnion
  <2>. QED  BY <1>2, <1>4, <2>3
<1>11. Grows(capabilities, capabilities')
  BY <1>1, <1>4, GrowsSame
<1>12. ListsInv'
  BY <1>1, <1>8, <1>9, <1>10, <1>4 DEF ListsInv
<1>. QED  BY <1>8, <1>9, <1>11, <1>12

LEMMA ListsMergeFindings == ListsInv /\ MergeFindings =>
    ListsInv' /\ Grows(findings, findings') /\ Grows(capabilities, capabilities')
<1>. SUFFICES ASSUME ListsInv, MergeFindings
              PROVE  ListsInv' /\ Grows(findings, findings') /\ Grows(capabilities, capabilities')
  OBVIOUS
<1>1. /\ sinks' = sinks /\ direct' = direct /\ fresh' = fresh /\ newFindings' = newFindings
  BY DEF MergeFindings, workVars, reportVars
<1>2. /\ findings' = findings \o SetToSeq(newFindings)
      /\ capabilities' = capabilities \o SetToSeq(newFindings)
  BY DEF MergeFindings
<1>3. ReportList(findings) /\ ReportList(capabilities) /\ ReportSet(newFindings)
  BY DEF ListsInv
<1>4. ASSUME NEW l, ReportList(l), NEW S, ReportSet(S)
      PROVE  ReportList(l \o SetToSeq(S)) /\ Grows(l, l \o SetToSeq(S))
  <2>1. l = [i \in 1 .. Len(l) |-> l[i]]
    BY <1>4, SameEvidence
  <2>2. \A i \in 1 .. Len(l) : \E more : l[i] = WithEvidence(l[i], more)
    BY <1>4, SameEvidence
  <2>. QED  BY <1>4, <2>1, <2>2, EvidenceAdded
<1>5. ReportList(findings') /\ Grows(findings, findings')
  BY <1>2, <1>3, <1>4
<1>6. ReportList(capabilities') /\ Grows(capabilities, capabilities')
  BY <1>2, <1>3, <1>4
<1>7. ListsInv'
  BY <1>1, <1>3, <1>5, <1>6 DEF ListsInv
<1>. QED  BY <1>5, <1>6, <1>7

LEMMA ListsAgain == ListsInv /\ ScanAgain => ListsInv' /\ round' # round
<1>. SUFFICES ASSUME ListsInv, ScanAgain PROVE ListsInv' /\ round' # round
  OBVIOUS
<1>1. /\ sinks' = sinks /\ fresh' = {} /\ newFindings' = {} /\ direct' = {} /\ round' # round
  BY DEF ScanAgain, Rescan, NothingYet
<1>2. PICK known : known = baseline'
  OBVIOUS
<1>3. findings' = FileReports({"finding"}, known) /\ capabilities' = FileReports({"finding", "guarded"}, known)
  BY <1>2 DEF ScanAgain, Rescan, ScanFiles
<1>4. ReportList(FileReports({"finding"}, known)) /\ ReportList(FileReports({"finding", "guarded"}, known))
  BY ReportsOfFiles DEF ListsInv
<1>5. IsFiniteSet({}) /\ ReportSet({})
  BY FS_EmptySet DEF ReportSet
<1>6. ListsInv'
  <2>1. ReportList(findings') /\ ReportList(capabilities')
    BY <1>3, <1>4
  <2>. QED  BY <1>1, <1>5, <2>1 DEF ListsInv
<1>. QED  BY <1>1, <1>6

LEMMA ListsStep == ListsInv /\ [ScanNext]_scanVars =>
    /\ ListsInv'
    /\ round' = round => Grows(findings, findings') /\ Grows(capabilities, capabilities')
<1>. SUFFICES ASSUME ListsInv, [ScanNext]_scanVars
              PROVE  /\ ListsInv'
                     /\ round' = round => /\ Grows(findings, findings')
                                          /\ Grows(capabilities, capabilities')
  OBVIOUS
<1>1. CASE Keeps
  BY <1>1, KeepsLists
<1>2. CASE Loud /\ UNCHANGED <<beside, languageVars>>
  <2>1. ReportList(findings) /\ ReportList(capabilities)
    BY DEF ListsInv
  <2>2. CASE Seed \/ AnalyseFunction
    <3>1. ListsInv' /\ findings' = findings /\ capabilities' = capabilities
      BY <1>2, <2>2, ListsSeed, ListsAnalyse
    <3>. QED  BY <2>1, <3>1, GrowsSame
  <2>3. CASE AddGuardEvidence \/ Merge
    BY <1>2, <2>3, ListsGuards, ListsMerge
  <2>. QED  BY <1>2, <2>2, <2>3 DEF Loud
<1>3. CASE ReportSink
  BY <1>3, ListsReport
<1>4. CASE MergeFindings
  BY <1>4, ListsMergeFindings
<1>5. CASE ScanAgain
  BY <1>5, ListsAgain
<1>. QED  BY <1>1, <1>2, <1>3, <1>4, <1>5, QuietSteps

(* The repository layer and the layer of the other languages take nothing  *)
(* back: within a scan no report is lost or altered, whatever fails, and   *)
(* evidence is only added (scan_path, analyze_repository).                 *)
THEOREM Additive == ScanSpec => NothingTakenBack
<1>1. ScanInit => ListsInv
  BY ListsAtStart
<1>2. ListsInv /\ [ScanNext]_scanVars =>
        ListsInv' /\ [round' = round => Grows(findings, findings') /\ Grows(capabilities, capabilities')]_vars
  BY ListsStep
<1>. QED  BY <1>1, <1>2, PTL DEF ScanSpec, NothingTakenBack

-----------------------------------------------------------------------------
(* The phases, and what is reached.                                        *)
LEMMA SameChains ==
    ASSUME edges' = edges, entrypoints' = entrypoints
    PROVE  ShortestChains' = ShortestChains
BY DEF ShortestChains, Chains

LEMMA PhaseStep == PhaseInv /\ [ScanNext]_scanVars => PhaseInv'
<1>. SUFFICES ASSUME PhaseInv, [ScanNext]_scanVars PROVE PhaseInv'
  OBVIOUS
<1>. USE DEF PhaseInv, vars, workVars, resultVars, indexVars
<1>1. CASE UNCHANGED <<phase, reach, direct, todo, fresh, failed>>
  BY <1>1
<1>2. CASE PythonLayer
  BY <1>2 DEF PythonLayer, IndexFile, FinishIndex, Fail, BuildGraph, DiscoverEntrypoints, Reach,
              Seed, AnalyseFunction, FinishAnalysis, AddGuardEvidence, Merge
<1>3. CASE LanguageLayer
  <2>1. UNCHANGED <<phase, reach, direct, todo, fresh, failed>>
    BY <1>3 DEF LanguageLayer, StartLayer, AddLanguageFile, NoSymbols, FinalizeLanguage, FailLayer,
                NoHandlers, DiscoverHandlers, NextEntry, VisitPath, StartReport, ReportSink, FinishReport,
                MergeFindings
  <2>. QED  BY <1>1, <2>1
<1>4. CASE ScanAgain
  BY <1>4 DEF ScanAgain, Rescan, NothingYet
<1>. QED  BY <1>1, <1>2, <1>3, <1>4 DEF ScanNext, scanVars

(* The steps that matter to what is reached.                               *)
LEMMA ReachShapes == PhaseInv /\ [ScanNext]_scanVars =>
    \/ /\ UNCHANGED <<edges, entrypoints, reach>>
       /\ direct' # {} \/ phase' = "seed" => direct # {} \/ phase = "seed"
    \/ reach' = <<>> /\ direct' = {} /\ phase' # "seed"
    \/ Reach
<1>. SUFFICES ASSUME PhaseInv, [ScanNext]_scanVars, ~Reach
              PROVE  \/ /\ UNCHANGED <<edges, entrypoints, reach>>
                        /\ direct' # {} \/ phase' = "seed" => direct # {} \/ phase = "seed"
                     \/ reach' = <<>> /\ direct' = {} /\ phase' # "seed"
  OBVIOUS
<1>. USE DEF vars, workVars, resultVars, indexVars
<1>1. CASE UNCHANGED <<phase, edges, entrypoints, reach, direct>>
  BY <1>1
<1>2. CASE PythonLayer
  BY <1>2 DEF PhaseInv, PythonLayer, IndexFile, FinishIndex, Fail, BuildGraph, DiscoverEntrypoints,
              Seed, AnalyseFunction, FinishAnalysis, AddGuardEvidence, Merge
<1>3. CASE LanguageLayer
  <2>1. UNCHANGED <<phase, edges, entrypoints, reach, direct>>
    BY <1>3 DEF LanguageLayer, StartLayer, AddLanguageFile, NoSymbols, FinalizeLanguage, FailLayer,
                NoHandlers, DiscoverHandlers, NextEntry, VisitPath, StartReport, ReportSink, FinishReport,
                MergeFindings
  <2>. QED  BY <1>1, <2>1
<1>4. CASE ScanAgain
  BY <1>4 DEF ScanAgain, Rescan, NothingYet
<1>. QED  BY <1>1, <1>2, <1>3, <1>4 DEF ScanNext, scanVars

LEMMA ReachStep == PhaseInv /\ ReachInv /\ [ScanNext]_scanVars => ReachInv'
<1>. SUFFICES ASSUME PhaseInv, ReachInv, [ScanNext]_scanVars PROVE ReachInv'
  OBVIOUS
<1>1. CASE /\ UNCHANGED <<edges, entrypoints, reach>>
           /\ direct' # {} \/ phase' = "seed" => direct # {} \/ phase = "seed"
  <2>1. ShortestChains' = ShortestChains
    BY <1>1, SameChains
  <2>. QED  BY <1>1, <2>1 DEF ReachInv
<1>2. CASE reach' = <<>> /\ direct' = {} /\ phase' # "seed"
  <2>1. DOMAIN reach' = {}
    BY <1>2
  <2>. QED  BY <1>2, <2>1 DEF ReachInv
<1>3. CASE Reach
  <2>1. ShortestChains' = ShortestChains
    BY <1>3, SameChains DEF Reach
  <2>. DEFINE S == ShortestChains
              nodes == {c.node : c \in S}
              ends(n) == {c \in S : c.node = n}
  <2>2. reach' \in {r \in [nodes -> S] : \A n \in nodes : r[n] \in ends(n)}
    BY <1>3 DEF Reach
  <2>. HIDE DEF S
  <2>3. DOMAIN reach' = nodes /\ \A n \in nodes : reach'[n] \in S /\ reach'[n].node = n
    BY <2>2
  <2>4. \A c \in S : c.node \in DOMAIN reach'
    BY <2>3
  <2>. QED  BY <2>1, <2>3, <2>4 DEF ReachInv, S
<1>. QED  BY <1>1, <1>2, <1>3, ReachShapes

(* The steps that matter to the new findings.                              *)
LEMMA FreshShapes == PhaseInv /\ [ScanNext]_scanVars =>
    \/ UNCHANGED <<reach, direct, fresh>>
    \/ fresh' = {}
    \/ AnalyseFunction
<1>. SUFFICES ASSUME PhaseInv, [ScanNext]_scanVars, ~AnalyseFunction
              PROVE  UNCHANGED <<reach, direct, fresh>> \/ fresh' = {}
  OBVIOUS
<1>. USE DEF vars, workVars, resultVars, indexVars
<1>1. CASE UNCHANGED <<reach, direct, fresh>>
  BY <1>1
<1>2. CASE PythonLayer
  BY <1>2 DEF PhaseInv, PythonLayer, IndexFile, FinishIndex, Fail, BuildGraph, DiscoverEntrypoints, Reach,
              Seed, FinishAnalysis, AddGuardEvidence, Merge
<1>3. CASE LanguageLayer
  <2>1. UNCHANGED <<reach, direct, fresh>>
    BY <1>3 DEF LanguageLayer, StartLayer, AddLanguageFile, NoSymbols, FinalizeLanguage, FailLayer,
                NoHandlers, DiscoverHandlers, NextEntry, VisitPath, StartReport, ReportSink, FinishReport,
                MergeFindings
  <2>. QED  BY <2>1
<1>4. CASE ScanAgain
  BY <1>4 DEF ScanAgain, Rescan, NothingYet
<1>. QED  BY <1>1, <1>2, <1>3, <1>4 DEF ScanNext, scanVars

LEMMA FreshStep == PhaseInv /\ FreshInv /\ [ScanNext]_scanVars => FreshInv'
<1>. SUFFICES ASSUME PhaseInv, FreshInv, [ScanNext]_scanVars PROVE FreshInv'
  OBVIOUS
<1>1. CASE UNCHANGED <<reach, direct, fresh>>
  BY <1>1 DEF FreshInv, Proven
<1>2. CASE fresh' = {}
  BY <1>2 DEF FreshInv
<1>3. CASE AnalyseFunction
  <2>1. UNCHANGED <<reach, direct>>
    BY <1>3 DEF AnalyseFunction
  <2>2. \A f : Proven(f)' <=> Proven(f)
    BY <2>1 DEF Proven
  <2>3. \A r \in fresh' : r \in fresh \/ \E d \in direct : r = NewFinding(d) /\ Proven(d.caller)
    BY <1>3 DEF AnalyseFunction
  <2>4. \A r \in fresh' : \E d \in direct : r = NewFinding(d) /\ Proven(d.caller)
    BY <2>3 DEF FreshInv
  <2>. QED  BY <2>1, <2>2, <2>4 DEF FreshInv
<1>. QED  BY <1>1, <1>2, <1>3, FreshShapes

(* The steps that matter to the sinks still to be looked at.               *)
LEMMA LookedAtShapes == PhaseInv /\ [ScanNext]_scanVars =>
    \/ UNCHANGED <<reach, direct, todo, fresh>> /\ (phase' = "done" => phase = "done") /\ round' = round
    \/ direct' = {}
    \/ Seed
    \/ AnalyseFunction
    \/ Merge /\ UNCHANGED <<beside, languageVars>>
<1>. SUFFICES ASSUME PhaseInv, [ScanNext]_scanVars, ~Seed, ~AnalyseFunction,
                     ~(Merge /\ UNCHANGED <<beside, languageVars>>)
              PROVE  \/ /\ UNCHANGED <<reach, direct, todo, fresh>>
                        /\ (phase' = "done" => phase = "done") /\ round' = round
                     \/ direct' = {}
  OBVIOUS
<1>. USE DEF vars, workVars, resultVars, indexVars
<1>1. CASE UNCHANGED <<phase, reach, direct, todo, fresh, round>>
  BY <1>1
<1>2. CASE PythonLayer /\ UNCHANGED <<beside, languageVars>>
  BY <1>2 DEF PhaseInv, PythonLayer, IndexFile, FinishIndex, Fail, BuildGraph, DiscoverEntrypoints, Reach,
              FinishAnalysis, AddGuardEvidence
<1>3. CASE LanguageLayer
  <2>1. UNCHANGED <<phase, reach, direct, todo, fresh, round>>
    BY <1>3 DEF LanguageLayer, StartLayer, AddLanguageFile, NoSymbols, FinalizeLanguage, FailLayer,
                NoHandlers, DiscoverHandlers, NextEntry, VisitPath, StartReport, ReportSink, FinishReport,
                MergeFindings
  <2>. QED  BY <1>1, <2>1
<1>4. CASE ScanAgain
  BY <1>4 DEF ScanAgain, Rescan, NothingYet
<1>. QED  BY <1>1, <1>2, <1>3, <1>4 DEF ScanNext, scanVars

LEMMA LookedAtStep == ListsInv /\ PhaseInv /\ LookedAt /\ [ScanNext]_scanVars => LookedAt'
<1>. SUFFICES ASSUME ListsInv, PhaseInv, LookedAt, [ScanNext]_scanVars PROVE LookedAt'
  OBVIOUS
<1>1. ListsInv' /\ (round' = round => Grows(findings, findings') /\ Grows(capabilities, capabilities'))
  BY ListsStep
<1>2. ASSUME round' = round, NEW loc, Reported(loc) PROVE Reported(loc)'
  BY <1>1, <1>2, ReportedStays DEF ListsInv
<1>3. CASE UNCHANGED <<reach, direct, todo, fresh>> /\ (phase' = "done" => phase = "done") /\ round' = round
  <2>1. \A f : Proven(f)' <=> Proven(f)
    BY <1>3 DEF Proven
  <2>2. \A d : Reported(<<d.file, d.line>>) => Reported(<<d.file, d.line>>)'
    BY <1>2, <1>3
  <2>. QED  BY <1>3, <2>1, <2>2 DEF LookedAt
<1>4. CASE direct' = {}
  BY <1>4 DEF LookedAt
<1>5. CASE Seed
  <2>1. \A d \in direct' : d.caller \in todo'
    BY <1>5 DEF Seed
  <2>. QED  BY <2>1 DEF LookedAt
<1>6. CASE AnalyseFunction
  <2>1. UNCHANGED <<reach, direct, phase, findings, capabilities>> /\ phase # "done" /\ round' = round
    BY <1>6 DEF AnalyseFunction, resultVars
  <2>2. \A f : Proven(f)' <=> Proven(f)
    BY <2>1 DEF Proven
  <2>3. \A d : Reported(<<d.file, d.line>>) => Reported(<<d.file, d.line>>)'
    BY <1>2, <2>1
  <2>4. PICK f \in todo :
          /\ todo' = todo \ {f}
          /\ fresh' = IF Proven(f)
                      THEN fresh \cup {NewFinding(d) : d \in {e \in {x \in direct : x.caller = f} :
                                                                ~Reported(<<e.file, e.line>>)}}
                      ELSE fresh
    BY <1>6 DEF AnalyseFunction
  <2>5. fresh \subseteq fresh'
    BY <2>4
  <2>6. ASSUME NEW d \in direct
        PROVE  d.caller \in todo' \/ ~Proven(d.caller) \/ Reported(<<d.file, d.line>>) \/ NewFinding(d) \in fresh'
    <3>1. CASE d.caller = f
      BY <2>4, <3>1
    <3>2. CASE d.caller # f
      BY <2>1, <2>4, <2>5, <3>2 DEF LookedAt
    <3>. QED  BY <3>1, <3>2
  <2>. QED  BY <2>1, <2>2, <2>3, <2>6 DEF LookedAt
<1>7. CASE Merge /\ UNCHANGED <<beside, languageVars>>
  <2>1. UNCHANGED <<reach, direct, todo, fresh>> /\ round' = round
    BY <1>7 DEF Merge, workVars
  <2>2. \A f : Proven(f)' <=> Proven(f)
    BY <2>1 DEF Proven
  <2>3. \A d : Reported(<<d.file, d.line>>) => Reported(<<d.file, d.line>>)'
    BY <1>2, <2>1
  <2>4. \A r \in fresh : r \in ToSet(findings')
    BY <1>7, ListsMerge
  <2>5. ASSUME NEW d, NewFinding(d) \in fresh PROVE Reported(<<d.file, d.line>>)'
    <3>1. NewFinding(d).file = d.file /\ NewFinding(d).line = d.line
      BY NewFindingShaped
    <3>2. NewFinding(d) \in ToSet(findings')
      BY <2>4, <2>5
    <3>. QED  BY <3>1, <3>2 DEF Reported
  <2>. QED  BY <2>1, <2>2, <2>3, <2>5 DEF LookedAt
<1>. QED  BY <1>3, <1>4, <1>5, <1>6, <1>7, LookedAtShapes

LEMMA LayerInductive ==
    /\ ScanInit => LayerInv
    /\ LayerInv /\ [ScanNext]_scanVars => LayerInv'
<1>1. ScanInit => PhaseInv /\ ReachInv /\ FreshInv /\ LookedAt
  <2>. SUFFICES ASSUME ScanInit PROVE PhaseInv /\ ReachInv /\ FreshInv /\ LookedAt
    OBVIOUS
  <2>1. reach = <<>> /\ direct = {} /\ todo = {} /\ fresh = {} /\ phase = "index"
    BY DEF ScanInit, AnalysisInit
  <2>2. DOMAIN reach = {}
    BY <2>1
  <2>. QED  BY <2>1, <2>2 DEF PhaseInv, ReachInv, FreshInv, LookedAt
<1>2. LayerInv /\ [ScanNext]_scanVars => LayerInv'
  BY ListsStep, PhaseStep, ReachStep, FreshStep, LookedAtStep DEF LayerInv
<1>. QED  BY <1>1, <1>2, ListsAtStart DEF LayerInv

LEMMA LayerInvariant == ScanSpec => []LayerInv
BY LayerInductive, PTL DEF ScanSpec

(* A finding of the repository layer is about a sink in a function at the  *)
(* end of a chain of resolved calls from an entrypoint, shorter than the   *)
(* bound (engine_augment.py: only fully resolved paths are emitted).       *)
THEOREM FindingsAreReached == ScanSpec => []NewFindingsAreReached
<1>1. LayerInv => NewFindingsAreReached
  <2>. SUFFICES ASSUME LayerInv, NEW r \in fresh
                PROVE  \E d \in direct : /\ d.file = r.file /\ d.line = r.line
                          /\ \E k \in 1 .. MaxDepth - 1 :
                               [node |-> d.caller, certainty |-> "resolved"] \in Chains[k]
    BY DEF NewFindingsAreReached
  <2>1. PICK d \in direct : r = NewFinding(d) /\ Proven(d.caller)
    BY DEF LayerInv, FreshInv
  <2>. DEFINE n == d.caller
              s == reach[n]
  <2>2. n \in DOMAIN reach /\ s.certainty = "resolved" /\ s.length \in 1 .. MaxDepth - 1
    BY <2>1 DEF Proven
  <2>3. s \in ShortestChains /\ s.node = n
    BY <2>2 DEF LayerInv, ReachInv
  <2>4. d.file = r.file /\ d.line = r.line
    BY <2>1, NewFindingShaped
  <2>. HIDE DEF n, s
  <2>5. [node |-> s.node, certainty |-> "resolved"] \in Chains[s.length]
    BY <2>2, <2>3, ShortestIsChain
  <2>. QED  BY <2>2, <2>3, <2>4, <2>5 DEF n
<1>. QED  BY <1>1, LayerInvariant, PTL

(* After an analysis that did not fail, a sink of known effect is on a     *)
(* line with a report when every shortest chain to its function is         *)
(* resolved and within the bound: the main loop of analyze_repository      *)
(* skips none, and what it finds is merged into the list of the scan.      *)
THEOREM ReachedAreReported == ScanSpec => []ReachedSinksAreReported
<1>1. LayerInv => ReachedSinksAreReported
  <2>. SUFFICES ASSUME LayerInv, phase = "done", ~failed, NEW d \in direct,
                       {c \in ShortestChains : c.node = d.caller} # {},
                       \A c \in {c \in ShortestChains : c.node = d.caller} :
                          c.certainty = "resolved" /\ c.length \in 1 .. MaxDepth - 1
                PROVE  Reported(<<d.file, d.line>>)
    BY DEF ReachedSinksAreReported
  <2>. DEFINE n == d.caller
  <2>1. PICK c \in ShortestChains : c.node = n
    OBVIOUS
  <2>2. n \in DOMAIN reach
    BY <2>1 DEF LayerInv, ReachInv
  <2>3. reach[n] \in ShortestChains /\ reach[n].node = n
    BY <2>2 DEF LayerInv, ReachInv
  <2>4. Proven(n)
    BY <2>2, <2>3 DEF Proven
  <2>5. todo = {}
    BY DEF LayerInv, PhaseInv
  <2>. QED  BY <2>4, <2>5 DEF LayerInv, LookedAt
<1>. QED  BY <1>1, LayerInvariant, PTL

-----------------------------------------------------------------------------
(* The files beside the Python program, and the calls in them.             *)
AnyCall == Ts!Call \cup Go!Call
Site == Nat \X AnyCall

FilesInv ==
    /\ program \in Programs /\ beside \in Beside(program)
    /\ language \in {"ts", "go"}
    /\ read \in 0 .. Len(files)

LEMMA FileFacts ==
    ASSUME FilesInv
    PROVE  /\ Len(files) \in Nat
           /\ \A i \in 1 .. Len(files) :
                /\ language = "ts" => SourceFile(files[i], Ts!File)
                /\ language = "go" => SourceFile(files[i], Go!File)
BY BesideAssumption DEF files, FilesInv

LEMMA TsFile ==
    ASSUME NEW x, SourceFile(x, Ts!File)
    PROVE  /\ x.functions \in Seq(Ts!Function) /\ x.handlers \in Seq(Ts!Handler)
           /\ x.imports \in Seq(Ts!Import)
           /\ x.module \in Seq(STRING) \ {<<>>} /\ x.dir \in Seq(STRING)
<1>. DEFINE r == [part \in DOMAIN x \ {"sinks"} |-> x[part]]
<1>1. r \in Ts!File
  BY DEF SourceFile
<1>. HIDE DEF r
<1>2. /\ r.functions \in Seq(Ts!Function) /\ r.handlers \in Seq(Ts!Handler)
      /\ r.imports \in Seq(Ts!Import)
      /\ r.module \in Seq(STRING) \ {<<>>} /\ r.dir \in Seq(STRING)
  BY <1>1 DEF Ts!File
<1>3. DOMAIN r = {"path", "dir", "module", "reads", "functions", "imports", "handlers"}
  BY <1>1 DEF Ts!File
<1>4. \A part \in DOMAIN r : r[part] = x[part]
  BY DEF r
<1>. QED  BY <1>2, <1>3, <1>4

LEMMA GoFile ==
    ASSUME NEW x, SourceFile(x, Go!File)
    PROVE  /\ x.functions \in Seq(Go!Function) /\ x.handlers \in Seq(Go!Handler)
           /\ x.dir \in Seq(STRING)
<1>. DEFINE r == [part \in DOMAIN x \ {"sinks"} |-> x[part]]
<1>1. r \in Go!File
  BY DEF SourceFile
<1>. HIDE DEF r
<1>2. /\ r.functions \in Seq(Go!Function) /\ r.handlers \in Seq(Go!Handler)
      /\ r.dir \in Seq(STRING)
  BY <1>1 DEF Go!File
<1>3. DOMAIN r = {"path", "dir", "reads", "functions", "handlers"}
  BY <1>1 DEF Go!File
<1>4. \A part \in DOMAIN r : r[part] = x[part]
  BY DEF r
<1>. QED  BY <1>2, <1>3, <1>4

(* What both languages have. *)
LEMMA FileShape ==
    ASSUME FilesInv, NEW i \in 1 .. Len(files)
    PROVE  /\ Len(files[i].functions) \in Nat /\ Len(files[i].handlers) \in Nat
           /\ \A k \in 1 .. Len(files[i].functions) : files[i].functions[k].calls \in Seq(AnyCall)
           /\ \A n \in 1 .. Len(files[i].handlers) :
                /\ files[i].handlers[n].calls \in Seq(AnyCall)
                /\ files[i].handlers[n].inside \in 0 .. Len(files[i].functions)
           /\ files[i].sinks \in Seq(LanguageSink)
<1>1. CASE language = "ts"
  <2>1. SourceFile(files[i], Ts!File)
    BY <1>1, FileFacts
  <2>2. files[i].functions \in Seq(Ts!Function) /\ files[i].handlers \in Seq(Ts!Handler)
    BY <2>1, TsFile
  <2>3. Seq(Ts!Call) \subseteq Seq(AnyCall)
    BY DEF AnyCall
  <2>4. ASSUME NEW k \in 1 .. Len(files[i].functions) PROVE files[i].functions[k].calls \in Seq(AnyCall)
    <3>1. files[i].functions[k] \in Ts!Function
      BY <2>2
    <3>. QED  BY <2>3, <3>1 DEF Ts!Function
  <2>5. ASSUME NEW n \in 1 .. Len(files[i].handlers) PROVE files[i].handlers[n].calls \in Seq(AnyCall)
    <3>1. files[i].handlers[n] \in Ts!Handler
      BY <2>2
    <3>. QED  BY <2>3, <3>1 DEF Ts!Handler
  <2>6. Len(files[i].functions) \in Nat /\ Len(files[i].handlers) \in Nat
    BY <2>2
  <2>7. /\ files[i].sinks \in Seq(LanguageSink)
        /\ \A n \in 1 .. Len(files[i].handlers) : files[i].handlers[n].inside \in 0 .. Len(files[i].functions)
    BY <2>1 DEF SourceFile
  <2>. QED  BY <2>4, <2>5, <2>6, <2>7
<1>2. CASE language = "go"
  <2>1. SourceFile(files[i], Go!File)
    BY <1>2, FileFacts
  <2>2. files[i].functions \in Seq(Go!Function) /\ files[i].handlers \in Seq(Go!Handler)
    BY <2>1, GoFile
  <2>3. Seq(Go!Call) \subseteq Seq(AnyCall)
    BY DEF AnyCall
  <2>4. ASSUME NEW k \in 1 .. Len(files[i].functions) PROVE files[i].functions[k].calls \in Seq(AnyCall)
    <3>1. files[i].functions[k] \in Go!Function
      BY <2>2
    <3>. QED  BY <2>3, <3>1 DEF Go!Function
  <2>5. ASSUME NEW n \in 1 .. Len(files[i].handlers) PROVE files[i].handlers[n].calls \in Seq(AnyCall)
    <3>1. files[i].handlers[n] \in Go!Handler
      BY <2>2
    <3>. QED  BY <2>3, <3>1 DEF Go!Handler
  <2>6. Len(files[i].functions) \in Nat /\ Len(files[i].handlers) \in Nat
    BY <2>2
  <2>7. /\ files[i].sinks \in Seq(LanguageSink)
        /\ \A n \in 1 .. Len(files[i].handlers) : files[i].handlers[n].inside \in 0 .. Len(files[i].functions)
    BY <2>1 DEF SourceFile
  <2>. QED  BY <2>4, <2>5, <2>6, <2>7
<1>. QED  BY <1>1, <1>2 DEF FilesInv

LEMMA InFacts ==
    ASSUME NEW i \in Nat, NEW calls \in Seq(AnyCall)
    PROVE  In(i, calls) \in Seq(Site) /\ Elements(In(i, calls)) = {<<i, c>> : c \in Elements(calls)}
<1>1. Len(calls) \in Nat /\ DOMAIN calls = 1 .. Len(calls)
  OBVIOUS
<1>2. In(i, calls) \in [1 .. Len(calls) -> Site]
  BY <1>1 DEF In, Site
<1>3. DOMAIN In(i, calls) = 1 .. Len(calls) /\ \A c \in 1 .. Len(calls) : In(i, calls)[c] = <<i, calls[c]>>
  BY DEF In
<1>. DEFINE s == In(i, calls)
<1>4. s \in Seq(Site)
  BY <1>1, <1>2
<1>. HIDE DEF s
<1>5. \A x \in Elements(s) : x \in {<<i, c>> : c \in Elements(calls)}
  BY <1>1, <1>3 DEF Elements, s
<1>6. \A c \in Elements(calls) : <<i, c>> \in Elements(s)
  BY <1>1, <1>3 DEF Elements, s
<1>7. Elements(s) = {<<i, c>> : c \in Elements(calls)}
  BY <1>5, <1>6
<1>. QED  BY <1>4, <1>7 DEF s

LEMMA RowsFlattened ==
    ASSUME NEW T, NEW n \in Nat, NEW rows, DOMAIN rows = 1 .. n, rows = [i \in 1 .. n |-> rows[i]],
           \A i \in 1 .. n : rows[i] \in Seq(T)
    PROVE  /\ FlattenSeq(rows) \in Seq(T)
           /\ Elements(FlattenSeq(rows)) = UNION {Elements(rows[i]) : i \in 1 .. n}
<1>1. rows \in Seq(Seq(T)) /\ Len(rows) = n
  OBVIOUS
<1>. QED  BY <1>1, FlattenInSeq

LEMMA ToSetElements == \A s : ToSet(s) = Elements(s)
BY DEF ToSet, Elements

LEMMA BodyFacts ==
    ASSUME FilesInv, NEW i \in 1 .. Len(files), NEW k \in 0 .. Len(files[i].functions)
    PROVE  /\ Body(i, k) \in Seq(Site)
           /\ Elements(Body(i, k)) =
                (IF k = 0 THEN {} ELSE Elements(In(i, files[i].functions[k].calls)))
                  \cup UNION {Elements(In(i, files[i].handlers[n].calls)) :
                                n \in {m \in 1 .. Len(files[i].handlers) : files[i].handlers[m].inside = k}}
           /\ \A c \in Elements(Body(i, k)) : c[1] = i
<1>. DEFINE f == files[i]
            own == IF k = 0 THEN <<>> ELSE In(i, f.functions[k].calls)
            rows == [n \in 1 .. Len(f.handlers) |-> IF f.handlers[n].inside = k THEN In(i, f.handlers[n].calls) ELSE <<>>]
            inner == {m \in 1 .. Len(f.handlers) : f.handlers[m].inside = k}
            all == UNION {Elements(rows[n]) : n \in 1 .. Len(f.handlers)}
<1>0. Elements(<<>>) = {}
  BY DEF Elements
<1>1. /\ Len(f.functions) \in Nat /\ Len(f.handlers) \in Nat /\ i \in Nat
      /\ k # 0 => f.functions[k].calls \in Seq(AnyCall)
      /\ \A n \in 1 .. Len(f.handlers) : f.handlers[n].calls \in Seq(AnyCall)
  BY FileShape, FileFacts
<1>2. own \in Seq(Site) /\ Elements(own) = (IF k = 0 THEN {} ELSE Elements(In(i, f.functions[k].calls)))
  <2>1. <<>> \in Seq(Site)
    OBVIOUS
  <2>2. ASSUME k # 0 PROVE In(i, f.functions[k].calls) \in Seq(Site)
    <3>1. i \in Nat /\ f.functions[k].calls \in Seq(AnyCall)
      BY <1>1, <2>2
    <3>. HIDE DEF f
    <3>. QED  BY <3>1, InFacts
  <2>. QED  BY <1>0, <2>1, <2>2
<1>3. ASSUME NEW n \in 1 .. Len(f.handlers)
      PROVE  rows[n] \in Seq(Site) /\ rows[n] = IF n \in inner THEN In(i, f.handlers[n].calls) ELSE <<>>
  <2>1. <<>> \in Seq(Site)
    OBVIOUS
  <2>2. In(i, f.handlers[n].calls) \in Seq(Site)
    <3>1. i \in Nat /\ f.handlers[n].calls \in Seq(AnyCall)
      BY <1>1
    <3>. HIDE DEF f
    <3>. QED  BY <3>1, InFacts
  <2>3. rows[n] = IF n \in inner THEN In(i, f.handlers[n].calls) ELSE <<>>
    OBVIOUS
  <2>. QED  BY <2>1, <2>2, <2>3
<1>4. FlattenSeq(rows) \in Seq(Site) /\ Elements(FlattenSeq(rows)) = all
  <2>. DEFINE m == Len(f.handlers)
  <2>1. m \in Nat /\ DOMAIN rows = 1 .. m /\ rows = [n \in 1 .. m |-> rows[n]] /\ \A n \in 1 .. m : rows[n] \in Seq(Site)
    <3>1. \A n \in 1 .. m : rows[n] \in Seq(Site)
      BY <1>3
    <3>. QED  BY <1>1, <3>1
  <2>. HIDE DEF rows, m
  <2>2. FlattenSeq(rows) \in Seq(Site) /\ Elements(FlattenSeq(rows)) = UNION {Elements(rows[n]) : n \in 1 .. m}
    BY <2>1, RowsFlattened
  <2>. QED  BY <2>2 DEF m
<1>5. all = UNION {Elements(In(i, f.handlers[n].calls)) : n \in inner}
  <2>1. \A n \in 1 .. Len(f.handlers) : n \in inner => Elements(rows[n]) = Elements(In(i, f.handlers[n].calls))
    BY <1>3
  <2>2. \A n \in 1 .. Len(f.handlers) : n \notin inner => Elements(rows[n]) = {}
    BY <1>0, <1>3
  <2>3. inner \subseteq 1 .. Len(f.handlers)
    OBVIOUS
  <2>. HIDE DEF rows, inner, f
  <2>. QED  BY <2>1, <2>2, <2>3
<1>6. Body(i, k) = own \o FlattenSeq(rows)
  BY DEF Body
<1>. HIDE DEF own, rows, all, inner, f
<1>7. Body(i, k) \in Seq(Site) /\ Elements(Body(i, k)) = Elements(own) \cup all
  BY <1>2, <1>4, <1>6, ConcatElements
<1>8. \A n \in inner : \A c \in Elements(In(i, f.handlers[n].calls)) : c[1] = i
  BY <1>1, InFacts DEF inner
<1>9. k # 0 => \A c \in Elements(In(i, f.functions[k].calls)) : c[1] = i
  BY <1>1, InFacts
<1>10. \A c \in Elements(Body(i, k)) : c[1] = i
  BY <1>2, <1>5, <1>7, <1>8, <1>9
<1>. QED  BY <1>2, <1>5, <1>7, <1>10 DEF f, inner

LEMMA CallSitesFacts ==
    ASSUME FilesInv, NEW i \in 1 .. Len(files), NEW k \in 0 .. Len(files[i].functions)
    PROVE  /\ CallSites(i, k) \in Seq(Site)
           /\ Elements(CallSites(i, k)) = {c \in Elements(Body(i, k)) : language = "ts" => ~Ts!Importing(c[2])}
<1>1. Body(i, k) \in Seq(Site)
  BY BodyFacts
<1>. DEFINE A == {c \in ToSet(Body(i, k)) : ~Ts!Importing(c[2])}
<1>2. Kept(Body(i, k), A) \in Seq(Site) /\ Elements(Kept(Body(i, k), A)) = Elements(Body(i, k)) \cap A
  <2>. HIDE DEF A
  <2>. QED  BY <1>1, KeptFacts
<1>. QED  BY <1>1, <1>2, ToSetElements DEF CallSites

LEMMA CallSitesInFacts ==
    ASSUME FilesInv, NEW q
    PROVE  /\ CallSitesIn(q) \in Seq(Site)
           /\ \A c : c \in Elements(CallSitesIn(q)) <=>
                \E i \in Indexed : \E k \in 0 .. Len(files[i].functions) :
                  Name(i, k) = q /\ c \in Elements(CallSites(i, k))
<1>. DEFINE Cell(i, n) == IF i \in Indexed /\ Name(i, n - 1) = q THEN CallSites(i, n - 1) ELSE <<>>
            Row(i) == [n \in 1 .. Len(files[i].functions) + 1 |-> Cell(i, n)]
            rows == [i \in 1 .. read |-> FlattenSeq(Row(i))]
<1>0. Elements(<<>>) = {}
  BY DEF Elements
<1>1. read \in Nat /\ Len(files) \in Nat /\ \A i \in 1 .. read : i \in 1 .. Len(files) /\ Len(files[i].functions) \in Nat
  BY FileFacts, FileShape DEF FilesInv
<1>2. ASSUME NEW i \in 1 .. read, NEW n \in 1 .. Len(files[i].functions) + 1
      PROVE  n - 1 \in 0 .. Len(files[i].functions) /\ Cell(i, n) \in Seq(Site)
  <2>1. i \in 1 .. Len(files) /\ n - 1 \in 0 .. Len(files[i].functions)
    BY <1>1
  <2>2. CallSites(i, n - 1) \in Seq(Site)
    BY <2>1, CallSitesFacts
  <2>. QED  BY <2>1, <2>2
<1>3. ASSUME NEW i \in 1 .. read
      PROVE  /\ FlattenSeq(Row(i)) \in Seq(Site)
             /\ Elements(FlattenSeq(Row(i))) = UNION {Elements(Cell(i, n)) : n \in 1 .. Len(files[i].functions) + 1}
  <2>. DEFINE m == Len(files[i].functions) + 1
              row == Row(i)
  <2>1. m \in Nat /\ DOMAIN row = 1 .. m /\ row = [n \in 1 .. m |-> row[n]] /\ \A n \in 1 .. m : row[n] = Cell(i, n)
    BY <1>1
  <2>2. \A n \in 1 .. m : row[n] \in Seq(Site)
    BY <1>2, <2>1
  <2>3. {Elements(row[n]) : n \in 1 .. m} = {Elements(Cell(i, n)) : n \in 1 .. m}
    BY <2>1
  <2>. HIDE DEF row, m, Cell
  <2>4. FlattenSeq(row) \in Seq(Site) /\ Elements(FlattenSeq(row)) = UNION {Elements(row[n]) : n \in 1 .. m}
    BY <2>1, <2>2, RowsFlattened
  <2>. QED  BY <2>3, <2>4 DEF row, m
<1>4. FlattenSeq(rows) \in Seq(Site) /\ Elements(FlattenSeq(rows)) = UNION {Elements(FlattenSeq(Row(i))) : i \in 1 .. read}
  <2>1. DOMAIN rows = 1 .. read /\ rows = [i \in 1 .. read |-> rows[i]] /\ \A i \in 1 .. read : rows[i] = FlattenSeq(Row(i))
    OBVIOUS
  <2>2. {Elements(rows[i]) : i \in 1 .. read} = {Elements(FlattenSeq(Row(i))) : i \in 1 .. read}
    BY <2>1
  <2>3. \A i \in 1 .. read : rows[i] \in Seq(Site)
    <3>1. \A i \in 1 .. read : FlattenSeq(Row(i)) \in Seq(Site)
      BY <1>3
    <3>. HIDE DEF rows, Row
    <3>. QED  BY <2>1, <3>1
  <2>. DEFINE m == read
  <2>4. m \in Nat /\ DOMAIN rows = 1 .. m /\ rows = [i \in 1 .. m |-> rows[i]] /\ \A i \in 1 .. m : rows[i] \in Seq(Site)
    BY <1>1, <2>1, <2>3
  <2>. HIDE DEF rows, Row, m
  <2>5. FlattenSeq(rows) \in Seq(Site) /\ Elements(FlattenSeq(rows)) = UNION {Elements(rows[i]) : i \in 1 .. m}
    BY <2>4, RowsFlattened
  <2>. QED  BY <2>2, <2>5 DEF m
<1>5. CallSitesIn(q) = FlattenSeq(rows)
  BY DEF CallSitesIn
<1>. HIDE DEF rows, Row
<1>6. ASSUME NEW c
      PROVE  c \in Elements(CallSitesIn(q)) <=>
               \E i \in 1 .. read : \E n \in 1 .. Len(files[i].functions) + 1 : c \in Elements(Cell(i, n))
  <2>. HIDE DEF Cell
  <2>. QED  BY <1>3, <1>4, <1>5
<1>7. ASSUME NEW c \in Elements(CallSitesIn(q))
      PROVE  \E i \in Indexed : \E k \in 0 .. Len(files[i].functions) : Name(i, k) = q /\ c \in Elements(CallSites(i, k))
  <2>1. PICK i \in 1 .. read : \E n \in 1 .. Len(files[i].functions) + 1 : c \in Elements(Cell(i, n))
    BY <1>6
  <2>2. PICK n \in 1 .. Len(files[i].functions) + 1 : c \in Elements(Cell(i, n))
    BY <2>1
  <2>3. i \in Indexed /\ Name(i, n - 1) = q /\ c \in Elements(CallSites(i, n - 1))
    BY <1>0, <2>2
  <2>. QED  BY <1>2, <2>3
<1>8. ASSUME NEW i \in Indexed, NEW k \in 0 .. Len(files[i].functions), Name(i, k) = q, NEW c \in Elements(CallSites(i, k))
      PROVE  c \in Elements(CallSitesIn(q))
  <2>1. i \in 1 .. read
    BY DEF Indexed
  <2>2. k + 1 \in 1 .. Len(files[i].functions) + 1 /\ (k + 1) - 1 = k
    BY <1>1, <2>1
  <2>3. Cell(i, k + 1) = CallSites(i, k)
    BY <1>8, <2>2
  <2>. QED  BY <1>6, <1>8, <2>1, <2>2, <2>3
<1>. QED  BY <1>4, <1>5, <1>7, <1>8

(* Of the handlers of one name there is a last one. *)
LEMMA LastOne ==
    ASSUME NEW R \in Nat, NEW S, S # {}, \A a \in S : a = <<a[1], a[2]>> /\ a[1] \in 1 .. R /\ a[2] \in Nat,
           NEW B, \A a \in S : B[a[1]] \in Nat /\ a[2] <= B[a[1]]
    PROVE  \E a \in S : \A b \in S : a[1] > b[1] \/ (a[1] = b[1] /\ a[2] >= b[2])
<1>. DEFINE I == {R - a[1] : a \in S}
<1>1. I \in SUBSET Nat /\ I # {}
  OBVIOUS
<1>2. PICK x \in I : \A y \in I : x <= y
  <2>. HIDE DEF I
  <2>. QED  BY <1>1, LeastNat
<1>3. PICK c \in S : R - c[1] = x
  BY <1>2
<1>4. ASSUME NEW b \in S PROVE c[1] >= b[1]
  <2>1. R - b[1] \in I
    OBVIOUS
  <2>2. x <= R - b[1]
    <3>. HIDE DEF I
    <3>. QED  BY <1>2, <2>1
  <2>3. b[1] \in Nat /\ c[1] \in Nat
    OBVIOUS
  <2>. QED  BY <1>3, <2>2, <2>3
<1>. DEFINE J == {B[c[1]] - a[2] : a \in {b \in S : b[1] = c[1]}}
<1>5. J \in SUBSET Nat /\ J # {}
  OBVIOUS
<1>6. PICK u \in J : \A v \in J : u <= v
  <2>. HIDE DEF J
  <2>. QED  BY <1>5, LeastNat
<1>7. PICK a \in S : a[1] = c[1] /\ B[c[1]] - a[2] = u
  BY <1>6
<1>8. ASSUME NEW b \in S, b[1] = c[1] PROVE a[2] >= b[2]
  <2>1. B[c[1]] - b[2] \in J
    BY <1>8
  <2>2. u <= B[c[1]] - b[2]
    <3>. HIDE DEF J
    <3>. QED  BY <1>6, <2>1
  <2>3. b[2] \in Nat /\ a[2] \in Nat /\ B[c[1]] \in Nat
    OBVIOUS
  <2>. QED  BY <1>7, <2>2, <2>3
<1>9. ASSUME NEW b \in S PROVE a[1] > b[1] \/ (a[1] = b[1] /\ a[2] >= b[2])
  BY <1>4, <1>7, <1>8
<1>. QED  BY <1>9

HandlersOf(q) == {h \in UNION {{i} \X (1 .. Len(files[i].handlers)) : i \in Indexed} : HandlerName(h[1], h[2]) = q}

LEMMA HandlerCallsFacts ==
    ASSUME FilesInv, NEW q
    PROVE  /\ HandlerCalls(q) \in Seq(Site)
           /\ HandlersOf(q) = {} => HandlerCalls(q) = <<>>
           /\ HandlersOf(q) # {} => \E h \in HandlersOf(q) : HandlerCalls(q) = In(h[1], files[h[1]].handlers[h[2]].calls)
<1>. DEFINE later(a, b) == a[1] > b[1] \/ (a[1] = b[1] /\ a[2] >= b[2])
            last == CHOOSE a \in HandlersOf(q) : \A b \in HandlersOf(q) : later(a, b)
            calls == files[last[1]].handlers[last[2]].calls
<1>1. HandlerCalls(q) = IF HandlersOf(q) = {} THEN <<>> ELSE In(last[1], calls)
  BY DEF HandlerCalls, HandlersOf
<1>2. CASE HandlersOf(q) = {}
  <2>1. <<>> \in Seq(Site)
    OBVIOUS
  <2>. QED  BY <1>1, <1>2, <2>1
<1>3. CASE HandlersOf(q) # {}
  <2>1. ASSUME NEW a \in HandlersOf(q)
        PROVE  /\ a = <<a[1], a[2]>> /\ a[1] \in 1 .. read /\ a[1] \in 1 .. Len(files)
               /\ a[2] \in 1 .. Len(files[a[1]].handlers) /\ Len(files[a[1]].handlers) \in Nat
    <3>1. PICK i \in Indexed : a \in {i} \X (1 .. Len(files[i].handlers))
      BY DEF HandlersOf
    <3>2. i \in 1 .. read /\ i \in 1 .. Len(files)
      BY FileFacts DEF Indexed, FilesInv
    <3>. QED  BY <3>1, <3>2, FileShape
  <2>2. \E a \in HandlersOf(q) : \A b \in HandlersOf(q) : later(a, b)
    <3>. DEFINE B == [i \in 1 .. read |-> Len(files[i].handlers)]
                R == read
                S == HandlersOf(q)
    <3>1. R \in Nat /\ S # {}
      BY <1>3, FileFacts DEF FilesInv
    <3>2. \A a \in S : a = <<a[1], a[2]>> /\ a[1] \in 1 .. R /\ a[2] \in Nat
      BY <2>1
    <3>3. \A a \in S : B[a[1]] \in Nat /\ a[2] <= B[a[1]]
      BY <2>1
    <3>. HIDE DEF B, R, S
    <3>4. \E a \in S : \A b \in S : a[1] > b[1] \/ (a[1] = b[1] /\ a[2] >= b[2])
      BY <3>1, <3>2, <3>3, LastOne
    <3>. QED  BY <3>4 DEF S
  <2>3. last \in HandlersOf(q)
    <3>. HIDE DEF later
    <3>. QED  BY <2>2
  <2>. HIDE DEF last
  <2>4. In(last[1], calls) \in Seq(Site)
    <3>1. last[1] \in Nat /\ last[1] \in 1 .. Len(files) /\ last[2] \in 1 .. Len(files[last[1]].handlers)
      BY <2>1, <2>3
    <3>2. calls \in Seq(AnyCall)
      BY <3>1, FileShape
    <3>. HIDE DEF calls
    <3>. QED  BY <3>1, <3>2, InFacts
  <2>. QED  BY <1>1, <1>3, <2>3, <2>4
<1>. QED  BY <1>2, <1>3

-----------------------------------------------------------------------------
LEMMA SequenceOperators ==
    \A s : /\ ToSet(s) = Elements(s) /\ Ts!ToSet(s) = Elements(s) /\ Go!ToSet(s) = Elements(s)
           /\ Last(s) = s[Len(s)] /\ Ts!Last(s) = s[Len(s)]
BY DEF ToSet, Ts!ToSet, Go!ToSet, Elements, Last, Ts!Last

LEMMA SameCardinality == \A S : Ts!Cardinality(S) = Cardinality(S) /\ Go!Cardinality(S) = Cardinality(S)
BY DEF Cardinality, Ts!Cardinality, Go!Cardinality

LEMMA ShortSequences ==
    ASSUME NEW S, NEW x \in S, NEW y \in S
    PROVE  /\ <<>> \in Seq(S) /\ Len(<<>>) = 0
           /\ <<x>> \in Seq(S) /\ Len(<<x>>) = 1 /\ <<x>>[1] = x
           /\ <<x, y>> \in Seq(S) /\ Len(<<x, y>>) = 2
           /\ <<x, y>>[1] = x /\ <<x, y>>[2] = y
OBVIOUS

LEMMA WiderSeq == ASSUME NEW S, NEW T, S \subseteq T PROVE \A s \in Seq(S) : s \in Seq(T)
OBVIOUS

LEMMA SingleAppended == ASSUME NEW S, NEW s \in Seq(S), NEW x \in S PROVE s \o <<x>> = Append(s, x)
OBVIOUS

LEMMA TwoSingles == ASSUME NEW S, NEW x \in S, NEW y \in S PROVE <<y>> \o <<x>> = <<y, x>>
<1>. DEFINE u == <<y>>
            v == <<y, x>>
<1>1. u \in Seq(S) /\ Len(u) = 1 /\ u[1] = y
  OBVIOUS
<1>2. v \in Seq(S) /\ Len(v) = 2 /\ v[1] = y /\ v[2] = x
  OBVIOUS
<1>. HIDE DEF u, v
<1>3. u \o <<x>> = Append(u, x)
  BY <1>1, SingleAppended
<1>4. /\ Append(u, x) \in Seq(S) /\ Len(Append(u, x)) = 2
      /\ Append(u, x)[1] = y /\ Append(u, x)[2] = x
  <2>1. 1 \in 1 .. Len(u) /\ Len(u) + 1 = 2
    BY <1>1
  <2>. DEFINE w == Append(u, x)
  <2>2. w \in Seq(S) /\ Len(w) = Len(u) + 1 /\ (\A i \in 1 .. Len(u) : w[i] = u[i]) /\ w[Len(u) + 1] = x
    <3>1. u \in Seq(S)
      BY <1>1
    <3>. QED  BY <3>1, AppendInSeq
  <2>. HIDE DEF w
  <2>3. w \in Seq(S) /\ Len(w) = 2 /\ w[1] = y /\ w[2] = x
    BY <1>1, <2>1, <2>2
  <2>. QED  BY <2>3 DEF w
<1>5. Append(u, x) = v
  <2>. DEFINE w == Append(u, x)
  <2>1. w \in Seq(S) /\ Len(w) = 2 /\ w[1] = v[1] /\ w[2] = v[2]
    BY <1>2, <1>4
  <2>. HIDE DEF w
  <2>2. \A i \in 1 .. 2 : w[i] = v[i]
    <3>1. \A i \in 1 .. 2 : i = 1 \/ i = 2
      OBVIOUS
    <3>. QED  BY <2>1, <3>1
  <2>3. w = v
    BY <1>2, <2>1, <2>2
  <2>. QED  BY <2>3 DEF w
<1>. QED  BY <1>3, <1>5 DEF u, v

LEMMA ConcatFacts ==
    ASSUME NEW S, NEW s \in Seq(S), NEW t \in Seq(S)
    PROVE  /\ s \o t \in Seq(S) /\ Len(s \o t) = Len(s) + Len(t)
           /\ \A i \in 1 .. Len(s) : (s \o t)[i] = s[i]
           /\ \A i \in 1 .. Len(t) : (s \o t)[Len(s) + i] = t[i]
OBVIOUS

LEMMA ConcatAssociates ==
    ASSUME NEW S, NEW s \in Seq(S), NEW t \in Seq(S), NEW u \in Seq(S)
    PROVE  (s \o t) \o u = s \o (t \o u)
OBVIOUS

LEMMA InElements ==
    ASSUME NEW T, NEW s \in Seq(T)
    PROVE  /\ \A n \in 1 .. Len(s) : s[n] \in Elements(s)
           /\ \A x \in Elements(s) : x \in T /\ \E n \in 1 .. Len(s) : s[n] = x
BY DEF Elements

(* Names.  Under Plain no handler has the name of a function or a module.  *)
LEMMA TsNamesDiffer ==
    ASSUME FilesInv, Plain, language = "ts",
           NEW i \in 1 .. Len(files), NEW n \in 1 .. Len(files[i].handlers),
           NEW j \in 1 .. Len(files), NEW k \in 0 .. Len(files[j].functions)
    PROVE  HandlerName(i, n) # Name(j, k)
<1>. DEFINE h == files[i].handlers[n]
            mi == files[i].module
            mj == files[j].module
<1>1. Ts!Plain(SitesOfAll)
  BY DEF Plain
<1>2. /\ mi \in Seq(STRING) \ {<<>>} /\ mj \in Seq(STRING) \ {<<>>}
      /\ files[i].handlers \in Seq(Ts!Handler) /\ files[j].functions \in Seq(Ts!Function)
  BY FileFacts, TsFile
<1>3. h \in Ts!ToSet(files[i].handlers) /\ h \in Ts!Handler
  BY <1>2, InElements, SequenceOperators
<1>4. mj[1] # "<handler>" /\ Append(mi, h.name) # mj
  <2>1. \A x \in Ts!ToSet(files[i].handlers) : Append(mi, x.name) # mj
    BY <1>1 DEF Ts!Plain
  <2>2. mj[1] \notin {"./", "<handler>"}
    BY <1>1 DEF Ts!Plain
  <2>. QED  BY <1>3, <2>1, <2>2
<1>5. k # 0 => Append(mi, h.name) # Ts!Name(j, k)
  <2>1. k # 0 => <<j, k>> \in Ts!Functions
    BY <1>2 DEF Ts!Functions
  <2>2. \A a \in Ts!Functions : \A x \in Ts!ToSet(files[i].handlers) : Append(mi, x.name) # Ts!Name(a[1], a[2])
    BY <1>1 DEF Ts!Plain
  <2>. QED  BY <1>3, <2>1, <2>2
<1>6. HandlerName(i, n) = IF h.name # "" THEN Append(mi, h.name) ELSE <<"<handler>">> \o Append(mi, h.line)
  BY DEF HandlerName, Ts!HandlerName
<1>7. Name(j, k) = Ts!Name(j, k)
  BY DEF Name
<1>8. CASE h.name # ""
  <2>1. k = 0 => Ts!Name(j, k) = mj
    BY <1>2 DEF Ts!Name
  <2>. QED  BY <1>4, <1>5, <1>6, <1>7, <1>8, <2>1
<1>9. CASE h.name = ""
  <2>1. (<<"<handler>">> \o Append(mi, h.line))[1] = "<handler>"
    BY <1>2, <1>3 DEF Ts!Handler
  <2>2. Ts!Name(j, k)[1] = mj[1]
    <3>. DEFINE f == files[j].functions[k]
                rest == IF k = 0 THEN <<>> ELSE IF f.cls = "" THEN <<f.name>> ELSE <<f.cls, f.name>>
    <3>1. rest \in Seq(STRING)
      <4>1. k # 0 => f \in Ts!Function
        BY <1>2
      <4>2. k # 0 => f.cls \in STRING /\ f.name \in STRING
        BY <4>1 DEF Ts!Function
      <4>. HIDE DEF f
      <4>3. <<>> \in Seq(STRING)
        OBVIOUS
      <4>4. k # 0 => <<f.name>> \in Seq(STRING) /\ <<f.cls, f.name>> \in Seq(STRING)
        BY <4>2, ShortSequences
      <4>. QED  BY <4>3, <4>4
    <3>2. Ts!Name(j, k) = mj \o rest
      BY DEF Ts!Name
    <3>. HIDE DEF rest
    <3>. QED  BY <1>2, <3>1, <3>2
  <2>. QED  BY <1>4, <1>6, <1>7, <1>9, <2>1, <2>2
<1>. QED  BY <1>8, <1>9

LEMMA GoNamesDiffer ==
    ASSUME FilesInv, Plain, language = "go",
           NEW i \in 1 .. Len(files), NEW n \in 1 .. Len(files[i].handlers),
           NEW j \in 1 .. Len(files), NEW k \in 0 .. Len(files[j].functions)
    PROVE  HandlerName(i, n) # Name(j, k)
<1>. DEFINE di == files[i].dir
            dj == files[j].dir
            f == files[j].functions[k]
            place == IF di = <<>> THEN <<files[i].path>> ELSE di
            line == files[i].handlers[n].line
            hn == HandlerName(i, n)
<1>1. Go!Plain(SitesOfAll)
  BY DEF Plain
<1>2. /\ di \in Seq(STRING) /\ dj \in Seq(STRING)
      /\ files[i].handlers \in Seq(Go!Handler) /\ files[j].functions \in Seq(Go!Function)
  BY FileFacts, GoFile
<1>3. dj # <<>> => dj[1] # "<handler>"
  BY <1>1 DEF Go!Plain
<1>4. hn = <<"<handler>">> \o place \o <<line>>
  BY DEF HandlerName, Go!HandlerName
<1>5. \E T : place \in Seq(T) /\ line \in T /\ "<handler>" \in T /\ place # <<>>
  <2>. DEFINE T == STRING \cup {files[i].path, line, "<handler>"}
  <2>1. place \in Seq(T) /\ place # <<>>
    <3>1. di \in Seq(T) /\ files[i].path \in T
      BY <1>2
    <3>. HIDE DEF T, di
    <3>. QED  BY <3>1
  <2>3. line \in T /\ "<handler>" \in T
    <3>. DEFINE path == files[i].path
    <3>. HIDE DEF line, path
    <3>. QED  BY Zenon
  <2>. HIDE DEF T, place, line
  <2>. QED  BY <2>1, <2>3, Zenon
<1>. HIDE DEF place, line, hn
<1>6. hn[1] = "<handler>" /\ Len(hn) > 2
  <2>1. PICK T : place \in Seq(T) /\ line \in T /\ "<handler>" \in T /\ place # <<>>
    BY <1>5
  <2>2. Len(place) > 0
    BY <2>1
  <2>. QED  BY <1>4, <2>1, <2>2
<1>7. k # 0 => f \in Go!Function
  BY <1>2
<1>8. Name(j, k) = IF k = 0 THEN IF dj = <<>> THEN <<"<package>">> ELSE dj
                   ELSE dj \o (IF f.recv = "" THEN <<>> ELSE <<f.recv>>) \o <<f.name>>
  BY DEF Name, Go!Name
<1>. HIDE DEF f, dj, di
<1>11. k # 0 => f.recv \in STRING /\ f.name \in STRING
  BY <1>7 DEF Go!Function
<1>9. CASE dj = <<>>
  <2>1. k = 0 => Name(j, k)[1] = "<package>"
    BY <1>8, <1>9
  <2>2. ASSUME k # 0 PROVE Len(Name(j, k)) <= 2
    <3>. DEFINE r == IF f.recv = "" THEN <<>> ELSE <<f.recv>>
    <3>1. r \in Seq(STRING) /\ <<f.name>> \in Seq(STRING) /\ <<>> \in Seq(STRING)
          /\ Len(r) <= 1 /\ Len(<<f.name>>) = 1
      <4>. DEFINE x == f.recv
                  y == f.name
      <4>1. x \in STRING /\ y \in STRING
        BY <1>11, <2>2
      <4>. HIDE DEF x, y
      <4>2. /\ <<>> \in Seq(STRING) /\ Len(<<>>) = 0
            /\ <<x>> \in Seq(STRING) /\ Len(<<x>>) = 1
            /\ <<y>> \in Seq(STRING) /\ Len(<<y>>) = 1
        BY <4>1, ShortSequences
      <4>3. r = <<>> \/ r = <<x>>
        BY DEF x
      <4>. HIDE DEF r
      <4>4. CASE r = <<>>
        <5>1. r \in Seq(STRING) /\ Len(r) = 0
          BY <4>2, <4>4
        <5>. QED  BY <4>2, <5>1 DEF y
      <4>5. CASE r = <<x>>
        <5>1. r \in Seq(STRING) /\ Len(r) = 1
          BY <4>2, <4>5
        <5>. QED  BY <4>2, <5>1 DEF y
      <4>. QED  BY <4>3, <4>4, <4>5
    <3>2. Name(j, k) = <<>> \o r \o <<f.name>>
      BY <1>8, <1>9, <2>2
    <3>. HIDE DEF r
    <3>. QED  BY <3>1, <3>2
  <2>. QED  BY <1>6, <2>1, <2>2 DEF hn
<1>10. CASE dj # <<>>
  <2>1. Name(j, k)[1] = dj[1]
    <3>1. k = 0 => Name(j, k) = dj
      BY <1>8, <1>10
    <3>2. ASSUME k # 0 PROVE Name(j, k)[1] = dj[1]
      <4>. DEFINE rest == (IF f.recv = "" THEN <<>> ELSE <<f.recv>>) \o <<f.name>>
      <4>1. rest \in Seq(STRING)
        <5>. DEFINE r == IF f.recv = "" THEN <<>> ELSE <<f.recv>>
        <5>1. r \in Seq(STRING) /\ <<f.name>> \in Seq(STRING)
          BY <1>11, <3>2, ShortSequences
        <5>. HIDE DEF r
        <5>2. r \o <<f.name>> \in Seq(STRING)
          BY <5>1
        <5>. QED  BY <5>2 DEF r
      <4>2. Name(j, k) = dj \o rest
        <5>. DEFINE r == IF f.recv = "" THEN <<>> ELSE <<f.recv>>
        <5>1. r \in Seq(STRING) /\ <<f.name>> \in Seq(STRING)
          BY <1>11, <3>2, ShortSequences
        <5>2. Name(j, k) = dj \o r \o <<f.name>>
          BY <1>8, <3>2
        <5>. HIDE DEF r
        <5>3. dj \o r \o <<f.name>> = dj \o (r \o <<f.name>>)
          <6>1. dj \in Seq(STRING)
            BY <1>2
          <6>. QED  BY <5>1, <6>1, ConcatAssociates, SMTT(30)
        <5>. QED  BY <5>2, <5>3 DEF r
      <4>. HIDE DEF rest
      <4>. QED  BY <1>2, <1>10, <4>1, <4>2
    <3>. QED  BY <3>1, <3>2
  <2>. QED  BY <1>3, <1>6, <1>10, <2>1 DEF hn
<1>. QED  BY <1>9, <1>10

-----------------------------------------------------------------------------
(* What the index holds: a symbol for each function of the files read.     *)
FunctionsOf(F) == {a \in Nat \X Nat : a[1] \in F /\ a[2] \in 1 .. Len(files[a[1]].functions)}

TsSymbol(a) ==
    LET f == files[a[1]].functions[a[2]]
    IN  [qname |-> Ts!Name(a[1], a[2]), name |-> f.name, cls |-> f.cls, file |-> a[1]]

TsSymbolsAt(F, s, at) ==
    /\ s = [n \in 1 .. Len(s) |-> TsSymbol(at[n])] /\ Len(s) \in Nat
    /\ at \in [1 .. Len(s) -> FunctionsOf(F)]
    /\ \A n, m \in 1 .. Len(s) : at[n] = at[m] => n = m
    /\ \A a \in FunctionsOf(F) : \E n \in 1 .. Len(s) : at[n] = a

TsSymbols(F, s) == \E at : TsSymbolsAt(F, s, at)

GoSymbol(a) == Go!SymbolOf(a[1], a[2])

GoSymbols(F, s) ==
    /\ s \in Seq({GoSymbol(a) : a \in FunctionsOf(F)})
    /\ \A a \in FunctionsOf(F) : \E x \in Elements(s) : x.qname = GoSymbol(a).qname

SymbolsInv ==
    /\ stage = "wait" => read = 0 /\ symbols = <<>>
    /\ stage \notin {"wait", "index"} => read = Len(files)
    /\ language = "ts" => TsSymbols(Indexed, symbols)
    /\ language = "go" => GoSymbols(Indexed, symbols)

LEMMA NoFunctions == TsSymbols({}, <<>>) /\ GoSymbols({}, <<>>)
<1>1. FunctionsOf({}) = {}
  BY DEF FunctionsOf
<1>2. TsSymbols({}, <<>>)
  <2>. DEFINE at == [n \in 1 .. 0 |-> 0]
  <2>1. TsSymbolsAt({}, <<>>, at)
    BY <1>1 DEF TsSymbolsAt
  <2>. QED  BY <2>1 DEF TsSymbols
<1>3. GoSymbols({}, <<>>)
  <2>1. <<>> \in Seq({GoSymbol(a) : a \in FunctionsOf({})})
    OBVIOUS
  <2>. QED  BY <1>1, <2>1 DEF GoSymbols
<1>. QED  BY <1>2, <1>3

LEMMA FunctionsGrow ==
    ASSUME NEW F, NEW i \in Nat, NEW L \in Nat, Len(files[i].functions) = L
    PROVE  FunctionsOf(F \cup {i}) = FunctionsOf(F) \cup {<<i, k>> : k \in 1 .. L}
<1>1. \A a \in FunctionsOf(F \cup {i}) : a \in FunctionsOf(F) \cup {<<i, k>> : k \in 1 .. L}
  BY DEF FunctionsOf
<1>2. \A a \in FunctionsOf(F) : a \in FunctionsOf(F \cup {i})
  BY DEF FunctionsOf
<1>3. \A k \in 1 .. L : <<i, k>> \in FunctionsOf(F \cup {i})
  BY DEF FunctionsOf
<1>. QED  BY <1>1, <1>2, <1>3

LEMMA TwoTables ==
    ASSUME NEW N \in Nat, NEW L \in Nat, NEW s, NEW t,
           s = [n \in 1 .. N |-> s[n]], t = [k \in 1 .. L |-> t[k]]
    PROVE  /\ Len(s \o t) = N + L
           /\ s \o t = [n \in 1 .. N + L |-> IF n <= N THEN s[n] ELSE t[n - N]]
<1>. DEFINE A == {s[n] : n \in 1 .. N}
            B == {t[k] : k \in 1 .. L}
            T == A \cup B
            u == s \o t
<1>1. s \in [1 .. N -> A] /\ t \in [1 .. L -> B]
  OBVIOUS
<1>. HIDE DEF A, B
<1>2. s \in [1 .. N -> T] /\ t \in [1 .. L -> T]
  <2>1. \A n \in 1 .. N : s[n] \in T
    BY <1>1
  <2>2. \A k \in 1 .. L : t[k] \in T
    BY <1>1
  <2>. HIDE DEF T
  <2>. QED  BY <2>1, <2>2
<1>. HIDE DEF T
<1>3. s \in Seq(T) /\ t \in Seq(T) /\ Len(s) = N /\ Len(t) = L
  BY <1>2
<1>4. u \in Seq(T) /\ Len(u) = N + L
  BY <1>3
<1>5. \A n \in 1 .. N + L : u[n] = IF n <= N THEN s[n] ELSE t[n - N]
  BY <1>3
<1>. HIDE DEF u
<1>6. u = [n \in 1 .. N + L |-> u[n]]
  BY <1>4
<1>7. u = [n \in 1 .. N + L |-> IF n <= N THEN s[n] ELSE t[n - N]]
  BY <1>5, <1>6
<1>. QED  BY <1>4, <1>7 DEF u

LEMMA TsRegistered ==
    ASSUME NEW F, NEW i \in Nat, i \notin F, Len(files[i].functions) \in Nat, TsSymbols(F, symbols)
    PROVE  TsSymbols(F \cup {i}, Ts!Registered(i))
<1>. DEFINE L == Len(files[i].functions)
            N == Len(symbols)
            new == [k \in 1 .. L |-> TsSymbol(<<i, k>>)]
            all == symbols \o new
            G == FunctionsOf(F)
            H == FunctionsOf(F \cup {i})
<1>1. PICK at : TsSymbolsAt(F, symbols, at)
  BY DEF TsSymbols
<1>2. Ts!Registered(i) = all
  BY DEF Ts!Registered, TsSymbol
<1>3. /\ L \in Nat /\ N \in Nat /\ at \in [1 .. N -> G]
      /\ symbols = [n \in 1 .. N |-> TsSymbol(at[n])]
      /\ \A n, m \in 1 .. N : at[n] = at[m] => n = m
      /\ \A a \in G : \E n \in 1 .. N : at[n] = a
  BY <1>1 DEF TsSymbolsAt
<1>4. H = G \cup {<<i, k>> : k \in 1 .. L}
  <2>. HIDE DEF G, H
  <2>. QED  BY <1>3, FunctionsGrow, SMTT(30) DEF G, H
<1>5. \A a \in G : a[1] # i
  BY DEF FunctionsOf
<1>. DEFINE more == [n \in 1 .. N + L |-> IF n <= N THEN at[n] ELSE <<i, n - N>>]
<1>. HIDE DEF G, H, L, N
<1>6. Len(all) = N + L /\ all = [n \in 1 .. N + L |-> TsSymbol(more[n])]
  <2>1. /\ symbols = [n \in 1 .. N |-> symbols[n]] /\ \A n \in 1 .. N : symbols[n] = TsSymbol(at[n])
        /\ new = [k \in 1 .. L |-> new[k]] /\ \A k \in 1 .. L : new[k] = TsSymbol(<<i, k>>)
    <3>. DEFINE sym(n) == TsSymbol(at[n])
                fun(k) == TsSymbol(<<i, k>>)
    <3>. HIDE DEF sym, fun
    <3>1. symbols = [n \in 1 .. N |-> sym(n)] /\ new = [k \in 1 .. L |-> fun(k)]
      BY <1>3 DEF sym, fun
    <3>. HIDE DEF new
    <3>2. /\ symbols = [n \in 1 .. N |-> symbols[n]] /\ \A n \in 1 .. N : symbols[n] = sym(n)
          /\ new = [k \in 1 .. L |-> new[k]] /\ \A k \in 1 .. L : new[k] = fun(k)
      BY <3>1
    <3>. QED  BY <3>2 DEF sym, fun
  <2>. HIDE DEF new
  <2>2. /\ Len(all) = N + L
        /\ all = [n \in 1 .. N + L |-> IF n <= N THEN symbols[n] ELSE new[n - N]]
    <3>1. N \in Nat /\ L \in Nat
      BY <1>3
    <3>. QED  BY <2>1, <3>1, TwoTables
  <2>3. \A n \in 1 .. N + L : (IF n <= N THEN symbols[n] ELSE new[n - N]) = TsSymbol(more[n])
    <3>1. \A n \in 1 .. N + L : IF n <= N THEN n \in 1 .. N /\ more[n] = at[n]
                                ELSE n - N \in 1 .. L /\ more[n] = <<i, n - N>>
      BY <1>3
    <3>. HIDE DEF more
    <3>. QED  BY <2>1, <3>1
  <2>. HIDE DEF all, more
  <2>. QED  BY <2>2, <2>3
<1>. HIDE DEF all, new
<1>7. more \in [1 .. N + L -> H]
  BY <1>3, <1>4
<1>8. \A n, m \in 1 .. N + L : more[n] = more[m] => n = m
  <2>1. \A n \in 1 .. N + L : IF n <= N THEN n \in 1 .. N /\ more[n] = at[n] /\ at[n] \in G
                              ELSE more[n] = <<i, n - N>>
    BY <1>3
  <2>2. \A n \in 1 .. N + L : n > N => more[n] = <<i, n - N>>
    BY <1>3
  <2>. HIDE DEF more
  <2>. QED  BY <1>3, <1>5, <2>1, <2>2
<1>9. \A a \in H : \E n \in 1 .. N + L : more[n] = a
  <2>1. ASSUME NEW a \in G PROVE \E n \in 1 .. N + L : more[n] = a
    <3>1. PICK n \in 1 .. N : at[n] = a
      BY <1>3
    <3>2. n \in 1 .. N + L /\ more[n] = a
      BY <1>3, <3>1
    <3>. QED  BY <3>2
  <2>2. ASSUME NEW k \in 1 .. L PROVE \E n \in 1 .. N + L : more[n] = <<i, k>>
    <3>1. N + k \in 1 .. N + L /\ more[N + k] = <<i, k>>
      BY <1>3
    <3>. QED  BY <3>1
  <2>. HIDE DEF more
  <2>. QED  BY <1>4, <2>1, <2>2
<1>10. TsSymbolsAt(F \cup {i}, all, more)
  <2>1. N + L \in Nat
    BY <1>3
  <2>. HIDE DEF more
  <2>. QED  BY <1>6, <1>7, <1>8, <1>9, <2>1 DEF TsSymbolsAt, H
<1>. QED  BY <1>2, <1>10 DEF TsSymbols

LEMMA AppendElements ==
    ASSUME NEW T, NEW s \in Seq(T), NEW x \in T
    PROVE  /\ Append(s, x) \in Seq(T)
           /\ Elements(s) \subseteq Elements(Append(s, x)) /\ x \in Elements(Append(s, x))
<1>. DEFINE t == Append(s, x)
<1>1. /\ t \in Seq(T) /\ Len(t) = Len(s) + 1 /\ t[Len(s) + 1] = x
      /\ \A n \in 1 .. Len(s) : t[n] = s[n]
  BY AppendInSeq
<1>. HIDE DEF t
<1>2. Len(s) \in Nat
  OBVIOUS
<1>3. Elements(s) \subseteq Elements(t) /\ x \in Elements(t)
  <2>1. x \in Elements(t)
    BY <1>1, <1>2 DEF Elements
  <2>2. ASSUME NEW y \in Elements(s) PROVE y \in Elements(t)
    <3>1. PICK n \in 1 .. Len(s) : s[n] = y
      BY InElements
    <3>2. n \in 1 .. Len(t) /\ t[n] = y
      BY <1>1, <1>2, <3>1
    <3>. QED  BY <1>1, <3>2, InElements
  <2>. QED  BY <2>1, <2>2
<1>. QED  BY <1>1, <1>3 DEF t

LEMMA GoRegistered ==
    ASSUME NEW F, NEW i \in Nat, Len(files[i].functions) \in Nat, GoSymbols(F, symbols)
    PROVE  GoSymbols(F \cup {i}, Go!Registered(i))
<1>. DEFINE n == Len(files[i].functions)
            H == FunctionsOf(F \cup {i})
            T == {GoSymbol(a) : a \in H}
            name(k) == Go!Name(i, k)
            sym(k) == Go!SymbolOf(i, k)
            Next1(t, k) == IF \E s \in Go!ToSet(t) : s.qname = name(k) THEN t ELSE Append(t, sym(k))
            Step(f, k) == IF k = 0 THEN symbols ELSE Next1(f[k - 1], k)
            known == CHOOSE f : f = [k \in 0 .. n |-> Step(f, k)]
<1>1. Go!Registered(i) = known[n]
  <2>1. \A f : \A k : Step(f, k) = IF k = 0 THEN symbols
                  ELSE IF \E s \in Go!ToSet(f[k - 1]) : s.qname = Go!Name(i, k) THEN f[k - 1]
                  ELSE Append(f[k - 1], Go!SymbolOf(i, k))
    OBVIOUS
  <2>. QED  BY DEF Go!Registered
<1>2. /\ n \in Nat
      /\ H = FunctionsOf(F) \cup {<<i, k>> : k \in 1 .. n}
  <2>1. n \in Nat
    OBVIOUS
  <2>. HIDE DEF H, n
  <2>. QED  BY <2>1, FunctionsGrow DEF n, H
<1>3. \A k \in 1 .. n : sym(k) \in T /\ sym(k).qname = name(k)
  <2>1. \A k \in 1 .. n : <<i, k>> \in H
    BY <1>2
  <2>2. ASSUME NEW k \in 1 .. n PROVE sym(k) = GoSymbol(<<i, k>>) /\ sym(k).qname = name(k)
    BY DEF GoSymbol, Go!SymbolOf
  <2>. HIDE DEF H, n, sym, name
  <2>. QED  BY <2>1, <2>2
<1>4. symbols \in Seq(T)
  <2>. DEFINE R == {GoSymbol(a) : a \in FunctionsOf(F)}
  <2>1. symbols \in Seq(R)
    BY DEF GoSymbols
  <2>2. R \subseteq T
    BY <1>2
  <2>. HIDE DEF R, T
  <2>. QED  BY <2>1, <2>2
<1>. DEFINE S == Seq(T)
<1>. HIDE DEF T, sym, name, n
<1>5. \A t \in S : \A k \in 1 .. n : Next1(t, k) \in S
  <2>1. \A t \in S : \A k \in 1 .. n : Append(t, sym(k)) \in S
    BY <1>3, AppendElements
  <2>. HIDE DEF S
  <2>. QED  BY <2>1
<1>6. \E f : f = [k \in 0 .. n |-> Step(f, k)]
  <2>. DEFINE step == [p \in (1 .. n) \X S |-> Next1(p[2], p[1])]
              a == symbols
  <2>1. n \in Nat /\ a \in S /\ step \in [(1 .. n) \X S -> S]
    <3>. HIDE DEF S, Next1
    <3>1. \A p \in (1 .. n) \X S : Next1(p[2], p[1]) \in S
      BY <1>5
    <3>. QED  BY <1>2, <1>4, <3>1 DEF S
  <2>2. \A k \in 1 .. n : \A t \in S : step[<<k, t>>] = Next1(t, k)
    OBVIOUS
  <2>. HIDE DEF step, S, a, Next1
  <2>3. \E f \in [0 .. n -> S] : Recursion(f, a, step, n)
    BY <2>1, RecursionExists, Zenon
  <2>4. PICK f \in [0 .. n -> S] : f[0] = a /\ \A k \in 1 .. n : f[k] = step[<<k, f[k - 1]>>]
    BY <2>3 DEF Recursion
  <2>5. ASSUME NEW k \in 0 .. n PROVE f[k] = Step(f, k)
    <3>1. CASE k = 0
      BY <2>4, <3>1 DEF a
    <3>2. CASE k # 0
      <4>1. k \in 1 .. n /\ k - 1 \in 0 .. n
        BY <1>2, <3>2
      <4>. QED  BY <3>2, <4>1, <2>2, <2>4
    <3>. QED  BY <3>1, <3>2
  <2>. HIDE DEF Step
  <2>6. f = [k \in 0 .. n |-> Step(f, k)]
    BY <2>5
  <2>. QED  BY <2>6
<1>7. known = [k \in 0 .. n |-> Step(known, k)]
  <2>. HIDE DEF Step
  <2>. QED  BY <1>6
<1>. HIDE DEF known
<1>8. known[0] = symbols /\ \A k \in 0 .. n - 1 : known[k + 1] = Next1(known[k], k + 1)
  <2>1. \A k \in 0 .. n : known[k] = Step(known, k)
    <3>. HIDE DEF Step
    <3>. QED  BY <1>7
  <2>2. \A k \in 0 .. n - 1 : k + 1 \in 0 .. n /\ k + 1 # 0 /\ (k + 1) - 1 = k
    BY <1>2
  <2>. HIDE DEF Next1
  <2>. QED  BY <1>2, <2>1, <2>2
<1>. DEFINE Has(t, k) == \A h \in 1 .. k : \E x \in Elements(t) : x.qname = name(h)
            Good == {k \in 0 .. n : /\ known[k] \in S
                                    /\ Elements(symbols) \subseteq Elements(known[k])
                                    /\ Has(known[k], k)}
<1>9. 0 \in Good
  BY <1>2, <1>4, <1>8
<1>10. ASSUME NEW k \in 0 .. n - 1, k \in Good PROVE k + 1 \in Good
  <2>. DEFINE t == known[k]
              u == known[k + 1]
              x == sym(k + 1)
  <2>1. /\ t \in S /\ Elements(symbols) \subseteq Elements(t) /\ Has(t, k)
        /\ k + 1 \in 1 .. n /\ k + 1 \in 0 .. n /\ k \in 0 .. n
    BY <1>2, <1>10
  <2>2. u = Next1(t, k + 1) /\ x \in T /\ x.qname = name(k + 1)
    BY <1>3, <1>8, <2>1
  <2>. HIDE DEF t, u, x
  <2>3. u \in S /\ Elements(t) \subseteq Elements(u) /\ \E y \in Elements(u) : y.qname = name(k + 1)
    <3>1. CASE \E s \in Go!ToSet(t) : s.qname = name(k + 1)
      <4>1. u = t
        BY <2>2, <3>1
      <4>2. Go!ToSet(t) = Elements(t)
        BY SequenceOperators
      <4>. QED  BY <2>1, <3>1, <4>1, <4>2
    <3>2. CASE ~\E s \in Go!ToSet(t) : s.qname = name(k + 1)
      <4>1. u = Append(t, x)
        BY <2>2, <3>2 DEF x
      <4>2. u \in Seq(T) /\ Elements(t) \subseteq Elements(u) /\ x \in Elements(u)
        BY <2>1, <2>2, <4>1, AppendElements
      <4>. QED  BY <2>2, <4>2
    <3>. QED  BY <3>1, <3>2
  <2>4. Has(u, k + 1)
    <3>1. ASSUME NEW h \in 1 .. k + 1 PROVE \E y \in Elements(u) : y.qname = name(h)
      <4>1. CASE h = k + 1
        BY <2>3, <4>1
      <4>2. CASE h # k + 1
        <5>1. h \in 1 .. k
          BY <2>1, <4>2
        <5>. QED  BY <2>1, <2>3, <5>1
      <4>. QED  BY <4>1, <4>2
    <3>. QED  BY <3>1
  <2>. HIDE DEF Has, S
  <2>. QED  BY <2>1, <2>3, <2>4 DEF u
<1>11. n \in Good
  <2>1. \A k \in 0 .. n - 1 : k \in Good => k + 1 \in Good
    BY <1>10
  <2>. HIDE DEF Good
  <2>2. 0 .. n \subseteq Good
    BY <1>2, <1>9, <2>1, IntervalInduction
  <2>. QED  BY <1>2, <2>2
<1>. DEFINE last == known[n]
<1>12. last \in Seq(T) /\ Elements(symbols) \subseteq Elements(last) /\ Has(last, n)
  BY <1>11
<1>. HIDE DEF last
<1>13. \A a \in H : \E x \in Elements(last) : x.qname = GoSymbol(a).qname
  <2>1. ASSUME NEW a \in FunctionsOf(F) PROVE \E x \in Elements(last) : x.qname = GoSymbol(a).qname
    BY <1>12 DEF GoSymbols
  <2>2. ASSUME NEW k \in 1 .. n PROVE \E x \in Elements(last) : x.qname = GoSymbol(<<i, k>>).qname
    <3>1. GoSymbol(<<i, k>>).qname = name(k)
      BY DEF GoSymbol, Go!SymbolOf, name
    <3>. QED  BY <1>12, <3>1
  <2>. HIDE DEF H
  <2>. QED  BY <1>2, <2>1, <2>2
<1>. QED  BY <1>1, <1>12, <1>13 DEF GoSymbols, T, last

-----------------------------------------------------------------------------
(* The index is built step by step.                                        *)
IndexInv == FilesInv /\ SymbolsInv

IndexKept == UNCHANGED <<program, beside, language, read, symbols>>
Waiting == stage \in {"wait", "index"}

LEMMA IndexShapes ==
    [ScanNext]_scanVars =>
      \/ IndexKept /\ stage' = stage
      \/ IndexKept /\ ~Waiting /\ ~Waiting'
      \/ IndexKept /\ read = Len(files) /\ stage' # "wait"
      \/ AddLanguageFile
      \/ StartLayer
      \/ /\ UNCHANGED <<program, beside>> /\ read' = 0 /\ symbols' = <<>>
         /\ language' \in {"ts", "go"} /\ stage' \in {"wait", "index"}
<1>. SUFFICES ASSUME [ScanNext]_scanVars
              PROVE  \/ IndexKept /\ stage' = stage
                     \/ IndexKept /\ ~Waiting /\ ~Waiting'
                     \/ IndexKept /\ read = Len(files) /\ stage' # "wait"
                     \/ AddLanguageFile
                     \/ StartLayer
                     \/ /\ UNCHANGED <<program, beside>> /\ read' = 0 /\ symbols' = <<>>
                        /\ language' \in {"ts", "go"} /\ stage' \in {"wait", "index"}
  OBVIOUS
<1>. USE DEF IndexKept, vars, workVars, resultVars, indexVars, languageVars, registryVars, searchVars, reportVars
<1>1. CASE UNCHANGED scanVars
  BY <1>1 DEF scanVars
<1>2. CASE PythonLayer /\ UNCHANGED <<beside, languageVars>>
  <2>1. program' = program
    BY <1>2 DEF PythonLayer, IndexFile, FinishIndex, Fail, BuildGraph, DiscoverEntrypoints, Reach,
                Seed, AnalyseFunction, FinishAnalysis, AddGuardEvidence, Merge,
                AddFile, SkipFile, Finalize
  <2>. QED  BY <1>2, <2>1
<1>3. CASE LanguageLayer
  <2>1. \/ stage' = "merge" /\ UNCHANGED <<language, read, symbols>>
        \/ language' = "go" /\ stage' = "index" /\ read' = 0 /\ symbols' = <<>>
        \/ ~Onward
    BY DEF Onward, ForgetSearch
  <2>2. CASE NoSymbols \/ NoHandlers \/ FinishReport
    BY <2>1, <2>2 DEF NoSymbols, NoHandlers, FinishReport, Waiting
  <2>3. CASE FinalizeLanguage
    BY <2>3 DEF FinalizeLanguage
  <2>4. CASE FailLayer \/ DiscoverHandlers \/ StartReport \/ MergeFindings
    BY <2>4 DEF FailLayer, DiscoverHandlers, StartReport, MergeFindings, Waiting
  <2>5. CASE NextEntry \/ VisitPath \/ ReportSink
    BY <2>5 DEF NextEntry, VisitPath, ReportSink
  <2>. QED  BY <1>3, <2>2, <2>3, <2>4, <2>5 DEF LanguageLayer
<1>4. CASE ScanAgain
  BY <1>4 DEF ScanAgain, Rescan, ForgetSearch
<1>. QED  BY <1>1, <1>2, <1>3, <1>4 DEF ScanNext

(* The same files have the same symbols.                                   *)
LEMMA SameSymbols ==
    ASSUME files' = files
    PROVE  /\ TsSymbols(Indexed', symbols') => TsSymbols(Indexed, symbols)'
           /\ GoSymbols(Indexed', symbols') => GoSymbols(Indexed, symbols)'
<1>1. \A a : TsSymbol(a)' = TsSymbol(a) /\ GoSymbol(a)' = GoSymbol(a)
  BY DEF TsSymbol, Ts!Name, GoSymbol, Go!SymbolOf, Go!Name
<1>2. \A F : FunctionsOf(F)' = FunctionsOf(F)
  BY DEF FunctionsOf
<1>3. \A F, s, at : TsSymbolsAt(F, s, at) => TsSymbolsAt(F, s, at)'
  BY <1>1, <1>2 DEF TsSymbolsAt
<1>4. \A F, s : GoSymbols(F, s) => GoSymbols(F, s)'
  <2>1. \A F : {GoSymbol(a) : a \in FunctionsOf(F)}' = {GoSymbol(a) : a \in FunctionsOf(F)}
    BY <1>1, <1>2
  <2>. QED  BY <1>1, <1>2, <2>1 DEF GoSymbols
<1>5. \A F, s : TsSymbols(F, s) => TsSymbols(F, s)'
  BY <1>3 DEF TsSymbols
<1>. QED  BY <1>4, <1>5

LEMMA EmptyIndex ==
    read = 0 /\ symbols = <<>> => Indexed = {} /\ TsSymbols(Indexed, symbols) /\ GoSymbols(Indexed, symbols)
<1>1. read = 0 => Indexed = {}
  BY DEF Indexed
<1>. QED  BY <1>1, NoFunctions

LEMMA IndexStep == IndexInv /\ [ScanNext]_scanVars => IndexInv'
<1>. SUFFICES ASSUME IndexInv, [ScanNext]_scanVars PROVE IndexInv'
  OBVIOUS
<1>. USE DEF IndexInv
<1>1. CASE IndexKept /\ (stage' = stage \/ (~Waiting /\ ~Waiting') \/ (read = Len(files) /\ stage' # "wait"))
  <2>1. files' = files /\ Indexed' = Indexed /\ read' = read /\ symbols' = symbols /\ language' = language
    BY <1>1 DEF IndexKept, files, Indexed
  <2>2. FilesInv'
    BY <1>1, <2>1 DEF IndexKept, FilesInv
  <2>3. TsSymbols(Indexed, symbols) => TsSymbols(Indexed, symbols)'
    BY <2>1, SameSymbols
  <2>4. GoSymbols(Indexed, symbols) => GoSymbols(Indexed, symbols)'
    BY <2>1, SameSymbols
  <2>. QED  BY <1>1, <2>1, <2>2, <2>3, <2>4 DEF SymbolsInv, Waiting
<1>2. CASE AddLanguageFile
  <2>. DEFINE i == read + 1
  <2>1. /\ stage = "index" /\ stage' = stage /\ read < Len(files)
        /\ UNCHANGED <<program, beside, language>> /\ read' = i /\ files' = files
    BY <1>2 DEF AddLanguageFile, vars, indexVars, files
  <2>2. FilesInv' /\ i \in Nat /\ i \in 1 .. Len(files) /\ Len(files[i].functions) \in Nat /\ i \notin Indexed
    BY <2>1, FileFacts, FileShape DEF FilesInv, Indexed
  <2>3. Indexed' = IF files[i].reads THEN Indexed \cup {i} ELSE Indexed
    <3>1. read \in Nat /\ 1 .. i = (1 .. read) \cup {i}
      BY FileFacts DEF FilesInv
    <3>. HIDE DEF i
    <3>. QED  BY <2>1, <3>1 DEF Indexed
  <2>4. symbols' = IF files[i].reads THEN IF language = "ts" THEN Ts!Registered(i) ELSE Go!Registered(i)
                   ELSE symbols
    BY <1>2, <2>1 DEF AddLanguageFile
  <2>. HIDE DEF i
  <2>5. language = "ts" => TsSymbols(Indexed', symbols')
    BY <2>2, <2>3, <2>4, TsRegistered DEF SymbolsInv
  <2>6. language = "go" => GoSymbols(Indexed', symbols')
    BY <2>2, <2>3, <2>4, GoRegistered DEF SymbolsInv, FilesInv
  <2>7. TsSymbols(Indexed', symbols') => TsSymbols(Indexed, symbols)'
    BY <2>1, SameSymbols
  <2>8. GoSymbols(Indexed', symbols') => GoSymbols(Indexed, symbols)'
    BY <2>1, SameSymbols
  <2>. QED  BY <2>1, <2>2, <2>5, <2>6, <2>7, <2>8 DEF SymbolsInv
<1>3. CASE \/ StartLayer
           \/ /\ UNCHANGED <<program, beside>> /\ read' = 0 /\ symbols' = <<>>
              /\ language' \in {"ts", "go"} /\ stage' \in {"wait", "index"}
  <2>1. /\ UNCHANGED <<program, beside>> /\ read' = 0 /\ symbols' = <<>>
        /\ language' \in {"ts", "go"}
        /\ stage' \in {"wait", "index"} \/ Len(files') = 0
    <3>1. CASE StartLayer
      <4>1. /\ UNCHANGED <<program, beside>> /\ read' = 0 /\ symbols' = <<>>
            /\ stage' = IF beside.ts \o beside.go = <<>> THEN "done" ELSE "index"
            /\ language' = IF beside.ts = <<>> THEN "go" ELSE "ts"
        BY <3>1 DEF StartLayer, vars, indexVars, registryVars, SymbolsInv
      <4>2. beside.ts = <<>> \/ beside.ts # <<>>
        OBVIOUS
      <4>3. beside.ts = <<>> /\ beside.ts \o beside.go = <<>> => Len(beside.go) = 0
        OBVIOUS
      <4>. QED  BY <4>1, <4>2, <4>3 DEF files
    <3>. QED  BY <1>3, <3>1
  <2>2. Len(files') \in Nat
    BY <2>1, BesideAssumption DEF files, FilesInv
  <2>3. FilesInv'
    BY <2>1, <2>2 DEF FilesInv
  <2>4. (read = 0 /\ symbols = <<>> => Indexed = {} /\ TsSymbols(Indexed, symbols) /\ GoSymbols(Indexed, symbols))'
    BY EmptyIndex, PTL
  <2>. QED  BY <2>1, <2>3, <2>4 DEF SymbolsInv
<1>. QED  BY <1>1, <1>2, <1>3, IndexShapes

-----------------------------------------------------------------------------
(* When all is read and names tell enough.                                 *)
LEMMA AllRead ==
    ASSUME FilesInv, Plain, read = Len(files)
    PROVE  /\ Indexed = 1 .. Len(files)
           /\ Ts!Functions = FunctionsOf(Indexed) /\ Go!Functions = FunctionsOf(Indexed)
           /\ Ts!Indexed = Indexed /\ Go!Indexed = Indexed
<1>1. \A i \in 1 .. Len(files) : files[i].reads
  BY DEF Plain
<1>2. Indexed = 1 .. Len(files)
  BY <1>1 DEF Indexed
<1>3. \A i \in 1 .. Len(files) : i \in Nat /\ Len(files[i].functions) \in Nat
  BY FileFacts, FileShape
<1>4. Ts!Functions = FunctionsOf(1 .. Len(files))
  BY <1>3 DEF Ts!Functions, FunctionsOf
<1>5. Go!Functions = FunctionsOf(1 .. Len(files))
  BY <1>3 DEF Go!Functions, FunctionsOf
<1>6. Ts!Indexed = Indexed /\ Go!Indexed = Indexed
  BY DEF Ts!Indexed, Go!Indexed, Indexed
<1>. QED  BY <1>2, <1>4, <1>5, <1>6

LEMMA SitesFacts ==
    ASSUME FilesInv
    PROVE  /\ \A c \in SitesOfAll : c \in Site /\ c[1] \in 1 .. Len(files)
           /\ \A i \in 1 .. Len(files) : \A k \in 0 .. Len(files[i].functions) : Elements(Body(i, k)) \subseteq SitesOfAll
<1>1. SitesOfAll = UNION {UNION {Elements(Body(i, k)) : k \in 0 .. Len(files[i].functions)} : i \in 1 .. Len(files)}
  BY ToSetElements DEF SitesOfAll
<1>2. ASSUME NEW i \in 1 .. Len(files), NEW k \in 0 .. Len(files[i].functions), NEW c \in Elements(Body(i, k))
      PROVE  c \in Site /\ c[1] = i
  <2>1. Body(i, k) \in Seq(Site) /\ c[1] = i
    BY BodyFacts
  <2>. DEFINE s == Body(i, k)
  <2>. HIDE DEF s
  <2>2. c \in Elements(s) /\ s \in Seq(Site)
    BY <2>1 DEF s
  <2>3. c \in Site
    BY <2>2, InElements
  <2>. QED  BY <2>1, <2>3
<1>. QED  BY <1>1, <1>2

LEMMA GoNameEnds ==
    ASSUME FilesInv, language = "go", NEW a, a[1] \in 1 .. Len(files), a[2] \in 1 .. Len(files[a[1]].functions)
    PROVE  /\ \E p \in Seq(STRING) : Go!Name(a[1], a[2]) = Append(p, Go!FunctionAt(a).name)
           /\ Go!FunctionAt(a).name \in STRING /\ Go!FunctionAt(a).recv \in STRING
           /\ Go!FunctionAt(a).recv = "" => Go!Name(a[1], a[2]) = files[a[1]].dir \o <<Go!FunctionAt(a).name>>
<1>. DEFINE f == files[a[1]].functions[a[2]]
            d == files[a[1]].dir
            r == IF f.recv = "" THEN <<>> ELSE <<f.recv>>
            x == f.name
            y == f.recv
<1>1. d \in Seq(STRING) /\ files[a[1]].functions \in Seq(Go!Function)
  BY FileFacts, GoFile
<1>2. f \in Go!Function
  BY <1>1
<1>3. x \in STRING /\ y \in STRING
  <2>. HIDE DEF f
  <2>. QED  BY <1>2 DEF Go!Function
<1>4. Go!FunctionAt(a) = f /\ Go!Name(a[1], a[2]) = d \o r \o <<x>>
  <2>1. a[2] # 0
    OBVIOUS
  <2>2. \A i, k : k # 0 =>
          Go!Name(i, k) = files[i].dir \o (IF files[i].functions[k].recv = "" THEN <<>> ELSE <<files[i].functions[k].recv>>)
                            \o <<files[i].functions[k].name>>
    BY DEF Go!Name
  <2>3. Go!FunctionAt(a) = f
    BY DEF Go!FunctionAt
  <2>. QED  BY <2>1, <2>2, <2>3
<1>5. r \in Seq(STRING)
  <2>1. <<>> \in Seq(STRING) /\ <<y>> \in Seq(STRING)
    <3>. HIDE DEF y
    <3>. QED  BY <1>3, ShortSequences
  <2>2. r = <<>> \/ r = <<y>>
    OBVIOUS
  <2>. HIDE DEF r, y
  <2>. QED  BY <2>1, <2>2
<1>6. y = "" => r = <<>>
  OBVIOUS
<1>. DEFINE p == d \o r
<1>. HIDE DEF d, r, x, y, f
<1>7. p \in Seq(STRING) /\ d \o <<>> = d
  BY <1>1, <1>5
<1>8. p \o <<x>> = Append(p, x)
  <2>. HIDE DEF p
  <2>. QED  BY <1>3, <1>7
<1>. QED  BY <1>3, <1>4, <1>6, <1>7, <1>8 DEF x, y, d

LEMMA GoSymbolFacts ==
    ASSUME IndexInv, Plain, language = "go", read = Len(files)
    PROVE  /\ \A s \in Elements(symbols) : \E a \in Go!Functions : s = GoSymbol(a)
           /\ \A a \in Go!Functions : \E s \in Elements(symbols) :
                /\ s.qname = Go!Name(a[1], a[2]) /\ s.name = Go!FunctionAt(a).name
                /\ (s.recv = "") = (Go!FunctionAt(a).recv = "")
           /\ IsFiniteSet(Elements(symbols))
<1>. DEFINE F == Go!Functions
            T == {GoSymbol(a) : a \in F}
<1>1. F = FunctionsOf(Indexed) /\ \A a \in F : a[1] \in 1 .. Len(files) /\ a[2] \in 1 .. Len(files[a[1]].functions)
  BY AllRead DEF IndexInv, FunctionsOf
<1>2. symbols \in Seq(T) /\ \A a \in F : \E s \in Elements(symbols) : s.qname = GoSymbol(a).qname
  BY <1>1 DEF IndexInv, SymbolsInv, GoSymbols
<1>3. Go!Plain(SitesOfAll)
  BY DEF Plain
<1>4. \A a, b \in F : Go!FunctionAt(a).name = Go!FunctionAt(b).name
                        => (Go!FunctionAt(a).recv = "") = (Go!FunctionAt(b).recv = "")
  BY <1>3 DEF Go!Plain
<1>5. \A a : /\ GoSymbol(a).qname = Go!Name(a[1], a[2]) /\ GoSymbol(a).name = Go!FunctionAt(a).name
             /\ GoSymbol(a).recv = Go!FunctionAt(a).recv
  BY DEF GoSymbol, Go!SymbolOf, Go!FunctionAt
<1>. HIDE DEF F
<1>6. \A s \in Elements(symbols) : \E a \in F : s = GoSymbol(a)
  <2>1. \A s \in Elements(symbols) : s \in T
    <3>. HIDE DEF T
    <3>. QED  BY <1>2, InElements
  <2>. QED  BY <2>1
<1>7. IsFiniteSet(Elements(symbols))
  <2>. HIDE DEF T
  <2>. QED  BY <1>2, InRange, ToSetElements
<1>8. ASSUME NEW a \in F
      PROVE  \E s \in Elements(symbols) :
                /\ s.qname = Go!Name(a[1], a[2]) /\ s.name = Go!FunctionAt(a).name
                /\ (s.recv = "") = (Go!FunctionAt(a).recv = "")
  <2>1. PICK s \in Elements(symbols) : s.qname = GoSymbol(a).qname
    BY <1>2
  <2>2. PICK b \in F : s = GoSymbol(b)
    BY <1>6
  <2>3. Go!Name(a[1], a[2]) = Go!Name(b[1], b[2])
    BY <1>5, <2>1, <2>2
  <2>4. PICK p \in Seq(STRING) : Go!Name(a[1], a[2]) = Append(p, Go!FunctionAt(a).name)
    BY <1>1, GoNameEnds DEF IndexInv
  <2>5. PICK q \in Seq(STRING) : Go!Name(b[1], b[2]) = Append(q, Go!FunctionAt(b).name)
    BY <1>1, GoNameEnds DEF IndexInv
  <2>6. Go!FunctionAt(a).name = Go!FunctionAt(b).name
    <3>. DEFINE x == Go!FunctionAt(a).name
                y == Go!FunctionAt(b).name
    <3>1. x \in STRING /\ y \in STRING /\ Append(p, x) = Append(q, y)
      BY <1>1, <2>3, <2>4, <2>5, GoNameEnds DEF IndexInv
    <3>. HIDE DEF x, y
    <3>2. x = y
      BY <3>1, AppendInSeq
    <3>. QED  BY <3>2 DEF x, y
  <2>. QED  BY <1>4, <1>5, <2>2, <2>3, <2>6, ZenonT(30)
<1>. QED  BY <1>6, <1>7, <1>8 DEF F

(* What a call resolves to, it runs; what it does not, is disclosed.       *)
LEMMA GoModuleInfo ==
    ASSUME FilesInv, Plain, read = Len(files), NEW i \in 1 .. Len(files)
    PROVE  files[Go!ModuleInfo(i)].dir = files[i].dir
<1>. DEFINE same == {j \in Go!Indexed : files[j].dir = files[i].dir}
<1>1. i \in same /\ same \in SUBSET Nat
  BY AllRead, FileFacts
<1>2. \E j \in same : \A k \in same : j <= k
  <2>. HIDE DEF same
  <2>. QED  BY <1>1, LeastNat
<1>. DEFINE least == CHOOSE j \in same : \A k \in same : j <= k
<1>3. least \in same
  <2>. HIDE DEF same
  <2>. QED  BY <1>2
<1>4. Go!ModuleInfo(i) = IF files[i].dir = <<>> THEN i ELSE least
  BY DEF Go!ModuleInfo
<1>. HIDE DEF least
<1>. QED  BY <1>3, <1>4

LEMMA GoResolveMeans ==
    ASSUME IndexInv, Plain, language = "go", read = Len(files), NEW c \in SitesOfAll,
           Go!Resolve(c[1], c[2]).certainty # "unresolved"
    PROVE  /\ c[2].to # {} /\ c[2].to \subseteq Go!Functions
           /\ \A a \in c[2].to : Go!Name(a[1], a[2]) = Go!Resolve(c[1], c[2]).qname
<1>. DEFINE F == Go!Functions
            name == c[2].name
            all == Go!Named(Go!ToSet(symbols), name)
            mod == Go!ModuleInfo(c[1])
            local == {s \in all : s.file = mod}
            functions == {s \in all : s.recv = ""}
            methods == all \ functions
            r == Go!Resolve(c[1], c[2])
            form == c[2].form
            to == c[2].to
<1>1. c[1] \in 1 .. Len(files)
  BY SitesFacts DEF IndexInv
<1>2. /\ to = {} => \A a \in F : Go!FunctionAt(a).name # name
      /\ to \subseteq F
      /\ form # "computed" => \A a \in to : Go!FunctionAt(a).name = name
      /\ form = "bare" => \A a \in to : Go!FunctionAt(a).recv = "" /\ files[a[1]].dir = files[c[1]].dir
  <2>1. Go!Plain(SitesOfAll)
    BY DEF Plain
  <2>2. Go!RunsWhatItNames(c)
    BY <2>1 DEF Go!Plain
  <2>. QED  BY <2>2 DEF Go!RunsWhatItNames
<1>3. \A a, b \in F : Go!FunctionAt(a).name = Go!FunctionAt(b).name
                        => (Go!FunctionAt(a).recv = "") = (Go!FunctionAt(b).recv = "")
  <2>1. Go!Plain(SitesOfAll)
    BY DEF Plain
  <2>. QED  BY <2>1 DEF Go!Plain
<1>4. all = {s \in Elements(symbols) : s.name = name}
  BY SequenceOperators DEF Go!Named
<1>5. \A a : /\ GoSymbol(a).qname = Go!Name(a[1], a[2]) /\ GoSymbol(a).name = Go!FunctionAt(a).name
             /\ GoSymbol(a).recv = Go!FunctionAt(a).recv /\ GoSymbol(a).file = a[1]
  BY DEF GoSymbol, Go!SymbolOf, Go!FunctionAt
<1>6. /\ \A s \in Elements(symbols) : \E a \in F : s = GoSymbol(a)
      /\ \A a \in F : \E s \in Elements(symbols) :
                /\ s.qname = Go!Name(a[1], a[2]) /\ s.name = Go!FunctionAt(a).name
                /\ (s.recv = "") = (Go!FunctionAt(a).recv = "")
      /\ IsFiniteSet(Elements(symbols))
  BY GoSymbolFacts
<1>7. ASSUME NEW S, S \subseteq Elements(symbols), Go!Cardinality(S) = 1, NEW how
      PROVE  \E x \in S : S = {x} /\ Go!Resolved(S, how).qname = x.qname
  <2>1. IsFiniteSet(S)
    BY <1>6, <1>7, FS_Subset
  <2>2. PICK x : S = {x}
    BY <1>7, <2>1, FS_Singleton, SameCardinality
  <2>3. (CHOOSE s \in S : TRUE) = x
    BY <2>2
  <2>. QED  BY <2>2, <2>3 DEF Go!Resolved
<1>8. r = CASE form = "bare" /\ Go!Cardinality(local) = 1 -> Go!Resolved(local, "resolved")
            [] form = "bare" /\ local = {} /\ Go!Cardinality(functions) = 1 -> Go!Resolved(functions, "heuristic")
            [] form = "dotted" /\ Go!Cardinality(methods) = 1 -> Go!Resolved(methods, "heuristic")
            [] form = "dotted" /\ ~(Go!Cardinality(methods) = 1) /\ Go!Cardinality(functions) = 1 -> Go!Resolved(functions, "heuristic")
            [] OTHER -> Go!Unresolved
  BY DEF Go!Resolve
<1>. HIDE DEF F, name, mod, r, form, to
<1>9. local \subseteq all /\ functions \subseteq all /\ methods \subseteq all /\ all \subseteq Elements(symbols)
  BY <1>4
<1>10. ASSUME NEW S \in {functions, methods}, form # "computed", Go!Cardinality(S) = 1, NEW how, r = Go!Resolved(S, how)
       PROVE  to # {} /\ \A a \in to : Go!Name(a[1], a[2]) = r.qname
  <2>1. PICK x \in S : S = {x} /\ r.qname = x.qname
    <3>1. S \subseteq Elements(symbols)
      BY <1>9
    <3>2. Go!Cardinality(S) = 1
      BY <1>10
    <3>. HIDE DEF all
    <3>3. \E x \in S : S = {x} /\ Go!Resolved(S, how).qname = x.qname
      <4>. HIDE DEF functions, methods
      <4>. QED  BY <1>7, <3>1, <3>2
    <3>. QED  BY <1>10, <3>3
  <2>2. x \in Elements(symbols) /\ x.name = name /\ \A s \in all : (s.recv = "") = (x.recv = "") => s \in S
    <3>1. x \in all
      BY <1>9
    <3>2. CASE S = functions
      BY <1>4, <3>1, <3>2
    <3>3. CASE S = methods
      BY <1>4, <3>1, <3>3
    <3>. QED  BY <3>2, <3>3
  <2>. HIDE DEF all, functions, methods
  <2>3. PICK b \in F : x = GoSymbol(b)
    BY <1>6, <2>2
  <2>4. Go!FunctionAt(b).name = name
    BY <1>5, <2>2, <2>3
  <2>5. to # {}
    BY <1>2, <2>4
  <2>6. ASSUME NEW a \in to PROVE Go!Name(a[1], a[2]) = r.qname
    <3>1. a \in F /\ Go!FunctionAt(a).name = name
      BY <1>2, <1>10
    <3>2. PICK t \in Elements(symbols) :
             /\ t.qname = Go!Name(a[1], a[2]) /\ t.name = Go!FunctionAt(a).name
             /\ (t.recv = "") = (Go!FunctionAt(a).recv = "")
      BY <1>6, <3>1
    <3>3. t \in all
      BY <1>4, <3>1, <3>2 DEF all
    <3>4. (t.recv = "") = (x.recv = "")
      BY <1>3, <1>5, <2>3, <2>4, <3>1, <3>2, ZenonT(30)
    <3>. QED  BY <2>1, <2>2, <3>2, <3>3, <3>4
  <2>. QED  BY <2>5, <2>6
<1>11. CASE form = "bare" /\ Go!Cardinality(local) = 1
  <2>1. r = Go!Resolved(local, "resolved")
    <3>1. local # {}
      <4>1. Go!Cardinality({}) # 1
        BY FS_EmptySet, SameCardinality
      <4>. HIDE DEF local
      <4>. QED  BY <1>11, <4>1
    <3>. HIDE DEF functions, methods, local, all
    <3>. QED  BY <1>8, <1>11, <3>1
  <2>2. PICK x \in local : r.qname = x.qname
    <3>1. local \subseteq Elements(symbols)
      BY <1>9
    <3>. HIDE DEF local, all
    <3>. QED  BY <1>7, <1>11, <2>1, <3>1
  <2>3. x \in Elements(symbols) /\ x.name = name /\ x.file = mod
    BY <1>4
  <2>4. PICK b \in F : x = GoSymbol(b)
    BY <1>6, <2>3
  <2>5. Go!FunctionAt(b).name = name /\ b[1] = mod /\ r.qname = Go!Name(b[1], b[2])
    BY <1>5, <2>2, <2>3, <2>4
  <2>6. files[mod].dir = files[c[1]].dir
    BY <1>1, GoModuleInfo DEF IndexInv, mod
  <2>7. to # {}
    BY <1>2, <2>5
  <2>8. ASSUME NEW a \in to PROVE Go!Name(a[1], a[2]) = r.qname
    <3>1. /\ a \in F /\ Go!FunctionAt(a).name = name /\ Go!FunctionAt(a).recv = ""
          /\ files[a[1]].dir = files[c[1]].dir
      BY <1>2, <1>11
    <3>2. Go!FunctionAt(b).recv = ""
      BY <1>3, <2>5, <3>1
    <3>3. \A e \in F : e[1] \in 1 .. Len(files) /\ e[2] \in 1 .. Len(files[e[1]].functions)
      BY AllRead DEF IndexInv, FunctionsOf, F
    <3>4. /\ Go!Name(a[1], a[2]) = files[a[1]].dir \o <<Go!FunctionAt(a).name>>
          /\ Go!Name(b[1], b[2]) = files[b[1]].dir \o <<Go!FunctionAt(b).name>>
      BY <3>1, <3>2, <3>3, GoNameEnds DEF IndexInv
    <3>. QED  BY <2>5, <2>6, <3>1, <3>4
  <2>. QED  BY <1>2, <2>7, <2>8 DEF F, to, r
<1>12. CASE ~(form = "bare" /\ Go!Cardinality(local) = 1)
  <2>1. r # Go!Unresolved
    BY DEF Go!Unresolved, r
  <2>2. \/ form # "computed" /\ Go!Cardinality(functions) = 1 /\ r = Go!Resolved(functions, "heuristic")
        \/ form # "computed" /\ Go!Cardinality(methods) = 1 /\ r = Go!Resolved(methods, "heuristic")
    <3>. HIDE DEF functions, methods, local, all
    <3>. QED  BY <1>8, <1>12, <2>1
  <2>3. to # {} /\ \A a \in to : Go!Name(a[1], a[2]) = r.qname
    BY <1>10, <2>2
  <2>. QED  BY <1>2, <2>3 DEF F, to, r
<1>. QED  BY <1>11, <1>12

-----------------------------------------------------------------------------
LEMMA GreatestNat ==
    ASSUME NEW N \in Nat, NEW S, S # {}, S \subseteq 1 .. N
    PROVE  \E m \in S : \A k \in S : k <= m
<1>. DEFINE I == {N - k : k \in S}
<1>1. I \in SUBSET Nat /\ I # {}
  <2>1. \A k \in S : N - k \in Nat
    OBVIOUS
  <2>. QED  BY <2>1
<1>2. PICK x \in I : \A y \in I : x <= y
  <2>. HIDE DEF I
  <2>. QED  BY <1>1, LeastNat
<1>3. PICK m \in S : N - m = x
  BY <1>2
<1>4. ASSUME NEW k \in S PROVE k <= m
  <2>1. N - k \in I
    OBVIOUS
  <2>2. x <= N - k
    <3>. HIDE DEF I
    <3>. QED  BY <1>2, <2>1
  <2>3. k \in 1 .. N /\ m \in 1 .. N
    OBVIOUS
  <2>. QED  BY <1>3, <2>2, <2>3
<1>. QED  BY <1>4

LEMMA TsEnds ==
    ASSUME NEW N \in Nat, NEW S, S # {}, S \subseteq 1 .. N
    PROVE  Ts!Earliest(S) \in S /\ Ts!Latest(S) \in S
<1>1. \E m \in S : \A k \in S : k <= m
  BY GreatestNat
<1>2. \E m \in S : \A k \in S : m <= k
  <2>1. S \in SUBSET Nat
    OBVIOUS
  <2>. QED  BY <2>1, LeastNat
<1>3. Ts!Latest(S) \in S
  BY <1>1 DEF Ts!Latest
<1>4. Ts!Earliest(S) \in S
  BY <1>2 DEF Ts!Earliest
<1>. QED  BY <1>3, <1>4

LEMMA TsSites ==
    ASSUME FilesInv, language = "ts", NEW c \in SitesOfAll
    PROVE  c[1] \in 1 .. Len(files) /\ c[2] \in Ts!Call
<1>1. c[1] \in 1 .. Len(files)
  BY SitesFacts
<1>9. PICK i \in 1 .. Len(files) : \E k \in 0 .. Len(files[i].functions) : c \in Elements(Body(i, k))
  BY ToSetElements DEF SitesOfAll
<1>2. PICK k \in 0 .. Len(files[i].functions) : c \in Elements(Body(i, k))
  BY <1>9
<1>3. i \in Nat /\ files[i].functions \in Seq(Ts!Function) /\ files[i].handlers \in Seq(Ts!Handler)
  BY FileFacts, TsFile
<1>4. ASSUME NEW calls \in Seq(Ts!Call), c \in Elements(In(i, calls)) PROVE c[2] \in Ts!Call
  <2>1. calls \in Seq(AnyCall)
    BY DEF AnyCall
  <2>2. PICK x \in Elements(calls) : c = <<i, x>>
    BY <1>3, <1>4, <2>1, InFacts
  <2>3. x \in Ts!Call
    BY <2>2, InElements
  <2>. QED  BY <2>2, <2>3
<1>5. \/ k # 0 /\ c \in Elements(In(i, files[i].functions[k].calls))
      \/ \E n \in 1 .. Len(files[i].handlers) : c \in Elements(In(i, files[i].handlers[n].calls))
  BY <1>2, BodyFacts
<1>6. CASE k # 0 /\ c \in Elements(In(i, files[i].functions[k].calls))
  <2>1. files[i].functions[k] \in Ts!Function
    BY <1>3, <1>6
  <2>2. files[i].functions[k].calls \in Seq(Ts!Call)
    BY <2>1 DEF Ts!Function
  <2>. QED  BY <1>1, <1>4, <1>6, <2>2
<1>7. CASE \E n \in 1 .. Len(files[i].handlers) : c \in Elements(In(i, files[i].handlers[n].calls))
  <2>1. PICK n \in 1 .. Len(files[i].handlers) : c \in Elements(In(i, files[i].handlers[n].calls))
    BY <1>7
  <2>2. files[i].handlers[n] \in Ts!Handler
    BY <1>3
  <2>3. files[i].handlers[n].calls \in Seq(Ts!Call)
    BY <2>2 DEF Ts!Handler
  <2>. QED  BY <1>1, <1>4, <2>1, <2>3
<1>. QED  BY <1>5, <1>6, <1>7

LEMMA TsNameEnds ==
    ASSUME FilesInv, language = "ts", NEW a, a[1] \in 1 .. Len(files), a[2] \in 1 .. Len(files[a[1]].functions)
    PROVE  /\ Ts!NameOf(a) \in STRING
           /\ \E p \in Seq(STRING) : Ts!Name(a[1], a[2]) = Append(p, Ts!NameOf(a))
           /\ Ts!Name(a[1], a[2]) \in Seq(STRING) \ {<<>>}
           /\ Ts!Name(a[1], a[2])[1] = files[a[1]].module[1]
<1>. DEFINE f == files[a[1]].functions[a[2]]
            d == files[a[1]].module
            r == IF f.cls = "" THEN <<f.name>> ELSE <<f.cls, f.name>>
            x == f.name
            y == f.cls
            full == Ts!Name(a[1], a[2])
<1>1. d \in Seq(STRING) \ {<<>>} /\ files[a[1]].functions \in Seq(Ts!Function)
  BY FileFacts, TsFile
<1>2. f \in Ts!Function
  BY <1>1
<1>3. x \in STRING /\ y \in STRING
  <2>. HIDE DEF f
  <2>. QED  BY <1>2 DEF Ts!Function
<1>4. Ts!NameOf(a) = x /\ full = d \o r
  <2>1. a[2] # 0
    OBVIOUS
  <2>2. \A i, k : k # 0 =>
          Ts!Name(i, k) = files[i].module \o (IF files[i].functions[k].cls = "" THEN <<files[i].functions[k].name>>
                                              ELSE <<files[i].functions[k].cls, files[i].functions[k].name>>)
    BY DEF Ts!Name
  <2>3. Ts!NameOf(a) = x
    BY DEF Ts!NameOf
  <2>. QED  BY <2>1, <2>2, <2>3
<1>5. r = <<x>> \/ r = <<y, x>>
  OBVIOUS
<1>. HIDE DEF d, r, x, y, f, full
<1>6. /\ <<x>> \in Seq(STRING) /\ <<y, x>> \in Seq(STRING) /\ Len(<<x>>) = 1 /\ <<x>>[1] = x
      /\ <<y>> \in Seq(STRING) /\ <<y>> \o <<x>> = <<y, x>>
  <2>1. <<y>> \o <<x>> = <<y, x>>
    BY <1>3, TwoSingles
  <2>. QED  BY <1>3, <2>1, ShortSequences
<1>7. full[1] = d[1] /\ full \in Seq(STRING) \ {<<>>}
  <2>1. r \in Seq(STRING)
    BY <1>5, <1>6
  <2>. QED  BY <1>1, <1>4, <2>1
<1>8. \E p \in Seq(STRING) : full = Append(p, x)
  <2>1. CASE r = <<x>>
    <3>1. d \in Seq(STRING) /\ full = d \o <<x>>
      BY <1>1, <1>4, <2>1
    <3>2. d \o <<x>> = Append(d, x)
      BY <1>3, <3>1, SingleAppended
    <3>. QED  BY <3>1, <3>2
  <2>2. CASE r = <<y, x>>
    <3>0. d \in Seq(STRING) /\ (d \o <<y>>) \o <<x>> = d \o (<<y>> \o <<x>>)
      <4>. DEFINE u == <<y>>
                  v == <<x>>
      <4>1. d \in Seq(STRING) /\ u \in Seq(STRING) /\ v \in Seq(STRING)
        BY <1>1, <1>6
      <4>. HIDE DEF u, v
      <4>2. (d \o u) \o v = d \o (u \o v)
        <5>. DEFINE S == STRING
        <5>1. d \in Seq(S) /\ u \in Seq(S) /\ v \in Seq(S)
          BY <4>1
        <5>. HIDE DEF S
        <5>. QED  BY <5>1, SMTT(30)
      <4>. QED  BY <4>1, <4>2 DEF u, v
    <3>1. d \o <<y>> \in Seq(STRING) /\ d \o <<y, x>> = (d \o <<y>>) \o <<x>>
      <4>1. d \o <<y>> \in Seq(STRING)
        BY <1>1, <1>3
      <4>. QED  BY <1>6, <3>0, <4>1
    <3>. DEFINE p == d \o <<y>>
    <3>. HIDE DEF p
    <3>2. p \in Seq(STRING) /\ full = p \o <<x>>
      BY <1>4, <2>2, <3>1 DEF p
    <3>3. p \o <<x>> = Append(p, x)
      BY <1>3, <3>2
    <3>. QED  BY <3>2, <3>3
  <2>. QED  BY <1>5, <2>1, <2>2
<1>. QED  BY <1>3, <1>4, <1>7, <1>8 DEF x, full, d

LEMMA TsModuleInfo ==
    ASSUME FilesInv, Plain, language = "ts", read = Len(files), NEW i \in 1 .. Len(files)
    PROVE  Ts!ModuleInfo(i) = i
<1>1. Ts!Plain(SitesOfAll)
  BY DEF Plain
<1>2. \A j \in 1 .. Len(files) : files[i].module = files[j].module => i = j
  BY <1>1 DEF Ts!Plain
<1>3. {j \in Ts!Indexed : files[j].module = files[i].module} = {i}
  BY <1>2, AllRead
<1>4. Ts!Earliest({i}) = i
  BY FileFacts DEF Ts!Earliest
<1>. QED  BY <1>3, <1>4 DEF Ts!ModuleInfo

(* The symbols are the functions.                                          *)
TsAt(at) ==
    /\ Len(symbols) \in Nat /\ at \in [1 .. Len(symbols) -> Ts!Functions]
    /\ \A n, m \in 1 .. Len(symbols) : at[n] = at[m] => n = m
    /\ \A a \in Ts!Functions : \E n \in 1 .. Len(symbols) : at[n] = a
    /\ \A n \in 1 .. Len(symbols) :
         /\ symbols[n].qname = Ts!Name(at[n][1], at[n][2]) /\ symbols[n].name = Ts!NameOf(at[n])
         /\ symbols[n].file = at[n][1]
    /\ Ts!QNames = {Ts!Name(a[1], a[2]) : a \in Ts!Functions}

LEMMA TsSymbolFacts ==
    ASSUME IndexInv, Plain, language = "ts", read = Len(files)
    PROVE  /\ \E at : TsAt(at)
           /\ \A a \in Ts!Functions : a[1] \in 1 .. Len(files) /\ a[2] \in 1 .. Len(files[a[1]].functions)
<1>. DEFINE F == Ts!Functions
            N == Len(symbols)
<1>1. F = FunctionsOf(Indexed) /\ \A a \in F : a[1] \in 1 .. Len(files) /\ a[2] \in 1 .. Len(files[a[1]].functions)
  BY AllRead DEF IndexInv, FunctionsOf
<1>2. PICK at : TsSymbolsAt(Indexed, symbols, at)
  BY <1>1 DEF IndexInv, SymbolsInv, TsSymbols
<1>. HIDE DEF F
<1>3. /\ N \in Nat /\ at \in [1 .. N -> F]
      /\ symbols = [n \in 1 .. N |-> TsSymbol(at[n])]
      /\ \A n, m \in 1 .. N : at[n] = at[m] => n = m
      /\ \A a \in F : \E n \in 1 .. N : at[n] = a
  BY <1>1, <1>2 DEF TsSymbolsAt
<1>4. \A a : /\ TsSymbol(a).qname = Ts!Name(a[1], a[2]) /\ TsSymbol(a).name = Ts!NameOf(a)
             /\ TsSymbol(a).file = a[1]
  BY DEF TsSymbol, Ts!NameOf
<1>5. \A n \in 1 .. N : symbols[n] = TsSymbol(at[n])
  <2>. HIDE DEF N
  <2>. QED  BY <1>3
<1>6. \A n \in 1 .. N :
         /\ symbols[n].qname = Ts!Name(at[n][1], at[n][2]) /\ symbols[n].name = Ts!NameOf(at[n])
         /\ symbols[n].file = at[n][1]
  BY <1>4, <1>5
<1>7. Ts!QNames = {Ts!Name(a[1], a[2]) : a \in F}
  <2>1. Ts!QNames = {s.qname : s \in Elements(symbols)}
    BY SequenceOperators DEF Ts!QNames
  <2>2. DOMAIN symbols = 1 .. N
    <3>. DEFINE sym(n) == TsSymbol(at[n])
    <3>. HIDE DEF sym, N
    <3>1. symbols = [n \in 1 .. N |-> sym(n)]
      BY <1>3 DEF sym
    <3>. QED  BY <3>1
  <2>3. Elements(symbols) = {symbols[n] : n \in 1 .. N}
    BY <2>2 DEF Elements
  <2>4. Ts!QNames = {symbols[n].qname : n \in 1 .. N}
    BY <2>1, <2>3
  <2>5. \A n \in 1 .. N : at[n] \in F
    BY <1>3
  <2>. HIDE DEF N
  <2>. QED  BY <1>3, <1>6, <2>4, <2>5
<1>8. TsAt(at)
  BY <1>3, <1>6, <1>7 DEF TsAt, F
<1>. QED  BY <1>1, <1>8 DEF F

LEMMA PrefixOfAppend ==
    ASSUME NEW S, NEW s \in Seq(S), NEW x \in S
    PROVE  Ts!IsStrictPrefix(s, Append(s, x))
<1>. DEFINE t == Append(s, x)
<1>1. /\ t \in Seq(S) /\ Len(t) = Len(s) + 1 /\ Len(s) \in Nat
      /\ \A n \in 1 .. Len(s) : t[n] = s[n]
  BY AppendInSeq
<1>. HIDE DEF t
<1>2. SubSeq(s, 1, Len(s)) = SubSeq(t, 1, Len(s))
  <2>1. SubSeq(s, 1, Len(s)) = [n \in 1 .. Len(s) |-> s[n]]
    OBVIOUS
  <2>2. SubSeq(t, 1, Len(s)) = [n \in 1 .. Len(s) |-> t[n]]
    BY <1>1
  <2>. QED  BY <1>1, <2>1, <2>2
<1>3. s # t
  BY <1>1
<1>. QED  BY <1>1, <1>2, <1>3 DEF Ts!IsStrictPrefix, Ts!IsPrefix, t

-----------------------------------------------------------------------------
(* What an import binds: under Plain, what is meant by it.                 *)
TsImportFacts(m) ==
    /\ m[1] \in 1 .. Len(files) /\ m[2] \in Ts!Import
    /\ files[m[1]].dir \in Seq(STRING)
    /\ m[2].local /\ m[2].up = 0 => files[m[1]].dir = <<>>
    /\ ~m[2].local => m[2].path # <<>> /\ \A i \in 1 .. Len(files) : files[i].module[1] # m[2].path[1]
    /\ m[2].kind = "name" => \A a \in Ts!Functions :
         Ts!NameOf(a) = m[2].name /\ Ts!IsStrictPrefix(Ts!Meant(m), Ts!Name(a[1], a[2])) => Ts!Name(a[1], a[2]) = Ts!Imported(m)
    /\ \A i \in 1 .. Len(files) : files[i].module[1] # "./" /\ files[i].module \in Seq(STRING) \ {<<>>}

LEMMA TsImports ==
    ASSUME FilesInv, Plain, language = "ts", NEW m \in Ts!Imports
    PROVE  TsImportFacts(m)
<1>1. Ts!Plain(SitesOfAll)
  BY DEF Plain
<1>2. PICK i \in 1 .. Len(files) : m \in {i} \X Ts!ToSet(files[i].imports)
  BY DEF Ts!Imports
<1>3. m[1] = i /\ m[2] \in Elements(files[i].imports)
  BY <1>2, SequenceOperators
<1>4. files[i].imports \in Seq(Ts!Import) /\ files[i].dir \in Seq(STRING)
  BY FileFacts, TsFile
<1>5. m[2] \in Ts!Import
  BY <1>3, <1>4, InElements
<1>6. /\ m[2].local /\ m[2].up = 0 => files[m[1]].dir = <<>>
      /\ ~m[2].local => m[2].path # <<>> /\ \A j \in 1 .. Len(files) : files[j].module[1] # m[2].path[1]
      /\ m[2].kind = "name" => \A a \in Ts!Functions :
           Ts!NameOf(a) = m[2].name /\ Ts!IsStrictPrefix(Ts!Meant(m), Ts!Name(a[1], a[2])) => Ts!Name(a[1], a[2]) = Ts!Imported(m)
  BY <1>1 DEF Ts!Plain
<1>7. \A j \in 1 .. Len(files) : files[j].module[1] # "./"
  <2>1. \A j \in 1 .. Len(files) : files[j].module[1] \notin {"./", "<handler>"}
    BY <1>1 DEF Ts!Plain
  <2>. QED  BY <2>1
<1>8. \A j \in 1 .. Len(files) : files[j].module \in Seq(STRING) \ {<<>>}
  BY FileFacts, TsFile
<1>. QED  BY <1>3, <1>4, <1>5, <1>6, <1>7, <1>8 DEF TsImportFacts

LEMMA TsModuleOf ==
    ASSUME FilesInv, Plain, language = "ts", read = Len(files), NEW m \in Ts!Imports
    PROVE  /\ m[2].kind # "dynamic" =>
                (Ts!ModuleOf(m[1], m[2]) # <<>> <=> Ts!MeansModule(m))
           /\ Ts!MeansModule(m) => /\ Ts!ModuleOf(m[1], m[2]) = Ts!Meant(m) /\ m[2].kind # "dynamic"
                                   /\ Ts!Meant(m) \in Seq(STRING) \ {<<>>}
<1>. DEFINE i == m[1]
            imp == m[2]
            dir == files[i].dir
            path == SubSeq(dir, 1, IF imp.up = 0 THEN 0 ELSE Len(dir) - imp.up) \o imp.path
            meant == SubSeq(dir, 1, Len(dir) - imp.up) \o imp.path
            mod == Ts!ModuleOf(i, imp)
<1>1. TsImportFacts(m)
  BY TsImports
<1>2. mod = IF imp.local /\ imp.up <= Len(dir) /\ \E k \in 1 .. Len(files) : files[k].module = path THEN path ELSE <<>>
  BY AllRead DEF Ts!ModuleOf
<1>3. imp.local => path = meant
  <2>1. imp.local /\ imp.up = 0 => dir = <<>>
    BY <1>1 DEF TsImportFacts
  <2>2. Len(<<>>) = 0 /\ 0 - 0 = 0
    OBVIOUS
  <2>. QED  BY <2>1, <2>2
<1>4. Ts!MeansModule(m) <=> /\ imp.local /\ imp.kind # "dynamic" /\ imp.up <= Len(dir)
                            /\ \E k \in 1 .. Len(files) : files[k].module = meant
  BY DEF Ts!MeansModule, Ts!Meant
<1>5. Ts!Meant(m) = meant
  BY DEF Ts!Meant
<1>6. \A k \in 1 .. Len(files) : files[k].module \in Seq(STRING) \ {<<>>}
  BY <1>1 DEF TsImportFacts
<1>. HIDE DEF path, meant, mod, imp, dir
<1>7. imp.kind # "dynamic" => (mod # <<>> <=> Ts!MeansModule(m))
  BY <1>2, <1>3, <1>4, <1>6
<1>8. Ts!MeansModule(m) => mod = meant /\ imp.kind # "dynamic" /\ meant \in Seq(STRING) \ {<<>>}
  BY <1>2, <1>3, <1>4, <1>6
<1>. QED  BY <1>5, <1>7, <1>8 DEF mod, imp

(* _find_symbol_in_module finds the function meant, if there is one.       *)
LEMMA TsSymbolIn ==
    ASSUME IndexInv, Plain, language = "ts", read = Len(files), NEW m \in Ts!Imports,
           m[2].kind = "name", Ts!Meant(m) \in Seq(STRING)
    PROVE  /\ Ts!SymbolIn(Ts!Meant(m), m[2].name) # <<>> <=> Ts!Called(Ts!Imported(m)) # {}
           /\ Ts!SymbolIn(Ts!Meant(m), m[2].name) # <<>> =>
                Ts!SymbolIn(Ts!Meant(m), m[2].name) = Ts!Imported(m)
<1>. DEFINE name == m[2].name
            meant == Ts!Meant(m)
            whole == Ts!Imported(m)
            within == {n \in Ts!NamedSo(name) : Ts!IsStrictPrefix(meant, symbols[n].qname)}
            found == Ts!SymbolIn(meant, name)
            F == Ts!Functions
<1>1. PICK at : TsAt(at)
  BY TsSymbolFacts
<1>2. \A a \in F : a[1] \in 1 .. Len(files) /\ a[2] \in 1 .. Len(files[a[1]].functions)
  BY TsSymbolFacts
<1>3. name \in STRING /\ meant \in Seq(STRING)
  <2>1. m[2] \in Ts!Import
    BY TsImports DEF IndexInv, TsImportFacts
  <2>2. m[2].name \in STRING
    BY <2>1 DEF Ts!Import
  <2>. QED  BY <2>2
<1>4. \A a \in F : Ts!NameOf(a) = name /\ Ts!IsStrictPrefix(meant, Ts!Name(a[1], a[2])) => Ts!Name(a[1], a[2]) = whole
  BY TsImports DEF IndexInv, TsImportFacts
<1>5. found = IF within = {} THEN <<>> ELSE symbols[Ts!Earliest(within)].qname
  BY DEF Ts!SymbolIn
<1>6. /\ Len(symbols) \in Nat /\ at \in [1 .. Len(symbols) -> F]
      /\ \A a \in F : \E n \in 1 .. Len(symbols) : at[n] = a
      /\ \A n \in 1 .. Len(symbols) :
           symbols[n].qname = Ts!Name(at[n][1], at[n][2]) /\ symbols[n].name = Ts!NameOf(at[n])
  BY <1>1 DEF TsAt
<1>7. whole = Append(meant, name) /\ Ts!Called(whole) = {a \in F : Ts!Name(a[1], a[2]) = whole}
  BY DEF Ts!Imported, Ts!Called
<1>8. within = {n \in 1 .. Len(symbols) : symbols[n].name = name /\ Ts!IsStrictPrefix(meant, symbols[n].qname)}
  BY DEF Ts!NamedSo
<1>. HIDE DEF name, meant, whole, within, found, F
<1>9. CASE within = {}
  <2>1. found = <<>>
    BY <1>5, <1>9
  <2>2. ASSUME NEW a \in F, Ts!Name(a[1], a[2]) = whole PROVE FALSE
    <3>1. PICK n \in 1 .. Len(symbols) : at[n] = a
      BY <1>6
    <3>2. symbols[n].qname = whole /\ symbols[n].name = Ts!NameOf(a)
      BY <1>6, <2>2, <3>1
    <3>3. PICK p \in Seq(STRING) : Ts!Name(a[1], a[2]) = Append(p, Ts!NameOf(a))
      BY <1>2, TsNameEnds DEF IndexInv
    <3>4. Ts!NameOf(a) = name
      <4>. DEFINE x == Ts!NameOf(a)
      <4>1. x \in STRING
        BY <1>2, TsNameEnds DEF IndexInv
      <4>2. Append(p, x) = Append(meant, name)
        BY <1>7, <2>2, <3>3
      <4>. HIDE DEF x
      <4>3. x = name
        BY <1>3, <4>1, <4>2, AppendInSeq
      <4>. QED  BY <4>3 DEF x
    <3>5. Ts!IsStrictPrefix(meant, whole)
      BY <1>3, <1>7, PrefixOfAppend
    <3>6. n \in within
      BY <1>8, <3>2, <3>4, <3>5
    <3>. QED  BY <1>9, <3>6
  <2>3. Ts!Called(whole) = {}
    BY <1>7, <2>2
  <2>. QED  BY <2>1, <2>3 DEF found, meant, name, whole
<1>10. CASE within # {}
  <2>. DEFINE n == Ts!Earliest(within)
              a == at[n]
  <2>1. n \in within
    <3>1. within \subseteq 1 .. Len(symbols)
      BY <1>8
    <3>. QED  BY <1>6, <1>10, <3>1, TsEnds
  <2>2. n \in 1 .. Len(symbols) /\ symbols[n].name = name /\ Ts!IsStrictPrefix(meant, symbols[n].qname)
    BY <1>8, <2>1
  <2>3. a \in F /\ symbols[n].qname = Ts!Name(a[1], a[2]) /\ Ts!NameOf(a) = name
    BY <1>6, <2>2
  <2>4. Ts!Name(a[1], a[2]) = whole
    BY <1>4, <2>2, <2>3
  <2>5. found = whole
    BY <1>5, <1>10, <2>3, <2>4
  <2>6. whole # <<>>
    BY <1>3, <1>7
  <2>7. Ts!Called(whole) # {}
    BY <1>7, <2>3, <2>4
  <2>. QED  BY <2>5, <2>6, <2>7 DEF found, meant, name, whole
<1>. QED  BY <1>9, <1>10

TsBindingMeans(m) ==
    LET b == Ts!Binding(m[1], m[2])
    IN  /\ b.module # <<>>
        /\ Ts!MeansModule(m) => (IF b.symbol # <<>> THEN b.symbol ELSE b.module) = Ts!Base(m)
        /\ b.symbol # <<>> => /\ Ts!MeansModule(m) /\ m[2].kind = "name" /\ b.symbol = Ts!Imported(m)
                              /\ Ts!Called(Ts!Imported(m)) # {}
        /\ ~Ts!MeansModule(m) => b.symbol = <<>> /\ \A rest \in Seq(STRING) : b.module \o rest \notin Ts!QNames

LEMMA TsBindings ==
    ASSUME IndexInv, Plain, language = "ts", read = Len(files), NEW m \in Ts!Imports
    PROVE  TsBindingMeans(m)
<1>. DEFINE i == m[1]
            imp == m[2]
            mod == Ts!ModuleOf(i, imp)
            meant == Ts!Meant(m)
            outside == IF imp.local THEN <<"./">> \o imp.path ELSE imp.path
            b == Ts!Binding(i, imp)
            means == Ts!MeansModule(m)
            kind == imp.kind
            found == Ts!SymbolIn(mod, imp.name)
<1>1. TsImportFacts(m)
  BY TsImports DEF IndexInv
<1>2. /\ kind # "dynamic" => (mod # <<>> <=> means)
      /\ means => mod = meant /\ kind # "dynamic" /\ meant \in Seq(STRING) \ {<<>>}
  BY TsModuleOf DEF IndexInv
<1>3. kind \in {"name", "module", "dynamic"} /\ imp.path \in Seq(STRING)
  <2>. HIDE DEF imp
  <2>1. imp \in Ts!Import
    BY <1>1 DEF TsImportFacts, imp
  <2>. QED  BY <2>1 DEF Ts!Import
<1>4. b = CASE kind = "dynamic" \/ mod = <<>> -> [symbol |-> <<>>, module |-> outside]
            [] kind = "module" /\ mod # <<>> -> [symbol |-> <<>>, module |-> mod]
            [] OTHER -> [symbol |-> found, module |-> mod]
  BY DEF Ts!Binding
<1>5. Ts!Base(m) = IF kind = "name" /\ Ts!Called(Ts!Imported(m)) # {} THEN Ts!Imported(m) ELSE meant
  BY DEF Ts!Base
<1>6. kind = "name" /\ means =>
        /\ found # <<>> <=> Ts!Called(Ts!Imported(m)) # {}
        /\ found # <<>> => found = Ts!Imported(m)
  BY <1>2, TsSymbolIn
<1>7. /\ outside # <<>>
      /\ \A rest \in Seq(STRING) : outside \o rest \notin Ts!QNames
  <2>1. \A q \in Ts!QNames : \E a \in Ts!Functions : q = Ts!Name(a[1], a[2])
    <3>1. PICK at : TsAt(at)
      BY TsSymbolFacts
    <3>. QED  BY <3>1 DEF TsAt
  <2>2. ASSUME NEW q \in Ts!QNames PROVE \E j \in 1 .. Len(files) : q[1] = files[j].module[1]
    <3>1. PICK a \in Ts!Functions : q = Ts!Name(a[1], a[2])
      BY <2>1
    <3>2. a[1] \in 1 .. Len(files) /\ a[2] \in 1 .. Len(files[a[1]].functions)
      BY TsSymbolFacts
    <3>. QED  BY <3>1, <3>2, TsNameEnds DEF IndexInv
  <2>3. CASE imp.local
    <3>. DEFINE p == imp.path
                T == STRING \cup {"./"}
                root == "./"
    <3>1. p \in Seq(STRING) /\ outside = <<root>> \o p
      BY <1>3, <2>3
    <3>2. root \in T /\ STRING \subseteq T
      OBVIOUS
    <3>. HIDE DEF p, root, T, outside
    <3>3. p \in Seq(T) /\ <<root>> \in Seq(T) /\ \A rest \in Seq(STRING) : rest \in Seq(T)
      <4>1. \A rest \in Seq(STRING) : rest \in Seq(T)
        BY <3>2, WiderSeq
      <4>2. <<root>> \in Seq(T)
        BY <3>2
      <4>. QED  BY <3>1, <4>1, <4>2
    <3>4. outside \in Seq(T) /\ Len(outside) > 0 /\ outside[1] = root
      BY <3>1, <3>2, <3>3
    <3>5. \A rest \in Seq(STRING) : (outside \o rest)[1] = root
      <4>. TAKE rest \in Seq(STRING)
      <4>1. rest \in Seq(T)
        BY <3>3
      <4>. QED  BY <3>4, <4>1
    <3>6. \A j \in 1 .. Len(files) : files[j].module[1] # root
      BY <1>1 DEF TsImportFacts, root
    <3>7. outside # <<>>
      BY <3>4
    <3>8. ASSUME NEW rest \in Seq(STRING) PROVE outside \o rest \notin Ts!QNames
      <4>1. SUFFICES ASSUME outside \o rest \in Ts!QNames PROVE FALSE
        OBVIOUS
      <4>2. PICK j \in 1 .. Len(files) : (outside \o rest)[1] = files[j].module[1]
        BY <2>2, <4>1
      <4>. QED  BY <3>5, <3>6, <4>2
    <3>. QED  BY <3>7, <3>8
  <2>4. CASE ~imp.local
    <3>. DEFINE p == imp.path
    <3>1. outside = p /\ p \in Seq(STRING) /\ p # <<>> /\ \A j \in 1 .. Len(files) : files[j].module[1] # p[1]
      BY <1>1, <1>3, <2>4 DEF TsImportFacts
    <3>. HIDE DEF p, outside
    <3>2. \A rest \in Seq(STRING) : (p \o rest)[1] = p[1]
      BY <3>1
    <3>. QED  BY <2>2, <3>1, <3>2 DEF outside
  <2>. QED  BY <2>3, <2>4
<1>. HIDE DEF mod, meant, outside, b, means, kind, found, imp
<1>8. CASE kind = "dynamic" \/ mod = <<>>
  <2>1. b = [symbol |-> <<>>, module |-> outside] /\ ~means
    BY <1>2, <1>4, <1>8
  <2>2. b.symbol = <<>> /\ b.module = outside
    BY <2>1
  <2>. QED  BY <1>7, <2>1, <2>2 DEF TsBindingMeans, b, means, imp
<1>9. CASE kind = "module" /\ mod # <<>>
  <2>1. b = [symbol |-> <<>>, module |-> mod] /\ means
    BY <1>2, <1>4, <1>9
  <2>2. b.symbol = <<>> /\ b.module = mod /\ mod = meant
    BY <1>2, <2>1
  <2>3. Ts!Base(m) = meant
    BY <1>5, <1>9
  <2>. QED  BY <1>9, <2>1, <2>2, <2>3 DEF TsBindingMeans, b, means, imp
<1>10. CASE kind = "name" /\ mod # <<>>
  <2>1. b = [symbol |-> found, module |-> mod] /\ means
    BY <1>2, <1>4, <1>10
  <2>2. b.symbol = found /\ b.module = mod /\ mod = meant
    BY <1>2, <2>1
  <2>3. Ts!Base(m) = IF found # <<>> THEN Ts!Imported(m) ELSE meant
    BY <1>5, <1>6, <1>10, <2>1
  <2>. QED  BY <1>6, <1>10, <2>1, <2>2, <2>3 DEF TsBindingMeans, b, means, imp, kind
<1>. QED  BY <1>3, <1>8, <1>9, <1>10

LEMMA TsResolveMeans ==
    ASSUME IndexInv, Plain, language = "ts", read = Len(files), NEW c \in SitesOfAll
    PROVE  /\ Ts!Resolve(c[1], c[2]).certainty # "unresolved" =>
                /\ c[2].to # {} /\ c[2].to \subseteq Ts!Functions
                /\ \A a \in c[2].to : Ts!Name(a[1], a[2]) = Ts!Resolve(c[1], c[2]).qname
           /\ Ts!Resolve(c[1], c[2]).certainty = "unresolved" /\ Ts!Followed(c) => Ts!LooksLocal(c[2])
<1>. DEFINE F == Ts!Functions
            i == c[1]
            callee == c[2].callee
            head == callee[1]
            name == Ts!Last(callee)
            named == Ts!NamedSo(name)
            local == {n \in named : symbols[n].file = i}
            imported == files[i].imports
            imports == {n \in 1 .. Len(imported) : imported[n].bound = head}
            m == <<i, imported[Ts!Latest(imports)]>>
            binding == Ts!Binding(i, imported[Ts!Latest(imports)])
            base == IF binding.symbol # <<>> THEN binding.symbol ELSE binding.module
            attribute == base \o Tail(callee)
            bare == Len(callee) = 1
            computed == c[2].computed
            r == Ts!Resolve(c[1], c[2])
            to == c[2].to
            bound == Ts!Bound(c)
            Good == /\ to # {} /\ to \subseteq F
                    /\ \A a \in to : Ts!Name(a[1], a[2]) = r.qname
<1>1. i \in 1 .. Len(files) /\ callee \in Seq(STRING) \ {<<>>} /\ computed \in BOOLEAN
  <2>1. i \in 1 .. Len(files) /\ c[2] \in Ts!Call
    BY TsSites DEF IndexInv
  <2>. QED  BY <2>1 DEF Ts!Call
<1>2. PICK at : TsAt(at)
  BY TsSymbolFacts
<1>3. /\ Len(symbols) \in Nat /\ at \in [1 .. Len(symbols) -> F]
      /\ \A n, k \in 1 .. Len(symbols) : at[n] = at[k] => n = k
      /\ \A a \in F : \E n \in 1 .. Len(symbols) : at[n] = a
      /\ \A n \in 1 .. Len(symbols) :
           /\ symbols[n].qname = Ts!Name(at[n][1], at[n][2]) /\ symbols[n].name = Ts!NameOf(at[n])
           /\ symbols[n].file = at[n][1]
      /\ Ts!QNames = {Ts!Name(a[1], a[2]) : a \in Ts!Functions}
  BY <1>2 DEF TsAt
<1>4. Ts!ModuleInfo(i) = i
  BY <1>1, TsModuleInfo DEF IndexInv
<1>5. r = CASE computed -> Ts!Unresolved
            [] ~computed /\ head = "this" ->
                 IF local # {} /\ symbols[Ts!Latest(local)].cls # "" THEN Ts!Known(symbols[Ts!Latest(local)].qname, "resolved")
                 ELSE Ts!Unresolved
            [] ~computed /\ head # "this" /\ imports # {} /\ (bare \/ binding.module # <<>>) ->
                 IF bare THEN IF binding.symbol # <<>> THEN Ts!Known(binding.symbol, "resolved") ELSE Ts!Unresolved
                 ELSE IF attribute \in Ts!QNames THEN Ts!Known(attribute, "resolved") ELSE Ts!Unresolved
            [] OTHER ->
                 IF bare /\ local # {} THEN Ts!Known(symbols[Ts!Latest(local)].qname, "resolved") ELSE Ts!Guess(name)
  BY <1>4 DEF Ts!Resolve
<1>6. Ts!Plain(SitesOfAll)
  BY DEF Plain
<1>7. /\ to \subseteq F
      /\ to = {} => \A a \in F : Ts!NameOf(a) # name
      /\ computed \/ \A x \in bound : Ts!MeansModule(x) =>
           IF bare THEN x[2].kind = "name" => Ts!Runs(c, Ts!Imported(x)) ELSE Ts!Runs(c, Ts!Base(x) \o Tail(callee))
      /\ computed \/ bound # {} \/
           /\ \A a \in to : Ts!NameOf(a) = name
           /\ (bare \/ head = "this") /\ {a \in F : a[1] = i /\ Ts!NameOf(a) = name} # {} =>
                to \subseteq {a \in F : a[1] = i /\ Ts!NameOf(a) = name}
  <2>1. Ts!RunsWhatItNames(c)
    BY <1>6 DEF Ts!Plain
  <2>. QED  BY <2>1 DEF Ts!RunsWhatItNames
<1>8. /\ \A a, b \in F : a[1] = b[1] /\ Ts!NameOf(a) = Ts!NameOf(b) => a = b
      /\ \A x, y \in Ts!Imports : x[1] = y[1] /\ x[2].bound = y[2].bound => x = y
  <2>1. \A a, b \in F : a[1] = b[1] /\ Ts!NameOf(a) = Ts!NameOf(b) => a = b
    BY <1>6 DEF Ts!Plain
  <2>2. \A x, y \in Ts!Imports : x[1] = y[1] /\ x[2].bound = y[2].bound => x = y
    BY <1>6 DEF Ts!Plain
  <2>. QED  BY <2>1, <2>2
<1>9. bound = {x \in Ts!Imports : x[1] = i /\ x[2].bound = head /\ head # "this"}
  BY DEF Ts!Bound
<1>10. imported \in Seq(Ts!Import)
  BY <1>1, FileFacts, TsFile DEF IndexInv
<1>11. \A x \in Ts!Imports : x[1] = i => \E n \in 1 .. Len(imported) : x = <<i, imported[n]>>
  <2>1. ASSUME NEW x \in Ts!Imports, x[1] = i PROVE \E n \in 1 .. Len(imported) : x = <<i, imported[n]>>
    <3>1. PICK k \in 1 .. Len(files) : x \in {k} \X Ts!ToSet(files[k].imports)
      BY DEF Ts!Imports
    <3>2. k = i /\ x = <<i, x[2]>> /\ x[2] \in Elements(imported)
      BY <2>1, <3>1, SequenceOperators
    <3>3. \E n \in 1 .. Len(imported) : imported[n] = x[2]
      BY <1>10, <3>2, InElements
    <3>. QED  BY <3>2, <3>3
  <2>. QED  BY <2>1
<1>12. \A n \in 1 .. Len(imported) : <<i, imported[n]>> \in Ts!Imports
  <2>1. ASSUME NEW n \in 1 .. Len(imported) PROVE <<i, imported[n]>> \in Ts!Imports
    <3>1. imported[n] \in Elements(imported)
      BY <1>10, InElements
    <3>2. imported[n] \in Ts!ToSet(imported)
      BY <3>1, SequenceOperators
    <3>. QED  BY <1>1, <3>2 DEF Ts!Imports
  <2>. QED  BY <2>1
<1>13. imports # {} => m \in Ts!Imports /\ m[1] = i /\ m[2].bound = head
  <2>1. imports # {} => Ts!Latest(imports) \in imports
    <3>1. Len(imported) \in Nat /\ imports \subseteq 1 .. Len(imported)
      BY <1>10
    <3>. HIDE DEF imports, imported
    <3>. QED  BY <3>1, TsEnds
  <2>2. imports # {} => Ts!Latest(imports) \in 1 .. Len(imported) /\ imported[Ts!Latest(imports)].bound = head
    BY <2>1
  <2>. HIDE DEF imports, imported
  <2>. QED  BY <1>12, <2>2
<1>14. bound # {} => imports # {} /\ head # "this"
  <2>1. ASSUME NEW x \in bound PROVE imports # {} /\ head # "this"
    <3>1. x \in Ts!Imports /\ x[1] = i /\ x[2].bound = head /\ head # "this"
      BY <1>9
    <3>2. PICK n \in 1 .. Len(imported) : x = <<i, imported[n]>>
      BY <1>11, <3>1
    <3>3. n \in imports
      BY <3>1, <3>2
    <3>. QED  BY <3>1, <3>3
  <2>. QED  BY <2>1
<1>15. imports # {} /\ head # "this" => m \in bound
  BY <1>9, <1>13
<1>16. imports # {} => TsBindingMeans(m)
  <2>. HIDE DEF m, imports
  <2>. QED  BY <1>13, TsBindings
<1>17. m[1] = i /\ m[2] = imported[Ts!Latest(imports)]
  OBVIOUS
<1>18. imports # {} =>
        /\ binding.module # <<>>
        /\ Ts!MeansModule(m) => base = Ts!Base(m)
        /\ binding.symbol # <<>> => /\ Ts!MeansModule(m) /\ m[2].kind = "name" /\ binding.symbol = Ts!Imported(m)
                                    /\ Ts!Called(Ts!Imported(m)) # {}
        /\ ~Ts!MeansModule(m) => binding.symbol = <<>> /\ \A rest \in Seq(STRING) : binding.module \o rest \notin Ts!QNames
  <2>. HIDE DEF m, imports
  <2>. QED  BY <1>16, <1>17 DEF TsBindingMeans
<1>19. /\ named = {n \in 1 .. Len(symbols) : symbols[n].name = name}
       /\ local \subseteq named /\ \A n \in local : symbols[n].file = i
  BY DEF Ts!NamedSo
<1>20. Tail(callee) \in Seq(STRING)
  <2>. HIDE DEF callee
  <2>. QED  BY <1>1, TailInSeq
<1>21. Ts!LooksLocal(c[2]) <=> bare \/ head = "this"
  BY DEF Ts!LooksLocal
<1>22. /\ Ts!Unresolved.certainty = "unresolved"
       /\ \A q, how : Ts!Known(q, how).qname = q /\ Ts!Known(q, how).certainty = how
  BY DEF Ts!Unresolved, Ts!Known
<1>23. Ts!Guess(name) = IF Ts!Cardinality(named) = 1 THEN Ts!Known(symbols[Ts!Earliest(named)].qname, "heuristic") ELSE Ts!Unresolved
  BY DEF Ts!Guess
<1>24. \A q : Ts!Runs(c, q) <=> (Ts!Called(q) # {} => to # {} /\ to \subseteq Ts!Called(q))
  BY DEF Ts!Runs
<1>25. \A q : Ts!Called(q) = {a \in F : Ts!Name(a[1], a[2]) = q}
  BY DEF Ts!Called
<1>26. Ts!Followed(c) =>
        /\ ~computed
        /\ bound = {} => Ts!Cardinality({a \in F : Ts!NameOf(a) = name}) = 1
        /\ bound # {} => \E x \in bound : Ts!MeansModule(x) /\ Ts!Called(Ts!Base(x) \o Tail(callee)) # {}
  BY DEF Ts!Followed
<1>33. \A q \in Ts!QNames : Ts!Called(q) # {}
  <2>. TAKE q \in Ts!QNames
  <2>1. PICK a \in F : Ts!Name(a[1], a[2]) = q
    BY <1>3
  <2>. QED  BY <1>25, <2>1
<1>34. \A q : Ts!Called(q) # {} => q \in Ts!QNames
  BY <1>3, <1>25
<1>. HIDE DEF F, i, callee, head, name, named, local, imported, imports, m, binding, base, bare, computed, r, to, bound
<1>. DEFINE Latest == Ts!Latest(local)
<1>27. ASSUME local # {}, bound = {}, ~computed, bare \/ head = "this", r.qname = symbols[Latest].qname PROVE Good
  <2>1. Latest \in local
    <3>1. local \subseteq 1 .. Len(symbols)
      BY <1>19
    <3>. QED  BY <1>3, <1>27, <3>1, TsEnds
  <2>. DEFINE b == at[Latest]
  <2>. HIDE DEF Latest
  <2>2. b \in F /\ b[1] = i /\ Ts!NameOf(b) = name /\ r.qname = Ts!Name(b[1], b[2])
    BY <1>3, <1>19, <1>27, <2>1
  <2>. HIDE DEF b
  <2>3. to # {}
    BY <1>7, <2>2
  <2>4. to \subseteq {a \in F : a[1] = i /\ Ts!NameOf(a) = name}
    BY <1>7, <1>27, <2>2
  <2>5. \A a \in to : a = b
    BY <1>8, <2>2, <2>4
  <2>. QED  BY <1>7, <2>2, <2>3, <2>5
<1>28. IsFiniteSet(named)
  <2>1. IsFiniteSet(1 .. Len(symbols))
    <3>. DEFINE L == Len(symbols)
    <3>1. 1 \in Int /\ L \in Int
      BY <1>3
    <3>. HIDE DEF L
    <3>2. IsFiniteSet(1 .. L)
      BY <3>1, FS_Interval
    <3>. QED  BY <3>2 DEF L
  <2>. QED  BY <1>19, <2>1, FS_Subset
<1>29. ASSUME Ts!Cardinality(named) = 1, bound = {}, ~computed, r.qname = symbols[Ts!Earliest(named)].qname PROVE Good
  <2>1. PICK n : named = {n}
    BY <1>28, <1>29, FS_Singleton, SameCardinality
  <2>2. n \in 1 .. Len(symbols) /\ symbols[n].name = name
    BY <1>19, <2>1
  <2>3. Ts!Earliest(named) = n
    BY <2>1, <2>2, <1>3 DEF Ts!Earliest
  <2>. DEFINE b == at[n]
  <2>4. b \in F /\ Ts!NameOf(b) = name /\ r.qname = Ts!Name(b[1], b[2])
    BY <1>3, <1>29, <2>2, <2>3
  <2>5. to # {}
    BY <1>7, <2>4
  <2>6. ASSUME NEW a \in to PROVE a = b
    <3>1. a \in F /\ Ts!NameOf(a) = name
      BY <1>7, <1>29
    <3>2. PICK k \in 1 .. Len(symbols) : at[k] = a
      BY <1>3, <3>1
    <3>3. k \in named
      BY <1>3, <1>19, <3>1, <3>2
    <3>. QED  BY <2>1, <3>2, <3>3
  <2>. HIDE DEF b
  <2>. QED  BY <1>7, <2>4, <2>5, <2>6
<1>30. ASSUME NEW q, Ts!Runs(c, q), Ts!Called(q) # {}, r.qname = q PROVE Good
  BY <1>7, <1>24, <1>25, <1>30
<1>31. ASSUME r.certainty # "unresolved" PROVE Good
  <2>0. ~computed
    BY <1>5, <1>22, <1>31
  <2>1. CASE head = "this"
    <3>1. bound = {}
      BY <1>14, <2>1
    <3>2. r = IF local # {} /\ symbols[Latest].cls # "" THEN Ts!Known(symbols[Latest].qname, "resolved")
              ELSE Ts!Unresolved
      BY <1>5, <2>0, <2>1
    <3>3. local # {} /\ r.qname = symbols[Latest].qname
      BY <1>22, <1>31, <3>2
    <3>. HIDE DEF Good, Latest
    <3>. QED  BY <1>27, <2>0, <2>1, <3>1, <3>3
  <2>2. CASE head # "this" /\ imports # {}
    <3>1. m \in bound /\ binding.module # <<>>
      BY <1>15, <1>18, <2>2
    <3>2. r = IF bare THEN IF binding.symbol # <<>> THEN Ts!Known(binding.symbol, "resolved") ELSE Ts!Unresolved
              ELSE IF attribute \in Ts!QNames THEN Ts!Known(attribute, "resolved") ELSE Ts!Unresolved
      <4>. HIDE DEF attribute, Latest
      <4>. QED  BY <1>5, <2>0, <2>2, <3>1
    <3>3. CASE bare
      <4>1. binding.symbol # <<>> /\ r.qname = binding.symbol
        BY <1>22, <1>31, <3>2, <3>3
      <4>2. /\ Ts!MeansModule(m) /\ m[2].kind = "name" /\ binding.symbol = Ts!Imported(m)
            /\ Ts!Called(Ts!Imported(m)) # {}
        BY <1>18, <2>2, <4>1
      <4>3. Ts!Runs(c, Ts!Imported(m))
        BY <1>7, <2>0, <3>1, <3>3, <4>2
      <4>. HIDE DEF Good
      <4>. QED  BY <1>30, <4>1, <4>2, <4>3
    <3>4. CASE ~bare
      <4>1. attribute \in Ts!QNames /\ r.qname = attribute
        <5>. HIDE DEF attribute
        <5>. QED  BY <1>22, <1>31, <3>2, <3>4
      <4>2. Ts!MeansModule(m)
        BY <1>18, <1>20, <2>2, <4>1 DEF base
      <4>3. attribute = Ts!Base(m) \o Tail(callee)
        BY <1>18, <2>2, <4>2
      <4>4. Ts!Runs(c, attribute)
        BY <1>7, <2>0, <3>1, <3>4, <4>2, <4>3
      <4>5. Ts!Called(attribute) # {}
        <5>. HIDE DEF attribute
        <5>. QED  BY <1>33, <4>1
      <4>. HIDE DEF Good, attribute
      <4>. QED  BY <1>30, <4>1, <4>4, <4>5
    <3>. QED  BY <3>3, <3>4
  <2>3. CASE head # "this" /\ imports = {}
    <3>1. bound = {}
      BY <1>14, <2>3
    <3>2. r = IF bare /\ local # {} THEN Ts!Known(symbols[Latest].qname, "resolved") ELSE Ts!Guess(name)
      <4>. HIDE DEF attribute
      <4>. QED  BY <1>5, <2>0, <2>3
    <3>3. CASE bare /\ local # {}
      <4>1. r.qname = symbols[Latest].qname
        BY <1>22, <3>2, <3>3
      <4>. HIDE DEF Good, Latest
      <4>. QED  BY <1>27, <2>0, <3>1, <3>3, <4>1
    <3>4. CASE ~(bare /\ local # {})
      <4>1. Ts!Cardinality(named) = 1 /\ r.qname = symbols[Ts!Earliest(named)].qname
        BY <1>22, <1>23, <1>31, <3>2, <3>4
      <4>. HIDE DEF Good
      <4>. QED  BY <1>29, <2>0, <3>1, <4>1
    <3>. QED  BY <3>3, <3>4
  <2>. QED  BY <2>1, <2>2, <2>3
<1>32. ASSUME Ts!Followed(c), ~bare, head # "this" PROVE r.certainty # "unresolved"
  <2>0. ~computed
    BY <1>26, <1>32
  <2>1. CASE bound = {}
    <3>1. imports = {}
      BY <1>15, <1>32, <2>1
    <3>2. r = Ts!Guess(name)
      <4>. HIDE DEF attribute, Latest
      <4>. QED  BY <1>5, <1>32, <2>0, <3>1
    <3>. DEFINE all == {a \in F : Ts!NameOf(a) = name}
    <3>3. Ts!Cardinality(all) = 1
      BY <1>26, <1>32, <2>1
    <3>4. \A n \in 1 .. Len(symbols) : n \in named <=> at[n] \in all
      BY <1>3, <1>19
    <3>5. IsFiniteSet(all)
      <4>. DEFINE f == [n \in named |-> at[n]]
      <4>1. f = [n \in named |-> f[n]]
        OBVIOUS
      <4>2. {f[n] : n \in named} = {at[n] : n \in named}
        OBVIOUS
      <4>3. \A a \in all : a \in {at[n] : n \in named}
        <5>1. ASSUME NEW a \in all PROVE \E n \in named : at[n] = a
          <6>1. PICK n \in 1 .. Len(symbols) : at[n] = a
            BY <1>3
          <6>. HIDE DEF all
          <6>. QED  BY <3>4, <6>1
        <5>. QED  BY <5>1
      <4>4. \A n \in named : at[n] \in all
        <5>. HIDE DEF all
        <5>. QED  BY <1>19, <3>4
      <4>. HIDE DEF f, all
      <4>5. IsFiniteSet({f[n] : n \in named})
        BY <1>28, <4>1, ImageFinite
      <4>6. all = {at[n] : n \in named}
        BY <4>3, <4>4
      <4>. QED  BY <4>2, <4>5, <4>6
    <3>6. PICK b : all = {b}
      <4>. HIDE DEF all
      <4>. QED  BY <3>3, <3>5, FS_Singleton, SameCardinality
    <3>7. b \in F
      BY <3>6
    <3>8. PICK n \in 1 .. Len(symbols) : at[n] = b
      BY <1>3, <3>7
    <3>. HIDE DEF all
    <3>9. named = {n}
      BY <1>3, <1>19, <3>4, <3>6, <3>8
    <3>10. Ts!Cardinality(named) = 1
      BY <3>9, FS_Singleton, SameCardinality
    <3>11. Ts!Known(symbols[Ts!Earliest(named)].qname, "heuristic").certainty = "heuristic"
      BY <1>22
    <3>. QED  BY <1>23, <3>2, <3>10, <3>11
  <2>2. CASE bound # {}
    <3>1. PICK x \in bound : Ts!MeansModule(x) /\ Ts!Called(Ts!Base(x) \o Tail(callee)) # {}
      BY <1>26, <1>32, <2>2
    <3>2. imports # {} /\ m \in bound
      BY <1>14, <1>15, <2>2
    <3>3. x = m
      BY <1>8, <1>9, <3>2
    <3>4. binding.module # <<>> /\ attribute = Ts!Base(x) \o Tail(callee)
      BY <1>18, <3>1, <3>2, <3>3
    <3>5. attribute \in Ts!QNames
      BY <1>34, <3>1, <3>4
    <3>. HIDE DEF attribute, Latest
    <3>6. r = Ts!Known(attribute, "resolved")
      BY <1>5, <1>32, <2>0, <3>2, <3>4, <3>5
    <3>7. r.certainty = "resolved"
      BY <1>22, <3>6
    <3>. QED  BY <3>7
  <2>. QED  BY <2>1, <2>2
<1>. QED  BY <1>21, <1>31, <1>32 DEF r, to, F

-----------------------------------------------------------------------------
(* What the search goes by.                                                *)
CallTarget(c) == Resolve(c[1], c[2])

LEMMA ResolveMeans ==
    ASSUME IndexInv, Plain, read = Len(files), NEW c \in SitesOfAll
    PROVE  /\ CallTarget(c).certainty # "unresolved" =>
                c[2].to # {} /\ \A a \in c[2].to : Name(a[1], a[2]) = CallTarget(c).qname
           /\ c[2].to \subseteq FunctionsOf(Indexed)
           /\ CallTarget(c).certainty = "unresolved" /\ c[2].to # {} /\ (language = "ts" => Ts!DotsTell(SitesOfAll))
                => LooksLocal(c[2])
<1>1. Ts!Functions = FunctionsOf(Indexed) /\ Go!Functions = FunctionsOf(Indexed)
  BY AllRead DEF IndexInv
<1>2. CASE language = "ts"
  <2>1. CallTarget(c) = Ts!Resolve(c[1], c[2]) /\ \A a : Name(a[1], a[2]) = Ts!Name(a[1], a[2])
    BY <1>2 DEF CallTarget, Resolve, Name
  <2>2. LooksLocal(c[2]) = Ts!LooksLocal(c[2])
    BY <1>2 DEF LooksLocal
  <2>3. Ts!DotsTell(SitesOfAll) /\ c[2].to # {} => Ts!LooksLocal(c[2]) \/ Ts!Followed(c)
    BY DEF Ts!DotsTell
  <2>4. Ts!RunsWhatItNames(c)
    <3>1. Ts!Plain(SitesOfAll)
      BY <1>2 DEF Plain
    <3>. QED  BY <3>1 DEF Ts!Plain
  <2>5. c[2].to \subseteq Ts!Functions
    BY <2>4 DEF Ts!RunsWhatItNames
  <2>. QED  BY <1>1, <1>2, <2>1, <2>2, <2>3, <2>5, TsResolveMeans
<1>3. CASE language = "go"
  <2>1. CallTarget(c) = Go!Resolve(c[1], c[2]) /\ \A a : Name(a[1], a[2]) = Go!Name(a[1], a[2])
    BY <1>3 DEF CallTarget, Resolve, Name
  <2>2. Go!RunsWhatItNames(c) /\ ~c[2].capital
    <3>1. Go!Plain(SitesOfAll)
      BY <1>3 DEF Plain
    <3>. QED  BY <3>1 DEF Go!Plain
  <2>3. LooksLocal(c[2])
    BY <1>3, <2>2 DEF LooksLocal, Go!LooksLocal
  <2>4. c[2].to \subseteq Go!Functions
    BY <2>2 DEF Go!RunsWhatItNames
  <2>. QED  BY <1>1, <1>3, <2>1, <2>3, <2>4, GoResolveMeans
<1>. QED  BY <1>2, <1>3 DEF IndexInv, FilesInv

LEMMA NamesDiffer ==
    ASSUME FilesInv, Plain,
           NEW i \in 1 .. Len(files), NEW n \in 1 .. Len(files[i].handlers),
           NEW j \in 1 .. Len(files), NEW k \in 0 .. Len(files[j].functions)
    PROVE  HandlerName(i, n) # Name(j, k)
<1>1. language = "ts" \/ language = "go"
  BY DEF FilesInv
<1>. QED  BY <1>1, TsNamesDiffer, GoNamesDiffer

LastHandler(S) == CHOOSE a \in S : \A b \in S : a[1] > b[1] \/ (a[1] = b[1] /\ a[2] >= b[2])

CallsOfLast(S, fs) == IF S = {} THEN <<>> ELSE In(LastHandler(S)[1], fs[LastHandler(S)[1]].handlers[LastHandler(S)[2]].calls)

OfLastHandler == \A q : HandlerCalls(q) = CallsOfLast(HandlersOf(q), files)

LEMMA HandlerCallsAre == OfLastHandler
  BY DEF OfLastHandler, HandlerCalls, HandlersOf, LastHandler, CallsOfLast

TsAnswer(call, syms, local, imports, binding, qnames, guess) ==
    LET head == call.callee[1]
        attribute == (IF binding.symbol # <<>> THEN binding.symbol ELSE binding.module) \o Tail(call.callee)
        bare == Len(call.callee) = 1
    IN  CASE call.computed -> Ts!Unresolved
          [] ~call.computed /\ head = "this" ->
               IF local # {} /\ syms[Ts!Latest(local)].cls # "" THEN Ts!Known(syms[Ts!Latest(local)].qname, "resolved")
               ELSE Ts!Unresolved
          [] ~call.computed /\ head # "this" /\ imports # {} /\ (bare \/ binding.module # <<>>) ->
               IF bare THEN IF binding.symbol # <<>> THEN Ts!Known(binding.symbol, "resolved") ELSE Ts!Unresolved
               ELSE IF attribute \in qnames THEN Ts!Known(attribute, "resolved") ELSE Ts!Unresolved
          [] OTHER ->
               IF bare /\ local # {} THEN Ts!Known(syms[Ts!Latest(local)].qname, "resolved") ELSE guess

TsLocal(i, call) == {n \in Ts!NamedSo(Ts!Last(call.callee)) : symbols[n].file = Ts!ModuleInfo(i)}
TsBound(i, call) ==
    {n \in 1 .. Len(files[Ts!ModuleInfo(i)].imports) : files[Ts!ModuleInfo(i)].imports[n].bound = call.callee[1]}
TsFoundBy(i, call) ==
    Ts!Binding(Ts!ModuleInfo(i), files[Ts!ModuleInfo(i)].imports[Ts!Latest(TsBound(i, call))])

TsAnswered ==
    \A i, call : Ts!Resolve(i, call) =
      TsAnswer(call, symbols, TsLocal(i, call), TsBound(i, call), TsFoundBy(i, call), Ts!QNames,
               Ts!Guess(Ts!Last(call.callee)))

LEMMA TsResolveIs == TsAnswered
  BY DEF TsAnswered, Ts!Resolve, TsAnswer, TsLocal, TsBound, TsFoundBy

LEMMA SameSearch ==
    IndexKept =>
      /\ files' = files /\ Indexed' = Indexed /\ HandlerNames' = HandlerNames /\ SinksFound' = SinksFound
      /\ \A q : HandlerCalls(q)' = HandlerCalls(q) /\ CallSitesIn(q)' = CallSitesIn(q)
      /\ \A c : CallTarget(c)' = CallTarget(c) /\ LooksLocal(c[2])' = LooksLocal(c[2])
<1>. SUFFICES ASSUME IndexKept
              PROVE  /\ files' = files /\ Indexed' = Indexed /\ HandlerNames' = HandlerNames /\ SinksFound' = SinksFound
                     /\ \A q : HandlerCalls(q)' = HandlerCalls(q) /\ CallSitesIn(q)' = CallSitesIn(q)
                     /\ \A c : CallTarget(c)' = CallTarget(c) /\ LooksLocal(c[2])' = LooksLocal(c[2])
  OBVIOUS
<1>1. files' = files /\ read' = read /\ symbols' = symbols /\ language' = language
  BY DEF IndexKept, files
<1>2. Indexed' = Indexed /\ Ts!Indexed' = Ts!Indexed /\ Go!Indexed' = Go!Indexed
  BY <1>1 DEF Indexed, Ts!Indexed, Go!Indexed
<1>3. \A i, n : HandlerName(i, n)' = HandlerName(i, n) /\ Name(i, n)' = Name(i, n)
  BY <1>1 DEF HandlerName, Ts!HandlerName, Go!HandlerName, Name, Ts!Name, Go!Name
<1>4. HandlerNames' = HandlerNames
  BY <1>1, <1>2, <1>3 DEF HandlerNames
<1>5. SinksFound' = SinksFound
  BY <1>1, <1>2 DEF SinksFound, Ts!Name, Go!Caller, Go!Name
<1>6. \A q : HandlerCalls(q)' = HandlerCalls(q)
  <2>2. OfLastHandler'
    BY HandlerCallsAre, PTL
  <2>3. ASSUME NEW q
        PROVE  HandlersOf(q)' = HandlersOf(q)
    BY <1>1, <1>2, <1>3 DEF HandlersOf
  <2>. QED  BY <1>1, <2>2, <2>3, HandlerCallsAre DEF OfLastHandler
<1>7. \A i, k : CallSites(i, k)' = CallSites(i, k)
  BY <1>1 DEF CallSites, Body
<1>8. \A q : CallSitesIn(q)' = CallSitesIn(q)
  BY <1>1, <1>2, <1>3, <1>7 DEF CallSitesIn
<1>9. \A c : CallTarget(c)' = CallTarget(c)
  <2>1. \A i, call : Ts!Resolve(i, call)' = Ts!Resolve(i, call)
    <3>1. \A i : Ts!ModuleInfo(i)' = Ts!ModuleInfo(i)
      BY <1>1, <1>2 DEF Ts!ModuleInfo
    <3>2. \A name : Ts!NamedSo(name)' = Ts!NamedSo(name)
      BY <1>1 DEF Ts!NamedSo
    <3>3. Ts!QNames' = Ts!QNames
      BY <1>1 DEF Ts!QNames
    <3>4. \A j, imp : Ts!ModuleOf(j, imp)' = Ts!ModuleOf(j, imp)
      BY <1>1, <1>2 DEF Ts!ModuleOf
    <3>5. \A m, name : Ts!SymbolIn(m, name)' = Ts!SymbolIn(m, name)
      BY <1>1, <3>2 DEF Ts!SymbolIn
    <3>6. \A j, imp : Ts!Binding(j, imp)' = Ts!Binding(j, imp)
      BY <3>4, <3>5 DEF Ts!Binding
    <3>7. \A name : Ts!Guess(name)' = Ts!Guess(name)
      BY <1>1, <3>2 DEF Ts!Guess
    <3>8. \A i, call : TsLocal(i, call)' = TsLocal(i, call) /\ TsBound(i, call)' = TsBound(i, call)
      BY <1>1, <3>1, <3>2 DEF TsLocal, TsBound
    <3>9. TsAnswered'
      BY TsResolveIs, PTL
    <3>10. \A i, call : TsFoundBy(i, call)' = TsFoundBy(i, call)
      BY <1>1, <3>1, <3>6, <3>8 DEF TsFoundBy
    <3>. QED  BY <1>1, <3>3, <3>7, <3>8, <3>9, <3>10, TsResolveIs DEF TsAnswered
  <2>2. \A i, call : Go!Resolve(i, call)' = Go!Resolve(i, call)
    BY <1>1, <1>2 DEF Go!Resolve, Go!ModuleInfo
  <2>. QED  BY <1>1, <2>1, <2>2 DEF CallTarget, Resolve
<1>10. \A c : LooksLocal(c[2])' = LooksLocal(c[2])
  BY <1>1 DEF LooksLocal
<1>. QED  BY <1>1, <1>2, <1>4, <1>5, <1>6, <1>8, <1>9, <1>10

-----------------------------------------------------------------------------
(* The search, over the names in S, the calls in E and what L has to       *)
(* disclose of each name: a path is a walk from one of the names in F.     *)
Walk(S, E, F, p) ==
    /\ p \in Seq(S) /\ Len(p) >= 1 /\ p[1] \in F
    /\ \A n \in 1 .. Len(p) - 1 : <<p[n], p[n + 1]>> \in E

(* A name is found within a length: visited, or at the end of a path still *)
(* to be looked at.                                                        *)
Found(t, l, dist, V, Q) ==
    \/ t \in V /\ dist[t] <= l
    \/ \E n \in 1 .. Len(Q) : Last(Q[n]) = t /\ Len(Q[n]) <= l

(* What the search from e keeps, as it goes breadth first: dist is the     *)
(* length of the path a name was visited by, R what is reachable, U what   *)
(* is disclosed.                                                           *)
Shortest(dist, V, Q) ==
    /\ dist \in [V -> Nat \ {0}]
    /\ \A p \in V : \A n \in 1 .. Len(Q) : dist[p] <= Len(Q[n])
    /\ \A m, n \in 1 .. Len(Q) : Len(Q[n]) <= Len(Q[m]) + 1 /\ (m <= n => Len(Q[m]) <= Len(Q[n]))

Settled(S, E, L, e, dist, V, Q, R, U) ==
    /\ V \subseteq S /\ V \subseteq R \cup {e}
    /\ Q \in Seq(Seq(S) \ {<<>>}) /\ \A n \in 1 .. Len(Q) : Last(Q[n]) \in R \cup {e}
    /\ Shortest(dist, V, Q)
    /\ Found(e, 1, dist, V, Q)
    /\ \A p \in V : dist[p] <= LanguageMaxDepth =>
         L[p] \subseteq U /\ \A t : <<p, t>> \in E => Found(t, dist[p] + 1, dist, V, Q)

Closed(S, E, L, e, R, U) == \E dist, V : Settled(S, E, L, e, dist, V, <<>>, R, U)

LEMMA SettledGrows ==
    ASSUME NEW S, NEW E, NEW L, NEW e, NEW dist, NEW V, NEW Q, NEW R, NEW U, NEW R1, NEW U1,
           R \subseteq R1, U \subseteq U1, Settled(S, E, L, e, dist, V, Q, R, U)
    PROVE  Settled(S, E, L, e, dist, V, Q, R1, U1)
<1>1. /\ V \subseteq S /\ V \subseteq R1 \cup {e}
      /\ Q \in Seq(Seq(S) \ {<<>>}) /\ \A n \in 1 .. Len(Q) : Last(Q[n]) \in R1 \cup {e}
  BY DEF Settled
<1>2. \A p \in V : dist[p] <= LanguageMaxDepth =>
         L[p] \subseteq U1 /\ \A t : <<p, t>> \in E => Found(t, dist[p] + 1, dist, V, Q)
  BY DEF Settled
<1>. QED  BY <1>1, <1>2 DEF Settled

LEMMA ClosedGrows ==
    ASSUME NEW S, NEW E, NEW L, NEW e, NEW R, NEW U, NEW R1, NEW U1,
           R \subseteq R1, U \subseteq U1, Closed(S, E, L, e, R, U)
    PROVE  Closed(S, E, L, e, R1, U1)
<1>1. PICK dist, V : Settled(S, E, L, e, dist, V, <<>>, R, U)
  BY DEF Closed
<1>2. Settled(S, E, L, e, dist, V, <<>>, R1, U1)
  BY <1>1, SettledGrows
<1>. QED  BY <1>2 DEF Closed

(* The search from one handler begins. *)
LEMMA SettledFirst ==
    ASSUME NEW S, NEW E, NEW L, NEW e \in S, NEW R, NEW U
    PROVE  Settled(S, E, L, e, <<>>, {}, << <<e>> >>, R, U)
<1>. DEFINE Q == << <<e>> >>
<1>1. <<e>> \in Seq(S) \ {<<>>} /\ Len(<<e>>) = 1 /\ Last(<<e>>) = e
  BY DEF Last
<1>2. Q \in Seq(Seq(S) \ {<<>>}) /\ Len(Q) = 1 /\ Q[1] = <<e>>
  BY <1>1
<1>3. <<>> \in [{} -> Nat \ {0}]
  OBVIOUS
<1>. HIDE DEF Q
<1>4. Shortest(<<>>, {}, Q) /\ Found(e, 1, <<>>, {}, Q)
  <2>1. \A n \in 1 .. Len(Q) : n = 1 /\ Len(Q[n]) = 1 /\ Last(Q[n]) = e
    BY <1>1, <1>2
  <2>2. \A m, n \in 1 .. Len(Q) : Len(Q[n]) <= Len(Q[m]) + 1 /\ (m <= n => Len(Q[m]) <= Len(Q[n]))
    BY <2>1
  <2>3. 1 \in 1 .. Len(Q)
    BY <1>2
  <2>4. Shortest(<<>>, {}, Q)
    BY <1>3, <2>2 DEF Shortest
  <2>. QED  BY <2>1, <2>3, <2>4 DEF Found
<1>5. \A n \in 1 .. Len(Q) : Last(Q[n]) \in R \cup {e}
  BY <1>1, <1>2
<1>. QED  BY <1>2, <1>4, <1>5 DEF Settled, Q

(* One path is taken off the queue: its end is visited, and if it was not  *)
(* before and is within the bound, the paths one call longer are put at    *)
(* the end of the queue.                                                   *)
LEMMA SettledVisit ==
    ASSUME NEW S, NEW E, NEW L, NEW e, NEW dist, NEW V, NEW Q, NEW R, NEW U, NEW R1, NEW U1, NEW more,
           Settled(S, E, L, e, dist, V, Q, R, U), Q # <<>>, R \subseteq R1, U \subseteq U1,
           more \in Seq(Seq(S) \ {<<>>}),
           \A n \in 1 .. Len(more) : Len(more[n]) = Len(Head(Q)) + 1 /\ Last(more[n]) \in R1,
           Last(Head(Q)) \notin V /\ Len(Head(Q)) <= LanguageMaxDepth =>
             /\ L[Last(Head(Q))] \subseteq U1
             /\ \A t : <<Last(Head(Q)), t>> \in E =>
                  t \in V \cup {Last(Head(Q))} \/ \E n \in 1 .. Len(more) : Last(more[n]) = t
    PROVE  \E d : Settled(S, E, L, e, d, V \cup {Last(Head(Q))}, Tail(Q) \o more, R1, U1)
<1>. DEFINE path == Head(Q)
            q == Last(path)
            l == Len(path)
            W == V \cup {q}
            P == Tail(Q) \o more
            d == [p \in W |-> IF p \in V THEN dist[p] ELSE l]
<1>1. Q \in Seq(Seq(S) \ {<<>>}) /\ Len(Q) \in Nat /\ Len(Q) >= 1 /\ path = Q[1] /\ path \in Seq(S) \ {<<>>}
  BY DEF Settled
<1>2. l \in Nat /\ l >= 1 /\ q = path[l] /\ q \in S
  BY <1>1 DEF Last
<1>3. /\ Tail(Q) \in Seq(Seq(S) \ {<<>>}) /\ Len(Tail(Q)) = Len(Q) - 1
      /\ \A n \in 1 .. Len(Q) - 1 : Tail(Q)[n] = Q[n + 1]
  BY <1>1
<1>4. P \in Seq(Seq(S) \ {<<>>}) /\ Len(P) = Len(Q) - 1 + Len(more) /\ Len(more) \in Nat
  BY <1>1, <1>3
<1>5. \A n \in 1 .. Len(Q) - 1 : P[n] = Q[n + 1]
  BY <1>1, <1>3
<1>6. \A n \in 1 .. Len(more) : P[Len(Q) - 1 + n] = more[n]
  BY <1>1, <1>3
<1>7. /\ V \subseteq S /\ V \subseteq R \cup {e} /\ \A n \in 1 .. Len(Q) : Last(Q[n]) \in R \cup {e}
      /\ dist \in [V -> Nat \ {0}]
      /\ \A p \in V : \A n \in 1 .. Len(Q) : dist[p] <= Len(Q[n])
      /\ \A m, n \in 1 .. Len(Q) : Len(Q[n]) <= Len(Q[m]) + 1 /\ (m <= n => Len(Q[m]) <= Len(Q[n]))
  BY DEF Settled, Shortest
<1>8. \A n \in 1 .. Len(Q) : Len(Q[n]) \in Nat
  BY <1>1
<1>. HIDE DEF path, q, l, P
<1>9. \A n \in 1 .. Len(P) : \/ n \in 1 .. Len(Q) - 1 /\ n + 1 \in 1 .. Len(Q) /\ P[n] = Q[n + 1]
                             \/ n - (Len(Q) - 1) \in 1 .. Len(more) /\ P[n] = more[n - (Len(Q) - 1)]
  BY <1>1, <1>4, <1>5, <1>6
<1>10. \A n \in 1 .. Len(P) : Len(P[n]) \in Nat /\ l <= Len(P[n]) /\ Len(P[n]) <= l + 1
  <2>1. ASSUME NEW n \in 1 .. Len(P) PROVE Len(P[n]) \in Nat /\ l <= Len(P[n]) /\ Len(P[n]) <= l + 1
    <3>1. CASE n + 1 \in 1 .. Len(Q) /\ P[n] = Q[n + 1]
      <4>1. 1 \in 1 .. Len(Q) /\ 1 <= n + 1 /\ l = Len(Q[1])
        BY <1>1 DEF l
      <4>. QED  BY <1>7, <1>8, <3>1, <4>1
    <3>2. CASE n - (Len(Q) - 1) \in 1 .. Len(more) /\ P[n] = more[n - (Len(Q) - 1)]
      <4>1. Len(P[n]) = l + 1
        BY <3>2 DEF l, path
      <4>. QED  BY <1>2, <4>1
    <3>. QED  BY <1>9, <2>1, <3>1, <3>2
  <2>. QED  BY <2>1
<1>11. Shortest(d, W, P)
  <2>1. d \in [W -> Nat \ {0}]
    BY <1>2, <1>7
  <2>2. \A p \in V : dist[p] \in Nat /\ dist[p] <= l
    BY <1>1, <1>7 DEF l
  <2>3. \A p \in W : d[p] \in Nat /\ d[p] <= l
    BY <1>2, <2>2
  <2>4. \A p \in W : \A n \in 1 .. Len(P) : d[p] <= Len(P[n])
    <3>. HIDE DEF d, W
    <3>. QED  BY <1>2, <1>10, <2>3
  <2>5. \A m, n \in 1 .. Len(P) : Len(P[n]) <= Len(P[m]) + 1
    BY <1>2, <1>10
  <2>6. ASSUME NEW m \in 1 .. Len(P), NEW n \in 1 .. Len(P), m <= n PROVE Len(P[m]) <= Len(P[n])
    <3>1. CASE n \in 1 .. Len(Q) - 1
      <4>1. m + 1 \in 1 .. Len(Q) /\ n + 1 \in 1 .. Len(Q) /\ m + 1 <= n + 1 /\ m \in 1 .. Len(Q) - 1
        BY <1>1, <2>6, <3>1
      <4>2. P[m] = Q[m + 1] /\ P[n] = Q[n + 1]
        BY <1>5, <3>1, <4>1
      <4>. QED  BY <1>7, <4>1, <4>2
    <3>2. CASE n \notin 1 .. Len(Q) - 1
      <4>1. n - (Len(Q) - 1) \in 1 .. Len(more) /\ P[n] = more[n - (Len(Q) - 1)]
        BY <1>9, <3>2
      <4>2. Len(P[n]) = l + 1
        BY <4>1 DEF l, path
      <4>. QED  BY <1>10, <4>2
    <3>. QED  BY <3>1, <3>2
  <2>. HIDE DEF d, W
  <2>. QED  BY <2>1, <2>4, <2>5, <2>6 DEF Shortest
<1>12. ASSUME NEW t, NEW k \in Nat, Found(t, k, dist, V, Q)
       PROVE  Found(t, k, d, W, P)
  <2>1. CASE t \in V /\ dist[t] <= k
    BY <2>1 DEF Found
  <2>2. CASE \E n \in 1 .. Len(Q) : Last(Q[n]) = t /\ Len(Q[n]) <= k
    <3>1. PICK n \in 1 .. Len(Q) : Last(Q[n]) = t /\ Len(Q[n]) <= k
      BY <2>2
    <3>2. CASE n = 1
      <4>1. t = q /\ l <= k
        BY <1>1, <3>1, <3>2 DEF q, l
      <4>2. \A p \in V : dist[p] \in Nat /\ dist[p] <= l
        BY <1>1, <1>7 DEF l
      <4>3. t \in W /\ d[t] <= k
        BY <1>2, <4>1, <4>2
      <4>. QED  BY <4>3 DEF Found
    <3>3. CASE n # 1
      <4>1. n - 1 \in 1 .. Len(Q) - 1 /\ (n - 1) + 1 = n
        BY <1>1, <3>3
      <4>2. P[n - 1] = Q[n] /\ n - 1 \in 1 .. Len(P)
        BY <1>4, <1>5, <4>1
      <4>. QED  BY <3>1, <4>2 DEF Found
    <3>. QED  BY <3>2, <3>3
  <2>. QED  BY <1>12, <2>1, <2>2 DEF Found
<1>13. Found(e, 1, d, W, P)
  BY <1>12 DEF Settled
<1>14. ASSUME NEW p \in W, d[p] <= LanguageMaxDepth
       PROVE  L[p] \subseteq U1 /\ \A t : <<p, t>> \in E => Found(t, d[p] + 1, d, W, P)
  <2>1. CASE p \in V
    <3>1. d[p] = dist[p] /\ dist[p] \in Nat
      BY <1>7, <2>1
    <3>2. L[p] \subseteq U /\ \A t : <<p, t>> \in E => Found(t, dist[p] + 1, dist, V, Q)
      BY <1>14, <2>1, <3>1 DEF Settled
    <3>3. \A t : <<p, t>> \in E => Found(t, dist[p] + 1, d, W, P)
      <4>1. dist[p] + 1 \in Nat
        BY <3>1
      <4>. HIDE DEF d, W
      <4>. QED  BY <1>12, <3>2, <4>1
    <3>. QED  BY <3>1, <3>2, <3>3
  <2>2. CASE p \notin V
    <3>1. p = q /\ d[p] = l
      BY <2>2
    <3>2. /\ L[q] \subseteq U1
          /\ \A t : <<q, t>> \in E => t \in W \/ \E n \in 1 .. Len(more) : Last(more[n]) = t
      BY <1>14, <2>2, <3>1 DEF q, l, path
    <3>3. ASSUME NEW t \in W PROVE Found(t, l + 1, d, W, P)
      <4>1. \A x \in V : dist[x] \in Nat /\ dist[x] <= l
        BY <1>1, <1>7 DEF l
      <4>2. d[t] <= l + 1
        BY <1>2, <4>1
      <4>. QED  BY <4>2 DEF Found
    <3>4. ASSUME NEW t, NEW n \in 1 .. Len(more), Last(more[n]) = t PROVE Found(t, l + 1, d, W, P)
      <4>1. Len(Q) - 1 + n \in 1 .. Len(P) /\ P[Len(Q) - 1 + n] = more[n]
        BY <1>1, <1>4, <1>6
      <4>2. Len(more[n]) = l + 1
        BY DEF l, path
      <4>3. Len(P[Len(Q) - 1 + n]) <= l + 1
        BY <1>2, <4>1, <4>2
      <4>. QED  BY <3>4, <4>1, <4>3 DEF Found
    <3>. HIDE DEF d, W
    <3>. QED  BY <3>1, <3>2, <3>3, <3>4
  <2>. QED  BY <2>1, <2>2
<1>15. W \subseteq S /\ W \subseteq R1 \cup {e}
  <2>1. q \in R \cup {e}
    BY <1>1, <1>7 DEF q
  <2>. QED  BY <1>2, <1>7, <2>1
<1>16. \A n \in 1 .. Len(P) : Last(P[n]) \in R1 \cup {e}
  BY <1>7, <1>9
<1>. HIDE DEF d, W
<1>17. Settled(S, E, L, e, d, W, P, R1, U1)
  BY <1>4, <1>11, <1>13, <1>14, <1>15, <1>16 DEF Settled
<1>. QED  BY <1>17 DEF W, P, q, path

(* The names the search goes through, the calls between them that resolve, *)
(* and those of each that are disclosed.                                   *)
AllCalls(q) == HandlerCalls(q) \o CallSitesIn(q)
Stops == Elements(HandlerNames) \cup {CallTarget(c).qname : c \in Site}
Steps ==
    {e \in Stops \X Stops :
       \E c \in Elements(AllCalls(e[1])) : CallTarget(c).certainty # "unresolved" /\ CallTarget(c).qname = e[2]}
Disclosure(q) ==
    {[language |-> language, caller |-> q, file |-> c[1], call |-> c[2]] :
       c \in {d \in Elements(AllCalls(q)) : CallTarget(d).certainty = "unresolved" /\ LooksLocal(d[2])}}
ToDisclose == [q \in Stops |-> Disclosure(q)]

LEMMA IndexAtStart == ScanInit => IndexInv
<1>. SUFFICES ASSUME ScanInit PROVE IndexInv
  OBVIOUS
<1>1. program \in Programs /\ beside \in Beside(program)
  BY DEF ScanInit
<1>2. language = "ts" /\ stage = "wait" /\ read = 0 /\ symbols = <<>>
  BY DEF ScanInit
<1>3. files = beside.ts
  BY <1>2 DEF files
<1>4. Len(files) \in Nat
  BY <1>1, <1>3, BesideAssumption
<1>. QED  BY <1>1, <1>2, <1>4, EmptyIndex DEF IndexInv, FilesInv, SymbolsInv

LEMMA AllCallsFacts ==
    ASSUME FilesInv, NEW q
    PROVE  /\ AllCalls(q) \in Seq(Site)
           /\ Elements(AllCalls(q)) = Elements(HandlerCalls(q)) \cup Elements(CallSitesIn(q))
<1>1. HandlerCalls(q) \in Seq(Site) /\ CallSitesIn(q) \in Seq(Site)
  BY HandlerCallsFacts, CallSitesInFacts
<1>. QED  BY <1>1, ConcatElements DEF AllCalls

LEMMA HandlerNamesFacts ==
    ASSUME FilesInv
    PROVE  /\ HandlerNames \in Seq(Elements(HandlerNames)) /\ Len(HandlerNames) \in Nat
           /\ \A q : q \in Elements(HandlerNames) <=>
                \E i \in Indexed : \E n \in 1 .. Len(files[i].handlers) : q = HandlerName(i, n)
<1>. DEFINE T == {HandlerName(a[1], a[2]) : a \in Nat \X Nat}
            Row(i) == IF i \in Indexed THEN [n \in 1 .. Len(files[i].handlers) |-> HandlerName(i, n)] ELSE <<>>
            rows == [i \in 1 .. read |-> Row(i)]
<1>1. read \in Nat /\ \A i \in 1 .. read : i \in Nat /\ Len(files[i].handlers) \in Nat
  BY FileFacts, FileShape DEF FilesInv
<1>2. ASSUME NEW i \in 1 .. read
      PROVE  /\ Row(i) \in Seq(T)
             /\ Elements(Row(i)) = {q \in T : i \in Indexed /\ \E n \in 1 .. Len(files[i].handlers) : q = HandlerName(i, n)}
  <2>. DEFINE m == Len(files[i].handlers)
              row == [n \in 1 .. m |-> HandlerName(i, n)]
  <2>1. m \in Nat /\ i \in Nat
    BY <1>1
  <2>2. \A n \in 1 .. m : HandlerName(i, n) \in T
    <3>1. \A n \in 1 .. m : <<i, n>> \in Nat \X Nat /\ <<i, n>>[1] = i /\ <<i, n>>[2] = n
      BY <2>1
    <3>. HIDE DEF m
    <3>. QED  BY <3>1
  <2>3. Elements(<<>>) = {} /\ <<>> \in Seq(T)
    BY DEF Elements
  <2>. HIDE DEF m, T
  <2>4. row \in Seq(T) /\ Elements(row) = {q \in T : \E n \in 1 .. m : q = HandlerName(i, n)}
    BY <2>1, <2>2 DEF Elements
  <2>5. Row(i) = IF i \in Indexed THEN row ELSE <<>>
    BY DEF m
  <2>. HIDE DEF Row, row
  <2>. QED  BY <2>3, <2>4, <2>5 DEF m
<1>3. FlattenSeq(rows) \in Seq(T) /\ Elements(FlattenSeq(rows)) = UNION {Elements(Row(i)) : i \in 1 .. read}
  <2>. DEFINE m == read
  <2>. HIDE DEF T, Row
  <2>1. m \in Nat /\ DOMAIN rows = 1 .. m /\ rows = [i \in 1 .. m |-> rows[i]] /\ \A i \in 1 .. m : rows[i] = Row(i)
    BY <1>1
  <2>2. {Elements(rows[i]) : i \in 1 .. m} = {Elements(Row(i)) : i \in 1 .. read} /\ \A i \in 1 .. m : rows[i] \in Seq(T)
    BY <1>2, <2>1
  <2>. HIDE DEF rows, m
  <2>3. FlattenSeq(rows) \in Seq(T) /\ Elements(FlattenSeq(rows)) = UNION {Elements(rows[i]) : i \in 1 .. m}
    <3>1. m \in Nat /\ DOMAIN rows = 1 .. m /\ rows = [i \in 1 .. m |-> rows[i]]
      BY <2>1
    <3>2. \A i \in 1 .. m : rows[i] \in Seq(T)
      BY <2>2
    <3>. QED  BY ONLY <3>1, <3>2, RowsFlattened
  <2>. QED  BY ONLY <2>2, <2>3
<1>4. HandlerNames = FlattenSeq(rows)
  BY DEF HandlerNames
<1>. HIDE DEF rows, Row
<1>5. ASSUME NEW q
      PROVE  q \in Elements(HandlerNames) <=>
               \E i \in Indexed : \E n \in 1 .. Len(files[i].handlers) : q = HandlerName(i, n)
  <2>1. ASSUME NEW i \in Indexed, NEW n \in 1 .. Len(files[i].handlers) PROVE i \in 1 .. read /\ HandlerName(i, n) \in T
    <3>1. i \in 1 .. read
      BY DEF Indexed
    <3>2. <<i, n>> \in Nat \X Nat /\ <<i, n>>[1] = i /\ <<i, n>>[2] = n
      BY <1>1, <3>1
    <3>. QED  BY <3>1, <3>2
  <2>. HIDE DEF T
  <2>. QED  BY <1>2, <1>3, <1>4, <2>1
<1>6. HandlerNames \in Seq(Elements(HandlerNames)) /\ Len(HandlerNames) \in Nat
  <2>. DEFINE h == HandlerNames
  <2>1. h \in Seq(T)
    BY <1>3, <1>4
  <2>. HIDE DEF h, T
  <2>2. h \in Seq(Elements(h)) /\ Len(h) \in Nat
    BY <2>1 DEF Elements
  <2>. QED  BY <2>2 DEF h
<1>. QED  BY <1>5, <1>6

LEMMA SearchKept ==
    ASSUME IndexKept
    PROVE  /\ HandlerNames' = HandlerNames /\ SinksFound' = SinksFound
           /\ Stops' = Stops /\ Steps' = Steps /\ ToDisclose' = ToDisclose
<1>1. /\ HandlerNames' = HandlerNames /\ SinksFound' = SinksFound
      /\ \A q : HandlerCalls(q)' = HandlerCalls(q) /\ CallSitesIn(q)' = CallSitesIn(q)
      /\ \A c : CallTarget(c)' = CallTarget(c) /\ LooksLocal(c[2])' = LooksLocal(c[2])
  BY SameSearch
<1>2. \A q : AllCalls(q)' = AllCalls(q)
  BY <1>1 DEF AllCalls
<1>3. Stops' = Stops
  BY <1>1 DEF Stops
<1>4. Steps' = Steps
  BY <1>1, <1>2, <1>3 DEF Steps
<1>5. language' = language
  BY DEF IndexKept
<1>6. \A q : Disclosure(q)' = Disclosure(q)
  BY <1>1, <1>2, <1>5 DEF Disclosure
<1>7. ToDisclose' = ToDisclose
  BY <1>3, <1>6 DEF ToDisclose
<1>. QED  BY <1>1, <1>3, <1>4, <1>7

(* What holds of the search: the paths are walks, and every handler was    *)
(* searched from, but the one the search is at.                            *)
Walks(p) == Walk(Stops, Steps, Elements(HandlerNames), p)
ClosedFrom(q) == Closed(Stops, Steps, ToDisclose, q, DOMAIN reachable, unfollowed)

Idle == entry = 0 /\ queue = <<>> /\ visited = {} /\ reachable = <<>>

PathsInv ==
    /\ \A n \in 1 .. Len(queue) : Walks(queue[n])
    /\ \A q \in DOMAIN reachable : Walks(reachable[q]) /\ Last(reachable[q]) = q

ClosedInv ==
    /\ \A k \in 1 .. entry - 1 : ClosedFrom(entryNames[k])
    /\ entry = 0 => queue = <<>>
    /\ entry # 0 => \E dist : Settled(Stops, Steps, ToDisclose, entryNames[entry], dist, visited, queue,
                                      DOMAIN reachable, unfollowed)

SearchInv ==
    /\ stage \in {"wait", "index", "discover"} => Idle
    /\ stage \in {"search", "report"} =>
         /\ entryNames = HandlerNames /\ sinksByFunction = SinksFound
         /\ entry \in 0 .. Len(entryNames) /\ queue \in Seq(Seq(Stops) \ {<<>>})
         /\ PathsInv /\ ClosedInv
    /\ stage = "report" => queue = <<>> /\ entry = Len(entryNames)

SearchSame == IndexKept /\ UNCHANGED <<sinksByFunction, entryNames, searchVars>>

LEMMA SearchShapes ==
    [ScanNext]_scanVars =>
      \/ SearchSame /\ stage' = stage
      \/ /\ stage' \notin {"search", "report"}
         /\ stage' \in {"wait", "index", "discover"} =>
              \/ UNCHANGED <<entry, queue, visited, reachable>> /\ stage \in {"wait", "index", "discover"}
              \/ Idle'
      \/ DiscoverHandlers
      \/ NextEntry
      \/ VisitPath
      \/ StartReport
<1>. DEFINE Quiet == \/ SearchSame /\ stage' = stage
                     \/ /\ stage' \notin {"search", "report"}
                        /\ stage' \in {"wait", "index", "discover"} =>
                             \/ UNCHANGED <<entry, queue, visited, reachable>> /\ stage \in {"wait", "index", "discover"}
                             \/ Idle'
<1>. SUFFICES ASSUME [ScanNext]_scanVars, ~DiscoverHandlers, ~NextEntry, ~VisitPath, ~StartReport PROVE Quiet
  OBVIOUS
<1>. USE DEF IndexKept, SearchSame, vars, workVars, resultVars, indexVars, languageVars, registryVars, searchVars, reportVars
<1>1. CASE UNCHANGED scanVars
  BY <1>1 DEF scanVars
<1>2. CASE PythonLayer /\ UNCHANGED <<beside, languageVars>>
  <2>1. program' = program
    BY <1>2 DEF PythonLayer, IndexFile, FinishIndex, Fail, BuildGraph, DiscoverEntrypoints, Reach,
                Seed, AnalyseFunction, FinishAnalysis, AddGuardEvidence, Merge,
                AddFile, SkipFile, Finalize
  <2>. QED  BY <1>2, <2>1
<1>3. CASE LanguageLayer
  <2>1. Onward => stage' = "merge" \/ (stage' = "index" /\ Idle')
    BY DEF Onward, ForgetSearch, Idle
  <2>2. CASE NoSymbols \/ NoHandlers \/ FinishReport
    BY <2>1, <2>2 DEF NoSymbols, NoHandlers, FinishReport
  <2>3. CASE FinalizeLanguage \/ StartLayer \/ AddLanguageFile
    BY <2>3 DEF FinalizeLanguage, StartLayer, AddLanguageFile
  <2>4. CASE FailLayer \/ MergeFindings
    BY <2>4 DEF FailLayer, MergeFindings
  <2>5. CASE ReportSink
    BY <2>5 DEF ReportSink
  <2>. QED  BY <1>3, <2>2, <2>3, <2>4, <2>5 DEF LanguageLayer
<1>4. CASE ScanAgain
  BY <1>4 DEF ScanAgain, ForgetSearch, Idle
<1>. QED  BY <1>1, <1>2, <1>3, <1>4 DEF ScanNext

LEMMA SearchFirst == IndexInv /\ SearchInv /\ DiscoverHandlers => SearchInv'
<1>. SUFFICES ASSUME IndexInv, SearchInv, DiscoverHandlers PROVE SearchInv'
  OBVIOUS
<1>1. /\ stage = "discover" /\ stage' = "search" /\ sinksByFunction' = SinksFound /\ entryNames' = HandlerNames
      /\ IndexKept /\ UNCHANGED <<entry, queue, visited, reachable>>
  BY DEF DiscoverHandlers, IndexKept, searchVars, registryVars, vars, indexVars
<1>2. entry' = 0 /\ queue' = <<>> /\ reachable' = <<>>
  BY <1>1 DEF SearchInv, Idle
<1>3. HandlerNames' = HandlerNames /\ SinksFound' = SinksFound /\ Len(HandlerNames) \in Nat
  BY <1>1, SearchKept, HandlerNamesFacts DEF IndexInv
<1>4. DOMAIN reachable' = {} /\ Len(queue') = 0 /\ queue' \in Seq(Seq(Stops') \ {<<>>})
  BY <1>2
<1>5. PathsInv'
  BY <1>4 DEF PathsInv
<1>6. ClosedInv'
  BY <1>2 DEF ClosedInv
<1>. QED  BY <1>1, <1>2, <1>3, <1>4, <1>5, <1>6 DEF SearchInv

LEMMA SearchNext == IndexInv /\ SearchInv /\ NextEntry => SearchInv'
<1>. SUFFICES ASSUME IndexInv, SearchInv, NextEntry PROVE SearchInv'
  OBVIOUS
<1>. DEFINE e == entry + 1
            q == entryNames[e]
<1>1. /\ stage = "search" /\ stage' = stage /\ queue = <<>> /\ entry < Len(entryNames)
      /\ entry' = e /\ queue' = << <<entryNames[entry']>> >> /\ visited' = {}
      /\ IndexKept /\ UNCHANGED <<sinksByFunction, entryNames, reachable, unfollowed>>
  BY DEF NextEntry, IndexKept, registryVars, vars, indexVars
<1>2. /\ HandlerNames' = HandlerNames /\ SinksFound' = SinksFound
      /\ Stops' = Stops /\ Steps' = Steps /\ ToDisclose' = ToDisclose
  BY <1>1, SearchKept
<1>3. /\ entryNames = HandlerNames /\ sinksByFunction = SinksFound /\ entry \in 0 .. Len(entryNames)
      /\ PathsInv /\ ClosedInv
  BY <1>1 DEF SearchInv
<1>4. entryNames \in Seq(Elements(HandlerNames)) /\ Len(entryNames) \in Nat
  BY <1>3, HandlerNamesFacts DEF IndexInv
<1>5. e \in 1 .. Len(entryNames) /\ q \in Elements(HandlerNames) /\ q \in Stops
  BY <1>1, <1>3, <1>4 DEF Stops
<1>6. \A p : Walks(p)' <=> Walks(p)
  BY <1>2 DEF Walks
<1>7. \A p : ClosedFrom(p)' <=> ClosedFrom(p)
  BY <1>1, <1>2 DEF ClosedFrom
<1>8. Walks(<<q>>)
  <2>. HIDE DEF q
  <2>. QED  BY <1>5 DEF Walks, Walk
<1>9. queue' = << <<q>> >> /\ queue' \in Seq(Seq(Stops) \ {<<>>}) /\ Len(queue') = 1 /\ queue'[1] = <<q>>
  <2>1. queue' = << <<q>> >>
    BY <1>1
  <2>. HIDE DEF q
  <2>. QED  BY <1>5, <2>1
<1>10. PathsInv'
  BY <1>1, <1>3, <1>6, <1>8, <1>9 DEF PathsInv
<1>11. \A k \in 1 .. e - 1 : ClosedFrom(entryNames[k])
  <2>1. ASSUME NEW k \in 1 .. e - 1 PROVE ClosedFrom(entryNames[k])
    <3>1. CASE k \in 1 .. entry - 1
      BY <1>3, <3>1 DEF ClosedInv
    <3>2. CASE k \notin 1 .. entry - 1
      <4>1. k = entry /\ entry # 0
        BY <1>3, <1>4, <3>2
      <4>2. PICK dist : Settled(Stops, Steps, ToDisclose, entryNames[entry], dist, visited, queue,
                                DOMAIN reachable, unfollowed)
        BY <1>3, <4>1 DEF ClosedInv
      <4>. QED  BY <1>1, <4>1, <4>2 DEF ClosedFrom, Closed
    <3>. QED  BY <3>1, <3>2
  <2>. QED  BY <2>1
<1>12. Settled(Stops, Steps, ToDisclose, q, <<>>, {}, << <<q>> >>, DOMAIN reachable, unfollowed)
  <2>. HIDE DEF q
  <2>. QED  BY <1>5, SettledFirst
<1>13. ClosedInv'
  <2>1. \A k \in 1 .. entry' - 1 : ClosedFrom(entryNames[k])'
    BY <1>1, <1>7, <1>11
  <2>2. entry' # 0 /\ entryNames'[entry'] = q
    BY <1>1, <1>4, <1>5
  <2>. HIDE DEF q, e
  <2>3. Settled(Stops, Steps, ToDisclose, entryNames[entry], <<>>, visited, queue, DOMAIN reachable, unfollowed)'
    BY <1>1, <1>2, <1>9, <1>12, <2>2
  <2>4. ClosedFrom(entryNames[1])' <=> ClosedFrom(entryNames[1])
    BY <1>1, <1>7
  <2>. QED  BY <2>1, <2>2, <2>3 DEF ClosedInv
<1>. QED  BY <1>1, <1>2, <1>3, <1>5, <1>9, <1>10, <1>13 DEF SearchInv

LEMMA SearchReport == IndexInv /\ SearchInv /\ StartReport => SearchInv'
<1>. SUFFICES ASSUME IndexInv, SearchInv, StartReport PROVE SearchInv'
  OBVIOUS
<1>1. /\ stage = "search" /\ stage' = "report" /\ queue = <<>> /\ entry = Len(entryNames)
      /\ SearchSame
  BY DEF StartReport, SearchSame, IndexKept, registryVars, searchVars, vars, indexVars
<1>2. /\ HandlerNames' = HandlerNames /\ SinksFound' = SinksFound
      /\ Stops' = Stops /\ Steps' = Steps /\ ToDisclose' = ToDisclose
  BY <1>1, SearchKept DEF SearchSame
<1>3. UNCHANGED <<sinksByFunction, entryNames, entry, queue, visited, reachable, unfollowed>>
  BY <1>1 DEF SearchSame, searchVars
<1>4. PathsInv => PathsInv'
  BY <1>2, <1>3 DEF PathsInv, Walks
<1>5. ClosedInv => ClosedInv'
  BY <1>2, <1>3 DEF ClosedInv, ClosedFrom
<1>. QED  BY <1>1, <1>2, <1>3, <1>4, <1>5 DEF SearchInv

LEMMA SearchSameStep == IndexInv /\ SearchInv /\ SearchSame /\ stage' = stage => SearchInv'
<1>. SUFFICES ASSUME IndexInv, SearchInv, SearchSame, stage' = stage PROVE SearchInv'
  OBVIOUS
<1>1. /\ HandlerNames' = HandlerNames /\ SinksFound' = SinksFound
      /\ Stops' = Stops /\ Steps' = Steps /\ ToDisclose' = ToDisclose
  BY SearchKept DEF SearchSame
<1>2. UNCHANGED <<sinksByFunction, entryNames, entry, queue, visited, reachable, unfollowed>>
  BY DEF SearchSame, searchVars
<1>3. PathsInv => PathsInv'
  BY <1>1, <1>2 DEF PathsInv, Walks
<1>4. ClosedInv => ClosedInv'
  BY <1>1, <1>2 DEF ClosedInv, ClosedFrom
<1>. QED  BY <1>1, <1>2, <1>3, <1>4 DEF SearchInv, Idle

LEMMA SearchVisit == IndexInv /\ SearchInv /\ VisitPath => SearchInv'
<1>. SUFFICES ASSUME IndexInv, SearchInv, VisitPath PROVE SearchInv'
  OBVIOUS
<1>. DEFINE path == Head(queue)
            q == Last(path)
            l == Len(path)
            calls == IF q \in visited \/ l > LanguageMaxDepth THEN <<>> ELSE AllCalls(q)
            onward(c) == CallTarget(c).certainty # "unresolved" /\ CallTarget(c).qname \notin visited \cup {q}
            new == {CallTarget(c).qname : c \in {d \in Elements(calls) : onward(d)}}
            nearer == {t \in new : t \in DOMAIN reachable => l + 1 < Len(reachable[t])}
            rows == [n \in 1 .. Len(calls) |->
                       IF onward(calls[n]) THEN <<Append(path, CallTarget(calls[n]).qname)>> ELSE <<>>]
            more == FlattenSeq(rows)
            S == Stops
            F == Elements(HandlerNames)
<1>1. /\ stage = "search" /\ stage' = stage /\ queue # <<>>
      /\ IndexKept /\ UNCHANGED <<sinksByFunction, entryNames, entry>>
  BY DEF VisitPath, IndexKept, registryVars, vars, indexVars
<1>2. /\ visited' = visited \cup {q}
      /\ queue' = Tail(queue) \o more
      /\ reachable' = [t \in DOMAIN reachable \cup new |-> IF t \in nearer THEN Append(path, t) ELSE reachable[t]]
      /\ unfollowed' = unfollowed \cup
           {[language |-> language, caller |-> q, file |-> c[1], call |-> c[2]] :
              c \in {d \in Elements(calls) : CallTarget(d).certainty = "unresolved" /\ LooksLocal(d[2])}}
  BY ToSetElements DEF VisitPath, AllCalls, CallTarget
<1>3. /\ HandlerNames' = HandlerNames /\ SinksFound' = SinksFound
      /\ Stops' = Stops /\ Steps' = Steps /\ ToDisclose' = ToDisclose
  BY <1>1, SearchKept
<1>4. /\ entryNames = HandlerNames /\ sinksByFunction = SinksFound /\ entry \in 0 .. Len(entryNames)
      /\ queue \in Seq(Seq(S) \ {<<>>})
      /\ PathsInv /\ ClosedInv
  BY <1>1 DEF SearchInv
<1>5. /\ path = queue[1] /\ Len(queue) \in Nat /\ Len(queue) >= 1 /\ path \in Seq(S) \ {<<>>}
      /\ Tail(queue) \in Seq(Seq(S) \ {<<>>}) /\ Len(Tail(queue)) = Len(queue) - 1
      /\ \A n \in 1 .. Len(queue) - 1 : Tail(queue)[n] = queue[n + 1]
  <2>. HIDE DEF S
  <2>. QED  BY <1>1, <1>4
<1>6. l \in Nat /\ l >= 1 /\ q = path[l] /\ q \in S
  <2>. HIDE DEF S, path
  <2>. QED  BY <1>5 DEF Last
<1>7. Walks(path)
  BY <1>4, <1>5 DEF PathsInv
<1>8. calls \in Seq(Site) /\ (calls # <<>> => calls = AllCalls(q)) /\ Elements(<<>>) = {}
  <2>1. AllCalls(q) \in Seq(Site)
    BY AllCallsFacts DEF IndexInv
  <2>2. <<>> \in Seq(Site) /\ Elements(<<>>) = {}
    BY DEF Elements
  <2>. HIDE DEF q
  <2>. QED  BY <2>1, <2>2
<1>9. ASSUME NEW c \in Elements(calls), onward(c)
      PROVE  CallTarget(c).qname \in S /\ <<q, CallTarget(c).qname>> \in Steps
  <2>1. c \in Elements(AllCalls(q)) /\ c \in Site
    <3>1. calls = AllCalls(q)
      <4>. HIDE DEF calls
      <4>. QED  BY <1>8, <1>9
    <3>. QED  BY <1>8, <1>9, <3>1, InElements
  <2>2. CallTarget(c).qname \in Stops
    BY <2>1 DEF Stops
  <2>. HIDE DEF q
  <2>. QED  BY <1>6, <1>9, <2>1, <2>2 DEF Steps
<1>10. new \subseteq S /\ \A t \in new : <<q, t>> \in Steps
  <2>. HIDE DEF calls, q, onward, S
  <2>. QED  BY <1>9
<1>11. ASSUME NEW t, t \in S, <<q, t>> \in Steps
       PROVE  /\ Walks(Append(path, t)) /\ Last(Append(path, t)) = t /\ Len(Append(path, t)) = l + 1
              /\ Append(path, t) \in Seq(S) \ {<<>>}
  <2>. HIDE DEF path, S
  <2>1. /\ path \in Seq(S) /\ path[1] \in F /\ \A n \in 1 .. l - 1 : <<path[n], path[n + 1]>> \in Steps
    BY <1>7 DEF Walks, Walk, S
  <2>. DEFINE p == Append(path, t)
  <2>2. p \in Seq(S) /\ Len(p) = l + 1 /\ p[l + 1] = t /\ \A n \in 1 .. l : p[n] = path[n]
    BY <1>6, <1>11, <2>1
  <2>. HIDE DEF p, l
  <2>3. \A n \in 1 .. Len(p) - 1 : <<p[n], p[n + 1]>> \in Steps
    <3>1. ASSUME NEW n \in 1 .. Len(p) - 1 PROVE <<p[n], p[n + 1]>> \in Steps
      <4>1. CASE n = l
        BY <1>6, <1>11, <2>2, <4>1
      <4>2. CASE n # l
        <5>1. n \in 1 .. l - 1 /\ n \in 1 .. l /\ n + 1 \in 1 .. l
          BY <1>6, <2>2, <4>2
        <5>. QED  BY <2>1, <2>2, <5>1
      <4>. QED  BY <4>1, <4>2
    <3>. QED  BY <3>1
  <2>4. Last(p) = t /\ p # <<>> /\ p[1] \in F
    BY <1>6, <2>1, <2>2 DEF Last
  <2>5. Walks(p)
    BY <1>6, <2>2, <2>3, <2>4 DEF Walks, Walk, S
  <2>. QED  BY <2>2, <2>4, <2>5 DEF p
<1>12. /\ more \in Seq(Seq(S) \ {<<>>})
       /\ \A p : p \in Elements(more) <=> \E t \in new : p = Append(path, t)
  <2>. DEFINE T == Seq(S) \ {<<>>}
              m == Len(calls)
  <2>1. m \in Nat /\ DOMAIN rows = 1 .. m /\ rows = [n \in 1 .. m |-> rows[n]]
    <3>. HIDE DEF calls, onward, path
    <3>. QED  BY <1>8
  <2>2. \A n \in 1 .. m : calls[n] \in Elements(calls)
    <3>. HIDE DEF calls
    <3>. QED  BY <1>8, InElements
  <2>3. ASSUME NEW n \in 1 .. m
        PROVE  /\ rows[n] = IF onward(calls[n]) THEN <<Append(path, CallTarget(calls[n]).qname)>> ELSE <<>>
               /\ rows[n] \in Seq(T)
    <3>1. rows[n] = IF onward(calls[n]) THEN <<Append(path, CallTarget(calls[n]).qname)>> ELSE <<>>
      <4>. HIDE DEF calls, onward, path
      <4>. QED  OBVIOUS
    <3>2. onward(calls[n]) => Append(path, CallTarget(calls[n]).qname) \in T
      <4>1. onward(calls[n]) => CallTarget(calls[n]).qname \in S /\ <<q, CallTarget(calls[n]).qname>> \in Steps
        <5>. HIDE DEF calls, onward, q, S
        <5>. QED  BY <1>9, <2>2
      <4>. HIDE DEF calls, onward, path, S, q
      <4>. QED  BY <1>11, <4>1
    <3>. HIDE DEF calls, onward, path, T, rows
    <3>. QED  BY <3>1, <3>2
  <2>4. more \in Seq(T) /\ Elements(more) = UNION {Elements(rows[n]) : n \in 1 .. m}
    <3>. HIDE DEF calls, onward, path, T, rows, m
    <3>. QED  BY <2>1, <2>3, RowsFlattened
  <2>5. ASSUME NEW p PROVE p \in Elements(more) <=> \E t \in new : p = Append(path, t)
    <3>1. ASSUME NEW x PROVE Elements(<<x>>) = {x}
      BY DEF Elements
    <3>2. p \in Elements(more) <=> \E n \in 1 .. m : onward(calls[n]) /\ p = Append(path, CallTarget(calls[n]).qname)
      <4>1. \A n \in 1 .. m : p \in Elements(rows[n]) <=> onward(calls[n]) /\ p = Append(path, CallTarget(calls[n]).qname)
        <5>. HIDE DEF calls, onward, path, T, rows, m
        <5>. QED  BY <1>8, <2>3, <3>1, ZenonT(30)
      <4>. HIDE DEF calls, onward, path, T, rows, m, more
      <4>. QED  BY <2>4, <4>1
    <3>3. \A t : t \in new <=> \E n \in 1 .. m : onward(calls[n]) /\ t = CallTarget(calls[n]).qname
      <4>1. \A c : c \in Elements(calls) <=> \E n \in 1 .. m : c = calls[n]
        <5>. HIDE DEF calls
        <5>. QED  BY <1>8, InElements
      <4>. HIDE DEF calls, onward, m
      <4>. QED  BY <4>1
    <3>. HIDE DEF calls, onward, path, m, more, new
    <3>. QED  BY <3>2, <3>3
  <2>. QED  BY <2>4, <2>5
<1>. HIDE DEF more, new, nearer, S
<1>13. /\ \A n \in 1 .. Len(more) : more[n] \in Elements(more)
       /\ \A p \in Elements(more) : \E n \in 1 .. Len(more) : more[n] = p
  <2>. HIDE DEF path
  <2>. QED  BY <1>12, InElements
<1>14. DOMAIN reachable' = DOMAIN reachable \cup new
  <2>. HIDE DEF path
  <2>. QED  BY <1>2
<1>15. \A n \in 1 .. Len(more) : \E t \in new :
         /\ more[n] = Append(path, t) /\ Walks(more[n]) /\ Last(more[n]) = t /\ Len(more[n]) = l + 1
  <2>. HIDE DEF path, l, q
  <2>1. ASSUME NEW n \in 1 .. Len(more)
        PROVE  \E t \in new : more[n] = Append(path, t)
    BY <1>12, <1>13
  <2>2. ASSUME NEW n \in 1 .. Len(more), NEW t \in new, more[n] = Append(path, t)
        PROVE  Walks(more[n]) /\ Last(more[n]) = t /\ Len(more[n]) = l + 1
    <3>1. t \in S /\ <<q, t>> \in Steps
      BY <1>10
    <3>. QED  BY <1>11, <2>2, <3>1
  <2>. QED  BY <2>1, <2>2
<1>16. \A p : Walks(p)' <=> Walks(p)
  BY <1>3 DEF Walks
<1>17. PathsInv'
  <2>1. ASSUME NEW n \in 1 .. Len(queue') PROVE Walks(queue'[n])
    <3>. DEFINE k == n - (Len(queue) - 1)
    <3>1. \/ n \in 1 .. Len(queue) - 1 /\ n + 1 \in 1 .. Len(queue) /\ queue'[n] = queue[n + 1]
          \/ k \in 1 .. Len(more) /\ queue'[n] = more[k]
      <4>1. Len(more) \in Nat /\ queue' = Tail(queue) \o more
        BY <1>2, <1>12
      <4>2. Len(queue') = Len(Tail(queue)) + Len(more)
        BY <1>5, <1>12, <4>1
      <4>3. CASE n \in 1 .. Len(queue) - 1
        BY <1>5, <4>1, <4>3
      <4>4. CASE n \notin 1 .. Len(queue) - 1
        <5>1. k \in 1 .. Len(more) /\ n = Len(Tail(queue)) + k
          BY <1>5, <4>1, <4>2, <4>4
        <5>. HIDE DEF k
        <5>. QED  BY <1>5, <1>12, <4>1, <5>1, ConcatFacts, SMTT(30)
      <4>. QED  BY <4>3, <4>4
    <3>. HIDE DEF k
    <3>. QED  BY <1>4, <1>15, <3>1 DEF PathsInv
  <2>2. ASSUME NEW t \in DOMAIN reachable' PROVE Walks(reachable'[t]) /\ Last(reachable'[t]) = t
    <3>1. reachable'[t] = IF t \in nearer THEN Append(path, t) ELSE reachable[t]
      <4>. HIDE DEF path
      <4>. QED  BY <1>2, <1>14
    <3>2. nearer \subseteq new /\ (t \in DOMAIN reachable \/ t \in nearer)
      BY <1>14 DEF nearer
    <3>3. CASE t \in nearer
      <4>. HIDE DEF path, q, l
      <4>. QED  BY <1>10, <1>11, <3>1, <3>2, <3>3
    <3>4. CASE t \notin nearer
      BY <1>4, <3>1, <3>2, <3>4 DEF PathsInv
    <3>. QED  BY <3>3, <3>4
  <2>. QED  BY <1>16, <2>1, <2>2 DEF PathsInv
<1>18. DOMAIN reachable \subseteq DOMAIN reachable' /\ unfollowed \subseteq unfollowed'
  BY <1>2, <1>14
<1>19. entry # 0
  BY <1>1, <1>4 DEF ClosedInv
<1>20. PICK dist : Settled(Stops, Steps, ToDisclose, entryNames[entry], dist, visited, queue, DOMAIN reachable, unfollowed)
  BY <1>4, <1>19 DEF ClosedInv
<1>21. q \notin visited /\ l <= LanguageMaxDepth =>
         /\ ToDisclose[q] \subseteq unfollowed'
         /\ \A t : <<q, t>> \in Steps => t \in visited \cup {q} \/ \E n \in 1 .. Len(more) : Last(more[n]) = t
  <2>. SUFFICES ASSUME q \notin visited, l <= LanguageMaxDepth
                PROVE  /\ ToDisclose[q] \subseteq unfollowed'
                       /\ \A t : <<q, t>> \in Steps => t \in visited \cup {q} \/ \E n \in 1 .. Len(more) : Last(more[n]) = t
    OBVIOUS
  <2>1. calls = AllCalls(q)
    <3>1. ~(l > LanguageMaxDepth)
      <4>. HIDE DEF l
      <4>. QED  BY <1>6, LanguageMaxDepthAssumption
    <3>. QED  BY <3>1
  <2>2. ToDisclose[q] = Disclosure(q)
    <3>. HIDE DEF q
    <3>. QED  BY <1>6 DEF ToDisclose, S
  <2>3. ToDisclose[q] \subseteq unfollowed'
    <3>. HIDE DEF q, calls
    <3>. QED  BY <1>2, <2>1, <2>2 DEF Disclosure
  <2>4. ASSUME NEW t, <<q, t>> \in Steps, t \notin visited \cup {q}
        PROVE  \E n \in 1 .. Len(more) : Last(more[n]) = t
    <3>1. PICK c \in Elements(AllCalls(q)) : CallTarget(c).certainty # "unresolved" /\ CallTarget(c).qname = t
      <4>. HIDE DEF q
      <4>. QED  BY <2>4 DEF Steps
    <3>2. t \in new
      <4>1. c \in Elements(calls) /\ onward(c)
        <5>. HIDE DEF q
        <5>. QED  BY <2>1, <2>4, <3>1
      <4>. HIDE DEF calls, onward
      <4>. QED  BY <3>1, <4>1 DEF new
    <3>3. Append(path, t) \in Elements(more) /\ Last(Append(path, t)) = t
      <4>. HIDE DEF path, q, l
      <4>. QED  BY <1>10, <1>11, <1>12, <3>2
    <3>. HIDE DEF path
    <3>4. PICK n \in 1 .. Len(more) : more[n] = Append(path, t)
      BY <1>13, <3>3
    <3>. QED  BY <3>3, <3>4
  <2>. QED  BY <2>3, <2>4
<1>22. \A n \in 1 .. Len(more) : Len(more[n]) = l + 1 /\ Last(more[n]) \in DOMAIN reachable'
  <2>. HIDE DEF path, l
  <2>. QED  BY <1>14, <1>15
<1>23. \E d : Settled(Stops, Steps, ToDisclose, entryNames[entry], d, visited \cup {q}, Tail(queue) \o more,
                      DOMAIN reachable', unfollowed')
  BY <1>1, <1>12, <1>18, <1>20, <1>21, <1>22, SettledVisit DEF S
<1>24. ClosedInv'
  <2>1. \A k \in 1 .. entry - 1 : ClosedFrom(entryNames[k])'
    <3>1. ASSUME NEW k \in 1 .. entry - 1
          PROVE  Closed(Stops, Steps, ToDisclose, entryNames[k], DOMAIN reachable', unfollowed')
      <4>1. Closed(Stops, Steps, ToDisclose, entryNames[k], DOMAIN reachable, unfollowed)
        BY <1>4 DEF ClosedInv, ClosedFrom
      <4>. QED  BY <1>18, <4>1, ClosedGrows
    <3>. QED  BY <1>1, <1>3, <3>1 DEF ClosedFrom
  <2>2. (\E d : Settled(Stops, Steps, ToDisclose, entryNames[entry], d, visited, queue, DOMAIN reachable, unfollowed))'
    <3>. HIDE DEF q
    <3>. QED  BY <1>1, <1>2, <1>3, <1>23
  <2>. QED  BY <1>1, <1>19, <2>1, <2>2 DEF ClosedInv
<1>25. queue' \in Seq(Seq(S) \ {<<>>})
  BY <1>2, <1>5, <1>12, ConcatFacts
<1>. QED  BY <1>1, <1>3, <1>4, <1>17, <1>24, <1>25 DEF SearchInv, S

LEMMA SearchStep == IndexInv /\ SearchInv /\ [ScanNext]_scanVars => SearchInv'
<1>. SUFFICES ASSUME IndexInv, SearchInv, [ScanNext]_scanVars PROVE SearchInv'
  OBVIOUS
<1>1. CASE /\ stage' \notin {"search", "report"}
           /\ stage' \in {"wait", "index", "discover"} =>
                \/ UNCHANGED <<entry, queue, visited, reachable>> /\ stage \in {"wait", "index", "discover"}
                \/ Idle'
  BY <1>1 DEF SearchInv, Idle
<1>. QED  BY <1>1, SearchShapes, SearchSameStep, SearchFirst, SearchNext, SearchVisit, SearchReport

LEMMA SearchAtStart == ScanInit => SearchInv
BY DEF ScanInit, SearchInv, Idle

LEMMA SearchInvariant == ScanSpec => [](IndexInv /\ SearchInv)
<1>1. ScanInit => IndexInv /\ SearchInv
  BY IndexAtStart, SearchAtStart
<1>2. IndexInv /\ SearchInv /\ [ScanNext]_scanVars => IndexInv' /\ SearchInv'
  BY IndexStep, SearchStep
<1>. QED  BY <1>1, <1>2, PTL DEF ScanSpec

(* A call that the search follows runs a function with the name it is      *)
(* followed to, when names tell enough; a handler has no calls but its own,*)
(* and a function none but those in it.                                    *)
LEMMA StepRuns ==
    ASSUME IndexInv, Plain, read = Len(files), NEW e \in Steps
    PROVE  /\ \E a \in FunctionsOf(Indexed) : Name(a[1], a[2]) = e[2]
           /\ e[1] \in Elements(HandlerNames) =>
                \E c \in Elements(HandlerCalls(e[1])) : \E a \in c[2].to : Name(a[1], a[2]) = e[2]
           /\ e[1] \notin Elements(HandlerNames) =>
                \E c \in Elements(CallSitesIn(e[1])) : \E a \in c[2].to : Name(a[1], a[2]) = e[2]
<1>. DEFINE q == e[1]
            t == e[2]
<1>0. FilesInv /\ Indexed = 1 .. Len(files) /\ Len(files) \in Nat
  BY AllRead, FileFacts DEF IndexInv
<1>1. PICK c \in Elements(AllCalls(q)) : CallTarget(c).certainty # "unresolved" /\ CallTarget(c).qname = t
  BY DEF Steps
<1>2. c \in Elements(HandlerCalls(q)) \/ c \in Elements(CallSitesIn(q))
  BY <1>0, <1>1, AllCallsFacts
<1>3. HandlersOf(q) # {} <=> q \in Elements(HandlerNames)
  <2>1. \A h : h \in HandlersOf(q) <=>
          \E i \in Indexed : \E n \in 1 .. Len(files[i].handlers) : h = <<i, n>> /\ q = HandlerName(i, n)
    <3>. HIDE DEF q
    <3>. QED  BY DEF HandlersOf
  <2>2. q \in Elements(HandlerNames) <=>
          \E i \in Indexed : \E n \in 1 .. Len(files[i].handlers) : q = HandlerName(i, n)
    BY <1>0, HandlerNamesFacts
  <2>. HIDE DEF q
  <2>. QED  BY <2>1, <2>2
<1>4. c \in Elements(HandlerCalls(q)) => q \in Elements(HandlerNames) /\ c \in SitesOfAll
  <2>. SUFFICES ASSUME c \in Elements(HandlerCalls(q)) PROVE q \in Elements(HandlerNames) /\ c \in SitesOfAll
    OBVIOUS
  <2>. HIDE DEF q
  <2>1. HandlersOf(q) # {}
    BY <1>0, HandlerCallsFacts DEF Elements
  <2>2. PICK h \in HandlersOf(q) : HandlerCalls(q) = In(h[1], files[h[1]].handlers[h[2]].calls)
    BY <1>0, <2>1, HandlerCallsFacts
  <2>3. PICK i \in Indexed : h \in {i} \X (1 .. Len(files[i].handlers))
    BY DEF HandlersOf
  <2>4. i \in 1 .. Len(files) /\ h[1] = i /\ h[2] \in 1 .. Len(files[i].handlers)
    BY <1>0, <2>3
  <2>5. files[i].handlers[h[2]].inside \in 0 .. Len(files[i].functions)
    BY <1>0, <2>4, FileShape
  <2>6. c \in Elements(Body(i, files[i].handlers[h[2]].inside))
    BY <1>0, <2>2, <2>4, <2>5, BodyFacts
  <2>7. c \in SitesOfAll
    BY <1>0, <2>4, <2>5, <2>6, SitesFacts
  <2>. QED  BY <1>3, <2>1, <2>7
<1>5. c \in Elements(CallSitesIn(q)) => q \notin Elements(HandlerNames) /\ c \in SitesOfAll
  <2>. SUFFICES ASSUME c \in Elements(CallSitesIn(q)) PROVE q \notin Elements(HandlerNames) /\ c \in SitesOfAll
    OBVIOUS
  <2>. HIDE DEF q
  <2>1. PICK i \in Indexed : \E k \in 0 .. Len(files[i].functions) : Name(i, k) = q /\ c \in Elements(CallSites(i, k))
    BY <1>0, CallSitesInFacts
  <2>2. PICK k \in 0 .. Len(files[i].functions) : Name(i, k) = q /\ c \in Elements(CallSites(i, k))
    BY <2>1
  <2>3. i \in 1 .. Len(files)
    BY <1>0
  <2>4. c \in SitesOfAll
    BY <1>0, <2>2, <2>3, CallSitesFacts, SitesFacts
  <2>5. \A j \in Indexed : \A n \in 1 .. Len(files[j].handlers) : HandlerName(j, n) # q
    BY <1>0, <2>2, <2>3, NamesDiffer
  <2>6. q \notin Elements(HandlerNames)
    BY <1>0, <2>5, HandlerNamesFacts
  <2>. QED  BY <2>4, <2>6
<1>6. c[2].to # {} /\ (\A a \in c[2].to : Name(a[1], a[2]) = t) /\ c[2].to \subseteq FunctionsOf(Indexed)
  <2>. HIDE DEF q, t
  <2>. QED  BY <1>1, <1>2, <1>4, <1>5, ResolveMeans
<1>7. PICK a \in c[2].to : Name(a[1], a[2]) = t
  BY <1>6
<1>. QED  BY <1>2, <1>4, <1>5, <1>6, <1>7

(* Every path the TypeScript or Go layer reports is one the program can    *)
(* take: it starts with a handler, and each name on it is that of a        *)
(* function that a call in the one before runs (_analyze_ts, _analyze_go;  *)
(* resolve_call_target of the two indexes).                                *)
THEOREM ChainsHold == ScanSpec => []ChainsAreCalls
<1>1. IndexInv /\ SearchInv => ChainsAreCalls
  <2>. SUFFICES ASSUME IndexInv, SearchInv, stage = "report", Plain, NEW q \in DOMAIN reachable
                PROVE  LET path == reachable[q]
                       IN  /\ Last(path) = q
                           /\ path[1] \in ToSet(entryNames)
                           /\ \A n \in 1 .. Len(path) - 1 :
                                LET calls == IF n = 1 THEN HandlerCalls(path[n]) ELSE CallSitesIn(path[n])
                                IN  \E c \in ToSet(calls) : \E a \in c[2].to : Name(a[1], a[2]) = path[n + 1]
    BY DEF ChainsAreCalls
  <2>. DEFINE path == reachable[q]
  <2>1. read = Len(files) /\ entryNames = HandlerNames /\ Walks(path) /\ Last(path) = q
    BY DEF IndexInv, SymbolsInv, SearchInv, PathsInv
  <2>2. Len(path) \in Nat /\ path[1] \in Elements(HandlerNames) /\ \A n \in 1 .. Len(path) - 1 : <<path[n], path[n + 1]>> \in Steps
    BY <2>1 DEF Walks, Walk
  <2>. HIDE DEF path
  <2>3. FilesInv /\ Indexed = 1 .. Len(files) /\ Len(files) \in Nat
    BY <2>1, AllRead, FileFacts DEF IndexInv
  <2>4. ASSUME NEW n \in 1 .. Len(path) - 1
        PROVE  LET calls == IF n = 1 THEN HandlerCalls(path[n]) ELSE CallSitesIn(path[n])
               IN  \E c \in Elements(calls) : \E a \in c[2].to : Name(a[1], a[2]) = path[n + 1]
    <3>. DEFINE e == <<path[n], path[n + 1]>>
    <3>1. e \in Steps /\ e[1] = path[n] /\ e[2] = path[n + 1]
      BY <2>2
    <3>. HIDE DEF e
    <3>2. CASE n = 1
      BY <2>1, <2>2, <3>1, <3>2, StepRuns
    <3>3. CASE n # 1
      <4>1. n - 1 \in 1 .. Len(path) - 1 /\ (n - 1) + 1 = n
        BY <2>2, <3>3
      <4>. DEFINE d == <<path[n - 1], path[n]>>
      <4>2. d \in Steps /\ d[2] = path[n]
        BY <2>2, <4>1
      <4>. HIDE DEF d
      <4>3. PICK a \in FunctionsOf(Indexed) : Name(a[1], a[2]) = path[n]
        BY <2>1, <4>2, StepRuns
      <4>4. a[1] \in 1 .. Len(files) /\ a[2] \in 0 .. Len(files[a[1]].functions)
        <5>1. a[1] \in Indexed /\ a[2] \in 1 .. Len(files[a[1]].functions)
          BY DEF FunctionsOf
        <5>2. Len(files[a[1]].functions) \in Nat
          BY <2>3, <5>1, FileShape
        <5>. QED  BY <2>3, <5>1, <5>2
      <4>5. \A j \in Indexed : \A m \in 1 .. Len(files[j].handlers) : HandlerName(j, m) # path[n]
        BY <2>3, <4>3, <4>4, NamesDiffer
      <4>6. path[n] \notin Elements(HandlerNames)
        BY <2>3, <4>5, HandlerNamesFacts
      <4>. QED  BY <2>1, <3>1, <3>3, <4>6, StepRuns
    <3>. QED  BY <3>2, <3>3
  <2>. QED  BY <2>1, <2>2, <2>4, ToSetElements DEF path
<1>. QED  BY <1>1, SearchInvariant, PTL

-----------------------------------------------------------------------------
(* What is reported of what the search found.                              *)
LEMMA SinksFoundFacts ==
    ASSUME FilesInv
    PROVE  /\ SinksFound \in Seq(Elements(SinksFound))
           /\ \A i \in Indexed : \A n \in 1 .. Len(files[i].sinks) :
                \E s \in Elements(SinksFound) :
                  /\ s.caller = IF language = "ts" THEN Ts!Name(i, files[i].sinks[n].nearest)
                                ELSE Go!Caller(i, files[i].sinks[n].nearest)
                  /\ s.file = files[i].path /\ s.line = files[i].sinks[n].line
<1>. DEFINE m == Len(files)
            Of2(i, n) == LET s == files[i].sinks[n]
                         IN  [caller |-> IF language = "ts" THEN Ts!Name(i, s.nearest) ELSE Go!Caller(i, s.nearest),
                              file |-> files[i].path, line |-> s.line, rule |-> s.rule]
            Row(i) == IF language = "ts" /\ i \notin Indexed THEN <<>> ELSE [n \in 1 .. Len(files[i].sinks) |-> Of2(i, n)]
            T == {Of2(a[1], a[2]) : a \in Nat \X Nat}
            rows == [i \in 1 .. m |-> Row(i)]
<1>1. m \in Nat /\ \A i \in 1 .. m : i \in Nat /\ Len(files[i].sinks) \in Nat
  BY FileFacts, FileShape
<1>2. ASSUME NEW i \in 1 .. m, NEW n \in 1 .. Len(files[i].sinks) PROVE Of2(i, n) \in T
  <2>1. <<i, n>> \in Nat \X Nat /\ <<i, n>>[1] = i /\ <<i, n>>[2] = n
    BY <1>1
  <2>. HIDE DEF Of2
  <2>. QED  BY <2>1
<1>. HIDE DEF T, Of2
<1>3. ASSUME NEW i \in 1 .. m
      PROVE  /\ Row(i) \in Seq(T)
             /\ i \in Indexed => \A n \in 1 .. Len(files[i].sinks) : Of2(i, n) \in Elements(Row(i))
  <2>. DEFINE k == Len(files[i].sinks)
              row == [n \in 1 .. k |-> Of2(i, n)]
  <2>1. k \in Nat
    BY <1>1
  <2>. HIDE DEF k
  <2>2. row \in Seq(T) /\ \A n \in 1 .. k : Of2(i, n) \in Elements(row)
    <3>1. \A n \in 1 .. k : Of2(i, n) \in T
      BY <1>2 DEF k
    <3>. QED  BY <2>1, <3>1 DEF Elements
  <2>3. <<>> \in Seq(T)
    OBVIOUS
  <2>4. Row(i) = IF language = "ts" /\ i \notin Indexed THEN <<>> ELSE row
    BY DEF k
  <2>. HIDE DEF Row, row
  <2>. QED  BY <2>2, <2>3, <2>4 DEF k
<1>4. FlattenSeq(rows) \in Seq(T) /\ Elements(FlattenSeq(rows)) = UNION {Elements(Row(i)) : i \in 1 .. m}
  <2>. HIDE DEF Row
  <2>1. DOMAIN rows = 1 .. m /\ rows = [i \in 1 .. m |-> rows[i]] /\ \A i \in 1 .. m : rows[i] = Row(i)
    OBVIOUS
  <2>2. {Elements(rows[i]) : i \in 1 .. m} = {Elements(Row(i)) : i \in 1 .. m} /\ \A i \in 1 .. m : rows[i] \in Seq(T)
    BY <1>3, <2>1
  <2>. HIDE DEF rows, m
  <2>3. FlattenSeq(rows) \in Seq(T) /\ Elements(FlattenSeq(rows)) = UNION {Elements(rows[i]) : i \in 1 .. m}
    <3>1. m \in Nat /\ DOMAIN rows = 1 .. m /\ rows = [i \in 1 .. m |-> rows[i]]
      BY <1>1, <2>1 DEF m
    <3>2. \A i \in 1 .. m : rows[i] \in Seq(T)
      BY <2>2
    <3>. QED  BY ONLY <3>1, <3>2, RowsFlattened
  <2>. QED  BY ONLY <2>2, <2>3
<1>5. SinksFound = FlattenSeq(rows)
  BY DEF SinksFound, Of2
<1>. HIDE DEF rows, Row
<1>6. SinksFound \in Seq(Elements(SinksFound))
  <2>. DEFINE f == SinksFound
  <2>1. f \in Seq(T)
    BY <1>4, <1>5
  <2>. HIDE DEF f
  <2>2. f \in Seq(Elements(f))
    BY <2>1 DEF Elements
  <2>. QED  BY <2>2 DEF f
<1>7. ASSUME NEW i \in Indexed, NEW n \in 1 .. Len(files[i].sinks)
      PROVE  \E s \in Elements(SinksFound) :
                  /\ s.caller = IF language = "ts" THEN Ts!Name(i, files[i].sinks[n].nearest)
                                ELSE Go!Caller(i, files[i].sinks[n].nearest)
                  /\ s.file = files[i].path /\ s.line = files[i].sinks[n].line
  <2>1. i \in 1 .. m
    BY <1>1 DEF Indexed, FilesInv
  <2>2. Of2(i, n) \in Elements(SinksFound)
    BY <1>3, <1>4, <1>5, <2>1
  <2>. QED  BY <2>2 DEF Of2
<1>. QED  BY <1>6, <1>7

(* A sink is dealt with when its function is not reached, or its line has  *)
(* a report, or will have one.                                             *)
Dealt(s) ==
    \/ s.caller \notin DOMAIN reachable
    \/ Reported(<<s.file, s.line>>)
    \/ \E r \in newFindings : r.file = s.file /\ r.line = s.line

Complete ==
    \/ symbols = <<>>
    \/ HandlerNames = <<>>
    \/ /\ \A q \in Elements(HandlerNames) : ClosedFrom(q)
       /\ \A s \in Elements(SinksFound) : Dealt(s)

ReportInv ==
    /\ stage = "wait" => newFindings = {}
    /\ stage = "report" =>
         /\ unreported \in Seq(Elements(SinksFound))
         /\ \A s \in Elements(SinksFound) : Dealt(s) \/ s \in Elements(unreported)
    /\ stage \in {"merge", "done"} /\ ~analysisError => Complete
    /\ stage = "done" => \A r \in newFindings : Reported(<<r.file, r.line>>)

(* The steps that matter to the reports. *)
LEMMA ReportShapes ==
    [ScanNext]_scanVars =>
      \/ /\ SearchSame /\ stage' = stage /\ round' = round
         /\ UNCHANGED <<unreported, newFindings, analysisError>>
      \/ stage' \notin {"wait", "report", "merge", "done"}
      \/ stage' = "wait" /\ newFindings' = {}
      \/ stage' = "merge" /\ (analysisError' \/ (SearchSame /\ (symbols = <<>> \/ HandlerNames = <<>>)))
      \/ /\ stage' = "done" /\ symbols' = symbols /\ stage = "wait" /\ newFindings' = newFindings
      \/ StartReport
      \/ ReportSink
      \/ /\ FinishReport /\ stage' = "merge" /\ SearchSame
         /\ UNCHANGED <<vars, newFindings, analysisError>>
      \/ MergeFindings
<1>. DEFINE Goal ==
      \/ /\ SearchSame /\ stage' = stage /\ round' = round
         /\ UNCHANGED <<unreported, newFindings, analysisError>>
      \/ stage' \notin {"wait", "report", "merge", "done"}
      \/ stage' = "wait" /\ newFindings' = {}
      \/ stage' = "merge" /\ (analysisError' \/ (SearchSame /\ (symbols = <<>> \/ HandlerNames = <<>>)))
      \/ /\ stage' = "done" /\ symbols' = symbols /\ stage = "wait" /\ newFindings' = newFindings
      \/ /\ FinishReport /\ stage' = "merge" /\ SearchSame
         /\ UNCHANGED <<vars, newFindings, analysisError>>
<1>. SUFFICES ASSUME [ScanNext]_scanVars, ~StartReport, ~ReportSink, ~MergeFindings PROVE Goal
  OBVIOUS
<1>. USE DEF IndexKept, SearchSame, vars, workVars, resultVars, indexVars, languageVars, registryVars, searchVars, reportVars
<1>1. CASE UNCHANGED scanVars
  BY <1>1 DEF scanVars
<1>2. CASE PythonLayer /\ UNCHANGED <<beside, languageVars>>
  <2>1. program' = program /\ round' = round
    BY <1>2 DEF PythonLayer, IndexFile, FinishIndex, Fail, BuildGraph, DiscoverEntrypoints, Reach,
                Seed, AnalyseFunction, FinishAnalysis, AddGuardEvidence, Merge,
                AddFile, SkipFile, Finalize
  <2>. QED  BY <1>2, <2>1
<1>3. CASE LanguageLayer
  <2>1. Onward => \/ stage' = "index"
                  \/ /\ stage' = "merge"
                     /\ UNCHANGED <<language, registryVars, sinksByFunction, entryNames, searchVars, reportVars>>
    BY DEF Onward
  <2>2. CASE NoSymbols
    BY <2>1, <2>2 DEF NoSymbols
  <2>3. CASE NoHandlers
    BY <2>1, <2>3 DEF NoHandlers
  <2>4. CASE FinishReport
    BY <2>1, <2>4 DEF FinishReport
  <2>5. CASE FinalizeLanguage \/ AddLanguageFile \/ DiscoverHandlers \/ NextEntry \/ VisitPath
    BY <2>5 DEF FinalizeLanguage, AddLanguageFile, DiscoverHandlers, NextEntry, VisitPath
  <2>6. CASE StartLayer
    BY <2>6 DEF StartLayer
  <2>7. CASE FailLayer
    BY <2>7 DEF FailLayer
  <2>. QED  BY <1>3, <2>2, <2>3, <2>4, <2>5, <2>6, <2>7 DEF LanguageLayer
<1>4. CASE ScanAgain
  BY <1>4 DEF ScanAgain
<1>. QED  BY <1>1, <1>2, <1>3, <1>4 DEF ScanNext

LEMMA CompleteKept ==
    ASSUME SearchSame, \A s : Dealt(s) => Dealt(s)', Complete
    PROVE  Complete'
<1>1. /\ HandlerNames' = HandlerNames /\ SinksFound' = SinksFound
      /\ Stops' = Stops /\ Steps' = Steps /\ ToDisclose' = ToDisclose
  BY SearchKept DEF SearchSame
<1>2. symbols' = symbols /\ UNCHANGED <<reachable, unfollowed>>
  BY DEF SearchSame, searchVars, IndexKept
<1>3. \A q : ClosedFrom(q)' <=> ClosedFrom(q)
  BY <1>1, <1>2 DEF ClosedFrom
<1>. QED  BY <1>1, <1>2, <1>3 DEF Complete

(* The search is over: all handlers were searched from. *)
LEMMA AllClosed ==
    ASSUME IndexInv, SearchInv, stage = "report", NEW q \in Elements(HandlerNames)
    PROVE  ClosedFrom(q)
<1>1. entryNames = HandlerNames /\ queue = <<>> /\ entry = Len(entryNames) /\ ClosedInv
  BY DEF SearchInv
<1>2. HandlerNames \in Seq(Elements(HandlerNames)) /\ Len(HandlerNames) \in Nat
  BY HandlerNamesFacts DEF IndexInv
<1>3. PICK k \in 1 .. Len(HandlerNames) : HandlerNames[k] = q
  <2>. DEFINE h == HandlerNames
  <2>1. h \in Seq(Elements(h)) /\ q \in Elements(h)
    BY <1>2
  <2>. HIDE DEF h
  <2>2. \E k \in 1 .. Len(h) : h[k] = q
    BY <2>1, InElements
  <2>. QED  BY <2>2 DEF h
<1>4. CASE k = entry
  <2>1. entry # 0
    BY <1>1, <1>2, <1>3, <1>4
  <2>2. PICK dist : Settled(Stops, Steps, ToDisclose, entryNames[entry], dist, visited, queue, DOMAIN reachable, unfollowed)
    BY <1>1, <2>1 DEF ClosedInv
  <2>. QED  BY <1>1, <1>3, <1>4, <2>2 DEF ClosedFrom, Closed
<1>5. CASE k # entry
  <2>1. k \in 1 .. entry - 1
    BY <1>1, <1>2, <1>3, <1>5
  <2>. QED  BY <1>1, <1>3, <2>1 DEF ClosedInv
<1>. QED  BY <1>4, <1>5

LEMMA ReportStep ==
    IndexInv /\ SearchInv /\ ListsInv /\ ReportInv /\ [ScanNext]_scanVars => ReportInv'
<1>. SUFFICES ASSUME IndexInv, SearchInv, ListsInv, ReportInv, [ScanNext]_scanVars PROVE ReportInv'
  OBVIOUS
<1>1. ListsInv' /\ (round' = round => Grows(findings, findings') /\ Grows(capabilities, capabilities'))
  BY ListsStep
<1>2. ASSUME round' = round, NEW loc, Reported(loc) PROVE Reported(loc)'
  BY <1>1, <1>2, ReportedStays DEF ListsInv
<1>3. ASSUME round' = round, reachable' = reachable, newFindings \subseteq newFindings', NEW s, Dealt(s)
      PROVE  Dealt(s)'
  <2>1. Reported(<<s.file, s.line>>) => Reported(<<s.file, s.line>>)'
    BY <1>2, <1>3
  <2>. QED  BY <1>3, <2>1 DEF Dealt
<1>4. CASE /\ SearchSame /\ stage' = stage /\ round' = round
           /\ UNCHANGED <<unreported, newFindings, analysisError>>
  <2>1. reachable' = reachable /\ SinksFound' = SinksFound
    BY <1>4, SearchKept DEF SearchSame, searchVars
  <2>2. \A s : Dealt(s) => Dealt(s)'
    BY <1>3, <1>4, <2>1
  <2>3. Complete => Complete'
    BY <1>4, <2>2, CompleteKept
  <2>4. \A r \in newFindings : Reported(<<r.file, r.line>>) => Reported(<<r.file, r.line>>)'
    BY <1>2, <1>4
  <2>. QED  BY <1>4, <2>1, <2>2, <2>3, <2>4 DEF ReportInv
<1>5. CASE stage' \notin {"wait", "report", "merge", "done"}
  BY <1>5 DEF ReportInv
<1>6. CASE stage' = "wait" /\ newFindings' = {}
  BY <1>6 DEF ReportInv
<1>7. CASE stage' = "merge" /\ (analysisError' \/ (SearchSame /\ (symbols = <<>> \/ HandlerNames = <<>>)))
  <2>1. SearchSame => HandlerNames' = HandlerNames /\ symbols' = symbols
    BY SearchKept DEF SearchSame, IndexKept
  <2>2. ~analysisError' => Complete'
    BY <1>7, <2>1 DEF Complete
  <2>. QED  BY <1>7, <2>2 DEF ReportInv
<1>8. CASE stage' = "done" /\ symbols' = symbols /\ stage = "wait" /\ newFindings' = newFindings
  <2>1. symbols' = <<>> /\ newFindings' = {}
    BY <1>8 DEF IndexInv, SymbolsInv, ReportInv
  <2>. QED  BY <1>8, <2>1 DEF ReportInv, Complete
<1>9. CASE StartReport
  <2>1. stage' = "report" /\ stage = "search" /\ unreported' = sinksByFunction /\ SearchSame
    BY <1>9 DEF StartReport, SearchSame, IndexKept, registryVars, searchVars, vars, indexVars
  <2>2. SinksFound' = SinksFound /\ unreported' = SinksFound /\ SinksFound \in Seq(Elements(SinksFound))
    BY <2>1, SearchKept, SinksFoundFacts DEF SearchSame, SearchInv, IndexInv
  <2>3. unreported' \in Seq(Elements(SinksFound')) /\ \A s \in Elements(SinksFound') : s \in Elements(unreported')
    BY <2>2
  <2>. QED  BY <2>1, <2>3 DEF ReportInv
<1>10. CASE ReportSink
  <2>0. PICK s : s = Head(unreported)
    OBVIOUS
  <2>. DEFINE reached == s.caller \in DOMAIN reachable
              old == Reported(<<s.file, s.line>>)
              f == [NewFinding(s) EXCEPT !.layer = language]
              F == Elements(SinksFound)
  <2>1. /\ stage = "report" /\ stage' = stage /\ unreported # <<>> /\ unreported' = Tail(unreported)
        /\ SearchSame /\ round' = round
    BY <1>10 DEF ReportSink, SearchSame, IndexKept, registryVars, searchVars, indexVars
  <2>2. newFindings' = IF ~reached \/ old \/ \E r \in newFindings : r.file = s.file /\ r.line = s.line
                       THEN newFindings ELSE newFindings \cup {f}
    BY <1>10, <2>0 DEF ReportSink
  <2>3. unreported \in Seq(F) /\ \A x \in F : Dealt(x) \/ x \in Elements(unreported)
    BY <2>1 DEF ReportInv
  <2>4. reachable' = reachable /\ SinksFound' = SinksFound
    BY <2>1, SearchKept DEF SearchSame, searchVars
  <2>. HIDE DEF F
  <2>5. unreported' \in Seq(F) /\ \A x \in Elements(unreported) : x = s \/ x \in Elements(unreported')
    <3>1. /\ Tail(unreported) \in Seq(F) /\ Len(Tail(unreported)) = Len(unreported) - 1 /\ s = unreported[1]
          /\ Len(unreported) \in Nat
          /\ \A i \in 1 .. Len(Tail(unreported)) : Tail(unreported)[i] = unreported[i + 1]
      BY <2>0, <2>1, <2>3, TailInSeq
    <3>2. ASSUME NEW x \in Elements(unreported) PROVE x = s \/ x \in Elements(Tail(unreported))
      <4>1. PICK n \in 1 .. Len(unreported) : unreported[n] = x
        BY <2>3, InElements
      <4>2. CASE n = 1
        BY <3>1, <4>1, <4>2
      <4>3. CASE n # 1
        <5>1. n - 1 \in 1 .. Len(Tail(unreported)) /\ (n - 1) + 1 = n
          BY <3>1, <4>3
        <5>2. Tail(unreported)[n - 1] = x
          BY <3>1, <4>1, <5>1
        <5>. QED  BY <3>1, <5>1, <5>2, InElements
      <4>. QED  BY <4>2, <4>3
    <3>. QED  BY <2>1, <3>1, <3>2
  <2>6. f.file = s.file /\ f.line = s.line
    <3>1. NewFinding(s).file = s.file /\ NewFinding(s).line = s.line
      BY NewFindingShaped
    <3>2. \A r : [r EXCEPT !.layer = language].file = r.file /\ [r EXCEPT !.layer = language].line = r.line
      OBVIOUS
    <3>. QED  BY <3>1, <3>2
  <2>. HIDE DEF f
  <2>7. newFindings \subseteq newFindings'
    BY <2>2
  <2>8. \A x : Dealt(x) => Dealt(x)'
    BY <1>3, <2>1, <2>4, <2>7
  <2>9. Dealt(s)'
    <3>1. CASE ~reached \/ old \/ \E r \in newFindings : r.file = s.file /\ r.line = s.line
      <4>1. Dealt(s)
        BY <3>1 DEF Dealt
      <4>. QED  BY <2>8, <4>1
    <3>2. CASE ~(~reached \/ old \/ \E r \in newFindings : r.file = s.file /\ r.line = s.line)
      <4>1. f \in newFindings'
        <5>. HIDE DEF reached, old
        <5>. QED  BY <2>2, <3>2
      <4>. QED  BY <2>6, <4>1 DEF Dealt
    <3>. QED  BY <3>1, <3>2
  <2>. QED  BY <2>1, <2>3, <2>4, <2>5, <2>8, <2>9 DEF ReportInv, F
<1>11. CASE /\ FinishReport /\ stage' = "merge" /\ SearchSame
            /\ UNCHANGED <<vars, newFindings, analysisError>>
  <2>1. stage = "report" /\ unreported = <<>> /\ round' = round /\ reachable' = reachable
    BY <1>11 DEF FinishReport, SearchSame, searchVars, vars, resultVars
  <2>2. \A q \in Elements(HandlerNames) : ClosedFrom(q)
    BY <2>1, AllClosed
  <2>3. \A s \in Elements(SinksFound) : Dealt(s)
    BY <2>1 DEF ReportInv, Elements
  <2>4. Complete
    BY <2>2, <2>3 DEF Complete
  <2>5. \A s : Dealt(s) => Dealt(s)'
    BY <1>3, <1>11, <2>1
  <2>6. Complete'
    BY <1>11, <2>4, <2>5, CompleteKept
  <2>. QED  BY <1>11, <2>6 DEF ReportInv
<1>12. CASE MergeFindings
  <2>1. /\ stage = "merge" /\ stage' = "done" /\ SearchSame /\ round' = round /\ analysisError' = analysisError
        /\ newFindings' = newFindings /\ findings' = findings \o SetToSeq(newFindings)
    BY <1>12 DEF MergeFindings, SearchSame, IndexKept, registryVars, searchVars, reportVars, indexVars
  <2>2. reachable' = reachable
    BY <2>1 DEF SearchSame, searchVars
  <2>3. \A s : Dealt(s) => Dealt(s)'
    BY <1>3, <2>1, <2>2
  <2>4. Complete => Complete'
    BY <2>1, <2>3, CompleteKept
  <2>5. \A r \in newFindings : r \in ToSet(findings')
    <3>1. ReportList(findings) /\ ReportSet(newFindings)
      BY DEF ListsInv
    <3>2. /\ findings = [i \in 1 .. Len(findings) |-> findings[i]]
          /\ \A i \in 1 .. Len(findings) : \E more : findings[i] = WithEvidence(findings[i], more)
      BY <3>1, SameEvidence
    <3>. QED  BY <2>1, <3>1, <3>2, EvidenceAdded
  <2>6. \A r \in newFindings : Reported(<<r.file, r.line>>)'
    BY <2>5 DEF Reported
  <2>. QED  BY <2>1, <2>4, <2>6 DEF ReportInv
<1>. QED  BY <1>4, <1>5, <1>6, <1>7, <1>8, <1>9, <1>10, <1>11, <1>12, ReportShapes

(* What runs within a number of calls from a handler: the recursive        *)
(* definition of RunsOf, step by step.                                     *)
Targets(calls) == UNION {c[2].to : c \in calls}
CallsOfAll(A) == UNION {ToSet(Body(a[1], a[2])) : a \in A}
RunsWithin(w, i, n) ==
    /\ w \in [0 .. LanguageMaxDepth -> SUBSET FunctionsOf(Indexed)]
    /\ w[0] = {}
    /\ w[1] = Targets(ToSet(In(i, files[i].handlers[n].calls)))
    /\ \A d \in 2 .. LanguageMaxDepth : w[d] = w[d - 1] \cup Targets(CallsOfAll(w[d - 1]))

LEMMA HandlerSites ==
    ASSUME FilesInv, NEW i \in 1 .. Len(files), NEW n \in 1 .. Len(files[i].handlers)
    PROVE  Elements(In(i, files[i].handlers[n].calls)) \subseteq SitesOfAll
<1>1. files[i].handlers[n].inside \in 0 .. Len(files[i].functions)
  BY FileShape
<1>2. Elements(In(i, files[i].handlers[n].calls)) \subseteq Elements(Body(i, files[i].handlers[n].inside))
  BY <1>1, BodyFacts
<1>. QED  BY <1>1, <1>2, SitesFacts

LEMMA BodySites ==
    ASSUME FilesInv, Plain, read = Len(files), NEW A \in SUBSET FunctionsOf(Indexed)
    PROVE  CallsOfAll(A) \subseteq SitesOfAll
<1>1. ASSUME NEW a \in A PROVE ToSet(Body(a[1], a[2])) \subseteq SitesOfAll
  <2>1. a[1] \in 1 .. Len(files) /\ a[2] \in 1 .. Len(files[a[1]].functions)
    BY AllRead DEF FunctionsOf
  <2>2. a[2] \in 0 .. Len(files[a[1]].functions)
    BY <2>1, FileShape
  <2>. QED  BY <2>1, <2>2, SitesFacts, ToSetElements
<1>. QED  BY <1>1 DEF CallsOfAll

LEMMA RunsFacts ==
    ASSUME IndexInv, Plain, read = Len(files),
           NEW i \in 1 .. Len(files), NEW n \in 1 .. Len(files[i].handlers)
    PROVE  RunsWithin(RunsOf(i, n), i, n)
<1>. DEFINE D == LanguageMaxDepth
            own == Targets(ToSet(In(i, files[i].handlers[n].calls)))
            Goes(f, d) == CASE d = 0 -> {}
                            [] d = 1 -> own
                            [] OTHER -> f[d - 1] \cup Targets(CallsOfAll(f[d - 1]))
            within == CHOOSE f : f = [d \in 0 .. LanguageMaxDepth |-> Goes(f, d)]
            V == SUBSET FunctionsOf(Indexed)
            Onto(d, A) == IF d = 1 THEN own ELSE A \cup Targets(CallsOfAll(A))
            step == [p \in (1 .. D) \X V |-> Onto(p[1], p[2])]
<1>1. RunsOf(i, n) = within
  BY DEF RunsOf, Targets, CallsOfAll
<1>2. D \in Nat \ {0}
  BY LanguageMaxDepthAssumption
<1>3. \A C \in SUBSET SitesOfAll : Targets(C) \in V
  <2>1. \A c \in SitesOfAll : c[2].to \subseteq FunctionsOf(Indexed)
    BY ResolveMeans
  <2>. QED  BY <2>1 DEF Targets
<1>4. own \in V
  <2>1. ToSet(In(i, files[i].handlers[n].calls)) \in SUBSET SitesOfAll
    BY HandlerSites, ToSetElements DEF IndexInv
  <2>. HIDE DEF V
  <2>. QED  BY <1>3, <2>1
<1>5. \A A \in V : Targets(CallsOfAll(A)) \in V
  <2>1. \A A \in V : CallsOfAll(A) \in SUBSET SitesOfAll
    BY BodySites DEF IndexInv
  <2>. HIDE DEF V
  <2>. QED  BY <1>3, <2>1
<1>. HIDE DEF own
<1>6. \A d \in 1 .. D : \A A \in V : Onto(d, A) \in V
  BY <1>4, <1>5
<1>7. {} \in V
  OBVIOUS
<1>. HIDE DEF V, Onto, D
<1>8. step \in [(1 .. D) \X V -> V] /\ \A d \in 1 .. D : \A A \in V : step[<<d, A>>] = Onto(d, A)
  BY <1>6
<1>. HIDE DEF step
<1>9. PICK g \in [0 .. D -> V] : g[0] = {} /\ \A d \in 1 .. D : g[d] = step[<<d, g[d - 1]>>]
  <2>1. \E g \in [0 .. D -> V] : Recursion(g, {}, step, D)
    BY <1>2, <1>7, <1>8, RecursionExists, Zenon
  <2>. QED  BY <2>1 DEF Recursion
<1>10. \A d \in 1 .. D : g[d] = Onto(d, g[d - 1])
  <2>1. \A d \in 1 .. D : g[d - 1] \in V
    BY <1>2, <1>9
  <2>. QED  BY <1>8, <1>9, <2>1
<1>11. g = [d \in 0 .. D |-> Goes(g, d)]
  <2>1. ASSUME NEW d \in 0 .. D PROVE g[d] = Goes(g, d)
    <3>1. CASE d = 0
      BY <1>9, <3>1
    <3>2. CASE d = 1
      <4>1. Goes(g, d) = own
        BY <3>2
      <4>2. d \in 1 .. D
        BY <1>2, <3>2
      <4>3. g[d] = own
        BY <1>10, <3>2, <4>2 DEF Onto
      <4>. QED  BY <4>1, <4>3
    <3>3. CASE d # 0 /\ d # 1
      <4>1. d \in 1 .. D
        BY <1>2, <3>3
      <4>2. g[d] = g[d - 1] \cup Targets(CallsOfAll(g[d - 1]))
        BY <1>10, <3>3, <4>1 DEF Onto
      <4>. QED  BY <3>3, <4>2
    <3>. QED  BY <3>1, <3>2, <3>3
  <2>. HIDE DEF Goes
  <2>. QED  BY <1>9, <2>1
<1>12. within = [d \in 0 .. D |-> Goes(within, d)]
  <2>. HIDE DEF Goes
  <2>. QED  BY <1>11 DEF D
<1>. HIDE DEF within
<1>13. \A d \in 0 .. D : within[d] = Goes(within, d)
  <2>. HIDE DEF Goes
  <2>. QED  BY <1>12
<1>14. within[0] = {}
  BY <1>2, <1>13, SMTT(30)
<1>15. within[1] = own
  <2>1. 1 \in 0 .. D
    BY <1>2
  <2>2. Goes(within, 1) = own
    OBVIOUS
  <2>. QED  BY <1>13, <2>1, <2>2
<1>16. \A d \in 2 .. D : within[d] = within[d - 1] \cup Targets(CallsOfAll(within[d - 1]))
  <2>1. \A d \in 2 .. D : d \in 0 .. D /\ d # 0 /\ d # 1
    BY <1>2
  <2>. QED  BY <1>13, <2>1
<1>17. within \in [0 .. D -> V]
  <2>. DEFINE P == {d \in 0 .. D : within[d] \in V}
  <2>1. 0 \in P
    <3>1. 0 \in 0 .. D
      BY <1>2
    <3>. QED  BY <1>7, <1>14, <3>1
  <2>2. ASSUME NEW d \in 0 .. D - 1, d \in P PROVE d + 1 \in P
    <3>1. CASE d = 0
      BY <1>2, <1>4, <1>15, <3>1
    <3>2. CASE d # 0
      <4>1. d + 1 \in 2 .. D /\ d + 1 \in 0 .. D /\ (d + 1) - 1 = d
        BY <1>2, <3>2
      <4>2. within[d + 1] = within[d] \cup Targets(CallsOfAll(within[d]))
        BY <1>16, <4>1
      <4>3. within[d] \in V /\ Targets(CallsOfAll(within[d])) \in V
        BY <1>5, <2>2
      <4>. QED  BY <4>1, <4>2, <4>3 DEF V
    <3>. QED  BY <3>1, <3>2
  <2>3. 0 .. D \subseteq P
    <3>. HIDE DEF P
    <3>. QED  BY <1>2, <2>1, <2>2, IntervalInduction
  <2>4. \A d \in 0 .. D : within[d] \in V
    BY <2>3
  <2>5. DOMAIN within = 0 .. D /\ within = [d \in 0 .. D |-> within[d]]
    <3>. HIDE DEF Goes
    <3>. QED  BY <1>12
  <2>. QED  BY <2>4, <2>5
<1>. QED  BY <1>1, <1>14, <1>15, <1>16, <1>17 DEF RunsWithin, D, V, own

LEMMA RunsGrow ==
    ASSUME NEW w, NEW i, NEW n, RunsWithin(w, i, n), NEW d \in 1 .. LanguageMaxDepth, NEW j \in 1 .. d
    PROVE  w[j] \subseteq w[d]
<1>. DEFINE D == LanguageMaxDepth
            P == {k \in 0 .. D : \A m \in 1 .. k : w[m] \subseteq w[k]}
<1>1. D \in Nat \ {0} /\ \A k \in 2 .. D : w[k - 1] \subseteq w[k]
  BY LanguageMaxDepthAssumption DEF RunsWithin
<1>. HIDE DEF D
<1>2. 0 \in P
  BY <1>1
<1>3. ASSUME NEW k \in 0 .. D - 1, k \in P PROVE k + 1 \in P
  <2>1. k + 1 \in 0 .. D
    BY <1>1
  <2>2. ASSUME NEW m \in 1 .. k + 1 PROVE w[m] \subseteq w[k + 1]
    <3>1. CASE m = k + 1
      BY <3>1
    <3>2. CASE m # k + 1
      <4>1. m \in 1 .. k /\ k + 1 \in 2 .. D /\ (k + 1) - 1 = k
        BY <1>1, <3>2
      <4>2. w[m] \subseteq w[k] /\ w[k] \subseteq w[k + 1]
        BY <1>1, <1>3, <4>1
      <4>. QED  BY <4>2
    <3>. QED  BY <3>1, <3>2
  <2>. QED  BY <2>1, <2>2
<1>4. 0 .. D \subseteq P
  <2>. HIDE DEF P
  <2>. QED  BY <1>1, <1>2, <1>3, IntervalInduction
<1>5. d \in P
  BY <1>4 DEF D
<1>. QED  BY <1>5

(* The search from a handler went as far as the program runs within the    *)
(* bound, or a call on the way is disclosed.                               *)
DisclosedFor(names) == \E e \in unfollowed : e.language = language /\ e.caller \in names /\ e.call.to # {}

LEMMA CallFollowed ==
    ASSUME IndexInv, Plain, read = Len(files), language = "ts" => Ts!DotsTell(SitesOfAll),
           NEW name, NEW dist, NEW V, NEW R, NEW p \in V, NEW names, p \in names,
           Settled(Stops, Steps, ToDisclose, name, dist, V, <<>>, R, unfollowed), dist[p] <= LanguageMaxDepth,
           ~DisclosedFor(names),
           NEW c \in SitesOfAll, c \in Elements(AllCalls(p)), NEW a \in c[2].to
    PROVE  Name(a[1], a[2]) \in V /\ dist[Name(a[1], a[2])] <= dist[p] + 1
<1>. DEFINE t == CallTarget(c).qname
<1>1. c \in Site /\ p \in Stops /\ c[2].to # {}
  BY SitesFacts DEF IndexInv, Settled
<1>2. CASE CallTarget(c).certainty # "unresolved"
  <2>1. Name(a[1], a[2]) = t
    BY <1>2, ResolveMeans
  <2>2. t \in Stops
    BY <1>1 DEF Stops
  <2>3. <<p, t>> \in Steps
    <3>. HIDE DEF t
    <3>1. <<p, t>> \in Stops \X Stops /\ <<p, t>>[1] = p /\ <<p, t>>[2] = t
      BY <1>1, <2>2
    <3>2. CallTarget(c).certainty # "unresolved" /\ CallTarget(c).qname = t
      BY <1>2 DEF t
    <3>. QED  BY <3>1, <3>2 DEF Steps
  <2>. HIDE DEF t
  <2>4. Found(t, dist[p] + 1, dist, V, <<>>)
    BY <2>3 DEF Settled
  <2>5. t \in V /\ dist[t] <= dist[p] + 1
    BY <2>4 DEF Found
  <2>. QED  BY <2>1, <2>5
<1>3. CASE CallTarget(c).certainty = "unresolved"
  <2>. DEFINE e == [language |-> language, caller |-> p, file |-> c[1], call |-> c[2]]
  <2>1. LooksLocal(c[2])
    BY <1>1, <1>3, ResolveMeans
  <2>2. e \in Disclosure(p)
    BY <1>3, <2>1 DEF Disclosure
  <2>3. Disclosure(p) \subseteq unfollowed
    BY <1>1 DEF Settled, ToDisclose
  <2>4. e.language = language /\ e.caller = p /\ e.call = c[2]
    OBVIOUS
  <2>. HIDE DEF e
  <2>. QED  BY <1>1, <2>2, <2>3, <2>4 DEF DisclosedFor
<1>. QED  BY <1>2, <1>3

LEMMA RunsAreFound ==
    ASSUME IndexInv, Plain, read = Len(files), language = "ts" => Ts!DotsTell(SitesOfAll),
           NEW i \in 1 .. Len(files), NEW n \in 1 .. Len(files[i].handlers),
           \A j \in 1 .. Len(files) : \A m \in 1 .. Len(files[j].handlers) :
              HandlerName(j, m) = HandlerName(i, n) => j = i /\ m = n,
           NEW w, RunsWithin(w, i, n), NEW R, NEW dist, NEW V,
           Settled(Stops, Steps, ToDisclose, HandlerName(i, n), dist, V, <<>>, R, unfollowed),
           ~DisclosedFor({HandlerName(i, n)} \cup {Name(a[1], a[2]) : a \in w[LanguageMaxDepth - 1]}),
           NEW b \in w[LanguageMaxDepth]
    PROVE  Name(b[1], b[2]) \in V
<1>. DEFINE D == LanguageMaxDepth
            name == HandlerName(i, n)
            names == {name} \cup {Name(a[1], a[2]) : a \in w[D - 1]}
            own == In(i, files[i].handlers[n].calls)
            P == {d \in 0 .. D : \A a \in w[d] : Name(a[1], a[2]) \in V /\ dist[Name(a[1], a[2])] <= d + 1}
<1>1. FilesInv /\ Indexed = 1 .. Len(files) /\ Len(files) \in Nat /\ D \in Nat \ {0}
  BY AllRead, FileFacts, LanguageMaxDepthAssumption DEF IndexInv
<1>2. dist \in [V -> Nat \ {0}] /\ name \in V /\ dist[name] <= 1
  BY DEF Settled, Shortest, Found
<1>3. HandlerCalls(name) = own
  <2>. HIDE DEF name
  <2>1. HandlersOf(name) = {<<i, n>>}
    <3>1. \A h : h \in HandlersOf(name) <=>
            \E j \in Indexed : \E m \in 1 .. Len(files[j].handlers) : h = <<j, m>> /\ name = HandlerName(j, m)
      BY DEF HandlersOf
    <3>2. <<i, n>> \in HandlersOf(name)
      BY <1>1, <3>1 DEF name
    <3>3. \A h \in HandlersOf(name) : h = <<i, n>>
      BY <1>1, <3>1 DEF name
    <3>. QED  BY <3>2, <3>3
  <2>2. \E h \in HandlersOf(name) : HandlerCalls(name) = In(h[1], files[h[1]].handlers[h[2]].calls)
    BY <1>1, <2>1, HandlerCallsFacts
  <2>. QED  BY <2>1, <2>2
<1>4. ASSUME NEW a \in w[1] PROVE Name(a[1], a[2]) \in V /\ dist[Name(a[1], a[2])] <= 2
  <2>. HIDE DEF own
  <2>1. PICK c \in Elements(own) : a \in c[2].to
    BY ToSetElements DEF RunsWithin, Targets, own
  <2>2. c \in SitesOfAll
    BY <1>1, <2>1, HandlerSites DEF own
  <2>. HIDE DEF name
  <2>3. c \in Elements(AllCalls(name))
    BY <1>1, <1>3, <2>1, AllCallsFacts
  <2>4. name \in names /\ ~DisclosedFor(names) /\ dist[name] <= LanguageMaxDepth
    BY <1>1, <1>2 DEF name
  <2>. HIDE DEF names
  <2>5. Settled(Stops, Steps, ToDisclose, name, dist, V, <<>>, R, unfollowed)
    BY DEF name
  <2>. DEFINE t == Name(a[1], a[2])
  <2>6. t \in V /\ dist[t] <= dist[name] + 1
    BY <1>2, <2>1, <2>2, <2>3, <2>4, <2>5, CallFollowed
  <2>. HIDE DEF t
  <2>7. dist[t] \in Nat /\ dist[name] \in Nat
    BY <1>2, <2>6
  <2>8. t \in V /\ dist[t] <= 2
    BY <1>2, <2>6, <2>7
  <2>. QED  BY <2>8 DEF t
<1>5. ASSUME NEW d \in 1 .. D - 1, NEW a \in w[d + 1],
             \A x \in w[d] : Name(x[1], x[2]) \in V /\ dist[Name(x[1], x[2])] <= d + 1
      PROVE  Name(a[1], a[2]) \in V /\ dist[Name(a[1], a[2])] <= d + 2
  <2>. DEFINE t == Name(a[1], a[2])
  <2>1. w[d + 1] = w[d] \cup Targets(CallsOfAll(w[d])) /\ d \in 0 .. D
    <3>1. d + 1 \in 2 .. D /\ (d + 1) - 1 = d /\ d \in 0 .. D
      BY <1>1
    <3>. QED  BY <3>1 DEF RunsWithin
  <2>2. CASE a \in w[d]
    <3>1. t \in V /\ dist[t] <= d + 1
      BY <1>5, <2>2
    <3>. HIDE DEF t
    <3>2. dist[t] \in Nat
      BY <1>2, <3>1
    <3>3. t \in V /\ dist[t] <= d + 2
      BY <3>1, <3>2
    <3>. QED  BY <3>3 DEF t
  <2>3. CASE a \in Targets(CallsOfAll(w[d]))
    <3>1. PICK c \in CallsOfAll(w[d]) : a \in c[2].to
      BY <2>3 DEF Targets
    <3>2. PICK x \in w[d] : c \in ToSet(Body(x[1], x[2]))
      BY <3>1 DEF CallsOfAll
    <3>. DEFINE p == Name(x[1], x[2])
    <3>3. x \in FunctionsOf(Indexed)
      BY <2>1, <3>2 DEF RunsWithin
    <3>4. x[1] \in Indexed /\ x[1] \in 1 .. Len(files) /\ x[2] \in 0 .. Len(files[x[1]].functions)
      <4>1. x[1] \in 1 .. Len(files) /\ x[2] \in 1 .. Len(files[x[1]].functions)
        BY <1>1, <3>3 DEF FunctionsOf
      <4>2. Len(files[x[1]].functions) \in Nat
        BY <1>1, <4>1, FileShape
      <4>. QED  BY <1>1, <4>1, <4>2
    <3>5. c \in SitesOfAll
      <4>1. w[d] \in SUBSET FunctionsOf(Indexed)
        BY <2>1 DEF RunsWithin
      <4>. QED  BY <1>1, <3>1, <4>1, BodySites
    <3>6. language = "ts" => ~Ts!Importing(c[2])
      BY <3>1, <3>5 DEF Ts!DotsTell
    <3>7. c \in Elements(CallSites(x[1], x[2]))
      BY <1>1, <3>2, <3>4, <3>6, CallSitesFacts, ToSetElements
    <3>8. c \in Elements(AllCalls(p))
      <4>1. c \in Elements(CallSitesIn(p))
        BY <1>1, <3>4, <3>7, CallSitesInFacts
      <4>. HIDE DEF p
      <4>. QED  BY <1>1, <4>1, AllCallsFacts
    <3>9. p \in names
      <4>1. x \in w[D - 1]
        <5>1. D - 1 \in 1 .. D /\ d \in 1 .. D - 1
          BY <1>1
        <5>. HIDE DEF D
        <5>. QED  BY <3>2, <5>1, RunsGrow DEF D
      <4>. QED  BY <4>1
    <3>10. p \in V /\ dist[p] <= d + 1
      BY <1>5, <3>2
    <3>11. ~DisclosedFor(names)
      OBVIOUS
    <3>. HIDE DEF names, p, t
    <3>12. dist[p] \in Nat /\ dist[p] <= LanguageMaxDepth
      <4>1. dist[p] \in Nat
        BY <1>2, <3>10
      <4>. QED  BY <1>1, <3>10, <4>1
    <3>13. t \in V /\ dist[t] <= dist[p] + 1
      BY <3>1, <3>5, <3>8, <3>9, <3>10, <3>11, <3>12, CallFollowed DEF t
    <3>14. dist[t] \in Nat
      BY <1>2, <3>13
    <3>15. t \in V /\ dist[t] <= d + 2
      BY <3>10, <3>12, <3>13, <3>14
    <3>. QED  BY <3>15 DEF t
  <2>. QED  BY <2>1, <2>2, <2>3
<1>6. 0 \in P
  <2>1. w[0] = {} /\ 0 \in 0 .. D
    BY <1>1 DEF RunsWithin
  <2>. QED  BY <2>1
<1>7. ASSUME NEW d \in 0 .. D - 1, d \in P PROVE d + 1 \in P
  <2>1. d + 1 \in 0 .. D
    BY <1>1
  <2>2. ASSUME NEW a \in w[d + 1] PROVE Name(a[1], a[2]) \in V /\ dist[Name(a[1], a[2])] <= (d + 1) + 1
    <3>1. CASE d = 0
      BY <1>4, <3>1
    <3>2. CASE d # 0
      <4>1. d \in 1 .. D - 1 /\ (d + 1) + 1 = d + 2
        BY <1>1, <3>2
      <4>2. \A x \in w[d] : Name(x[1], x[2]) \in V /\ dist[Name(x[1], x[2])] <= d + 1
        BY <1>7
      <4>. QED  BY <1>5, <4>1, <4>2
    <3>. QED  BY <3>1, <3>2
  <2>. QED  BY <2>1, <2>2
<1>8. D \in P
  <2>. HIDE DEF P, D
  <2>1. 0 .. D \subseteq P
    BY <1>1, <1>6, <1>7, IntervalInduction
  <2>. QED  BY <1>1, <2>1
<1>. QED  BY <1>8

LEMMA ReportInvariant == ScanSpec => [](IndexInv /\ SearchInv /\ ListsInv /\ ReportInv)
<1>1. ScanInit => ReportInv
  BY DEF ScanInit, ReportInv
<1>2. ScanInit => IndexInv /\ SearchInv /\ ListsInv /\ ReportInv
  BY <1>1, IndexAtStart, SearchAtStart, ListsAtStart
<1>3. IndexInv /\ SearchInv /\ ListsInv /\ ReportInv /\ [ScanNext]_scanVars
        => IndexInv' /\ SearchInv' /\ ListsInv' /\ ReportInv'
  BY IndexStep, SearchStep, ListsStep, ReportStep
<1>. QED  BY <1>2, <1>3, PTL DEF ScanSpec

(* No symbols, no functions. *)
LEMMA NoSymbolsNoFunctions ==
    ASSUME IndexInv, symbols = <<>>
    PROVE  FunctionsOf(Indexed) = {}
<1>1. CASE language = "ts"
  <2>1. PICK at : TsSymbolsAt(Indexed, symbols, at)
    BY <1>1 DEF IndexInv, SymbolsInv, TsSymbols
  <2>. QED  BY <2>1 DEF TsSymbolsAt
<1>2. CASE language = "go"
  <2>1. Elements(symbols) = {}
    BY DEF Elements
  <2>. QED  BY <1>2, <2>1 DEF IndexInv, SymbolsInv, GoSymbols
<1>. QED  BY <1>1, <1>2 DEF IndexInv, FilesInv

(* A sink that a handler can run within the bound is reported, or a call   *)
(* on the way there is disclosed: the breadth-first search from a handler  *)
(* gets to every function by a shortest path, whatever order the files and *)
(* the calls are in, so that the bound cuts off nothing that runs within   *)
(* it; each function visited either leads on through a call or discloses   *)
(* it; and what was reachable is reported before the layer ends.           *)
THEOREM NothingIsDropped == ScanSpec => []ReachedOrDisclosed
<1>1. IndexInv /\ SearchInv /\ ListsInv /\ ReportInv => ReachedOrDisclosed
  <2>. SUFFICES ASSUME IndexInv, ReportInv, stage = "done", ~analysisError, Plain,
                       language = "ts" => Ts!DotsTell(SitesOfAll),
                       NEW i \in 1 .. Len(files), NEW n \in 1 .. Len(files[i].handlers),
                       \A j \in 1 .. Len(files) : \A m \in 1 .. Len(files[j].handlers) :
                          HandlerName(j, m) = HandlerName(i, n) => j = i /\ m = n,
                       NEW a \in RunsOf(i, n)[LanguageMaxDepth], NEW s \in ToSet(files[a[1]].sinks), s.inside = a[2],
                       ~DisclosedFor({HandlerName(i, n)} \cup
                                     {Name(b[1], b[2]) : b \in RunsOf(i, n)[LanguageMaxDepth - 1]})
                PROVE  Reported(<<files[a[1]].path, s.line>>)
    BY DEF ReachedOrDisclosed, DisclosedFor
  <2>. DEFINE w == RunsOf(i, n)
              name == HandlerName(i, n)
              t == Name(a[1], a[2])
  <2>1. read = Len(files) /\ FilesInv /\ Complete
    BY DEF IndexInv, SymbolsInv, ReportInv
  <2>2. Indexed = 1 .. Len(files) /\ Len(files) \in Nat
    BY <2>1, AllRead, FileFacts
  <2>3. RunsWithin(w, i, n)
    BY <2>1, RunsFacts
  <2>. HIDE DEF w
  <2>4. a \in FunctionsOf(Indexed)
    <3>1. LanguageMaxDepth \in 0 .. LanguageMaxDepth
      BY LanguageMaxDepthAssumption
    <3>. QED  BY <2>3, <3>1 DEF RunsWithin, w
  <2>5. a[1] \in Indexed /\ a[1] \in 1 .. Len(files) /\ a[2] \in 0 .. Len(files[a[1]].functions) /\ a[2] # 0
    <3>1. a[1] \in Indexed /\ a[1] \in 1 .. Len(files) /\ a[2] \in 1 .. Len(files[a[1]].functions)
      BY <2>2, <2>4 DEF FunctionsOf
    <3>2. Len(files[a[1]].functions) \in Nat
      BY <2>1, <3>1, FileShape
    <3>. QED  BY <3>1, <3>2
  <2>6. name \in Elements(HandlerNames)
    BY <2>1, <2>2, HandlerNamesFacts
  <2>7. ClosedFrom(name) /\ \A x \in Elements(SinksFound) : Dealt(x)
    <3>1. symbols # <<>>
      BY <2>4, NoSymbolsNoFunctions
    <3>2. HandlerNames # <<>>
      BY <2>6 DEF Elements
    <3>. HIDE DEF name
    <3>. QED  BY <2>1, <2>6, <3>1, <3>2 DEF Complete
  <2>8. PICK dist, V : Settled(Stops, Steps, ToDisclose, name, dist, V, <<>>, DOMAIN reachable, unfollowed)
    BY <2>7 DEF ClosedFrom, Closed
  <2>9. t \in V
    BY <2>1, <2>3, <2>8, RunsAreFound DEF w
  <2>10. t # name
    BY <2>1, <2>5, NamesDiffer
  <2>11. t \in DOMAIN reachable
    <3>. HIDE DEF t, name
    <3>. QED  BY <2>8, <2>9, <2>10 DEF Settled
  <2>12. PICK k \in 1 .. Len(files[a[1]].sinks) : files[a[1]].sinks[k] = s
    <3>1. files[a[1]].sinks \in Seq(LanguageSink)
      BY <2>1, <2>5, FileShape
    <3>2. s \in Elements(files[a[1]].sinks)
      BY ToSetElements
    <3>3. \E k \in 1 .. Len(files[a[1]].sinks) : files[a[1]].sinks[k] = s
      BY ONLY <3>1, <3>2, InElements
    <3>. QED  BY ONLY <3>3
  <2>13. s.nearest = a[2]
    BY <2>5 DEF Plain
  <2>14. PICK x \in Elements(SinksFound) :
           /\ x.caller = IF language = "ts" THEN Ts!Name(a[1], s.nearest) ELSE Go!Caller(a[1], s.nearest)
           /\ x.file = files[a[1]].path /\ x.line = s.line
    BY <2>1, <2>5, <2>12, SinksFoundFacts
  <2>15. x.caller = t
    <3>1. Go!Indexed = Indexed
      BY <2>1, AllRead
    <3>2. Go!Caller(a[1], a[2]) = Go!Name(a[1], a[2])
      BY <2>5, <3>1 DEF Go!Caller
    <3>. QED  BY <2>13, <2>14, <3>2 DEF Name
  <2>16. Reported(<<x.file, x.line>>) \/ \E r \in newFindings : r.file = x.file /\ r.line = x.line
    <3>. HIDE DEF t
    <3>. QED  BY <2>7, <2>11, <2>15 DEF Dealt
  <2>17. Reported(<<x.file, x.line>>)
    BY <2>16 DEF ReportInv
  <2>. QED  BY <2>14, <2>17
<1>. QED  BY <1>1, ReportInvariant, PTL

-----------------------------------------------------------------------------
(* The Python index, and the edges of plain calls.                         *)

Parsed == {f \in Files : program[f].parses = "yes"}

(* What `from m import n` binds, where that is something of the repository. *)
Defined(m, n) ==
    \E g \in Parsed : /\ program[g].module = m
                       /\ \E d \in ToSet(program[g].defs) : d.kind # "method" /\ d.name = n

RegisteredInv ==
    /\ \E T : registered \in Seq(T)
    /\ \A f \in Added \cap Parsed : \A d \in ToSet(program[f].defs) :
         SymbolOf(f, d) \in Elements(registered)
    /\ \A s \in Elements(registered) :
         \E f \in Added \cap Parsed : \E d \in ToSet(program[f].defs) : s = SymbolOf(f, d)

PendingInv ==
    /\ \E T : pending \in Seq(T)
    /\ \A f \in Added \cap Parsed : \A m \in ToSet(program[f].imports) : <<f, m>> \in Elements(pending)
    /\ \A p \in Elements(pending) :
         \E f \in Added \cap Parsed : \E m \in ToSet(program[f].imports) : p = <<f, m>>

(* What an import without dots binds: its target is a symbol if and only   *)
(* if the module imported defines it.                                      *)
Means(m, t) ==
    m.form # "star" /\ m.level = 0 =>
      /\ t.certainty # "unresolved"
      /\ t.symbol <=> m.form = "from" /\ Defined(m.module, m.name)
      /\ t.symbol => t.certainty = "resolved" /\ t.qname = Append(m.module, m.name)

Importing(f, n) == {m \in ToSet(program[f].imports) : m.bound = n}

BindingsMean ==
    \A f \in Parsed : \A n \in Names :
       IF Importing(f, n) = {} THEN bindings[f][n] = Unbound
       ELSE \E m \in Importing(f, n) : Means(m, bindings[f][n])

GraphInv ==
    /\ program \in Programs /\ waiting \subseteq Files
    /\ phase \in {"index", "graph"} => edges = {} /\ RegisteredInv
    /\ phase = "index" => PendingInv /\ bindings = [f \in Files |-> [n \in Names |-> Unbound]]
    /\ phase = "graph" => waiting = {} /\ (ModulesDiffer => BindingsMean)

LEMMA LastIsElement ==
    ASSUME NEW T, NEW s \in Seq(T), s # <<>>
    PROVE  s[1] \in Elements(s) /\ LastOf(s) \in Elements(s)
BY DEF Elements, LastOf

LEMMA KeptElements ==
    ASSUME NEW T, NEW s \in Seq(T), NEW A
    PROVE  /\ Elements(Kept(s, A)) = Elements(s) \cap A
           /\ Elements(s) \cap A = {} <=> Kept(s, A) = <<>>
           /\ Elements(s) \cap A # {} => Kept(s, A)[1] \in Elements(s) \cap A /\ LastOf(Kept(s, A)) \in Elements(s) \cap A
<1>. DEFINE k == Kept(s, A)
<1>1. k \in Seq(T) /\ Elements(k) = Elements(s) \cap A
  BY KeptFacts
<1>. HIDE DEF k
<1>2. k = <<>> => Elements(k) = {}
  BY DEF Elements
<1>3. k # <<>> => k[1] \in Elements(k) /\ LastOf(k) \in Elements(k)
  BY <1>1, LastIsElement
<1>. QED  BY <1>1, <1>2, <1>3 DEF k

LEMMA ProgramFacts ==
    ASSUME program \in Programs, NEW f \in Files
    PROVE  /\ program[f].module \in Seq(Names) \ {<<>>}
           /\ program[f].defs \in Seq(Def) /\ program[f].imports \in Seq(Import)
           /\ program[f].calls \in Seq(Call)
BY ProgramAssumption DEF File, QName

LEMMA SymbolsOfFile ==
    ASSUME program \in Programs, NEW f \in Files
    PROVE  /\ \E T : SymbolsIn(f) \in Seq(T)
           /\ Elements(SymbolsIn(f)) = {SymbolOf(f, d) : d \in ToSet(program[f].defs)}
<1>. DEFINE defs == program[f].defs
            S == Elements(defs)
            methods == {d \in S : d.kind = "method"}
            first == Kept(defs, S \ methods)
            second == Kept(defs, methods)
            ordered == first \o second
            out == [i \in 1 .. Len(ordered) |-> SymbolOf(f, ordered[i])]
            T == {SymbolOf(f, d) : d \in Def}
<1>1. defs \in Seq(Def)
  BY ProgramFacts
<1>2. SymbolsIn(f) = out /\ ToSet(defs) = S
  BY ToSetElements DEF SymbolsIn
<1>3. /\ first \in Seq(Def) /\ second \in Seq(Def)
      /\ Elements(first) = S \cap (S \ methods) /\ Elements(second) = S \cap methods
  <2>. HIDE DEF methods, defs
  <2>. QED  BY <1>1, KeptFacts
<1>4. ordered \in Seq(Def) /\ Elements(ordered) = S
  <2>. HIDE DEF first, second, S, methods
  <2>1. ordered \in Seq(Def) /\ Elements(ordered) = Elements(first) \cup Elements(second)
    BY <1>3, ConcatElements
  <2>2. (S \cap (S \ methods)) \cup (S \cap methods) = S
    OBVIOUS
  <2>. QED  BY <1>3, <2>1, <2>2
<1>. HIDE DEF ordered, defs, S
<1>5. out \in Seq(T) /\ DOMAIN out = 1 .. Len(ordered) /\ DOMAIN ordered = 1 .. Len(ordered)
      /\ \A i \in 1 .. Len(ordered) : out[i] = SymbolOf(f, ordered[i])
  <2>1. \A i \in 1 .. Len(ordered) : SymbolOf(f, ordered[i]) \in T
    BY <1>4
  <2>. HIDE DEF T
  <2>. QED  BY <1>4, <2>1
<1>. HIDE DEF T, out
<1>6. Elements(out) = {SymbolOf(f, d) : d \in S}
  <2>. HIDE DEF S
  <2>1. \A x : x \in Elements(out) <=> \E i \in 1 .. Len(ordered) : x = SymbolOf(f, ordered[i])
    BY <1>5 DEF Elements
  <2>2. \A d : d \in S <=> \E i \in 1 .. Len(ordered) : d = ordered[i]
    BY <1>4, <1>5 DEF Elements
  <2>. QED  BY <2>1, <2>2
<1>. HIDE DEF S
<1>7. \E A : out \in Seq(A)
  BY <1>5
<1>8. SymbolsIn(f) = out /\ ToSet(program[f].defs) = S
  BY <1>2 DEF defs
<1>. QED  BY <1>6, <1>7, <1>8

LEMMA GraphAtStart == ScanInit => GraphInv /\ PlainCallsFollowed
<1>. SUFFICES ASSUME ScanInit PROVE GraphInv /\ PlainCallsFollowed
  OBVIOUS
<1>1. /\ program \in Programs /\ waiting = Files /\ registered = <<>> /\ pending = <<>>
      /\ bindings = [f \in Files |-> [n \in Names |-> Unbound]]
      /\ phase = "index" /\ edges = {}
  BY DEF ScanInit, AnalysisInit, Init
<1>2. RegisteredInv /\ PendingInv
  BY <1>1 DEF RegisteredInv, PendingInv, Added, Elements
<1>. QED  BY <1>1, <1>2 DEF GraphInv, PlainCallsFollowed

(* No other step touches the index or the call graph.                      *)
IndexSame == UNCHANGED <<program, waiting, registered, pending, bindings, edges>>

LEMMA GraphSteps ==
    [ScanNext]_scanVars =>
      \/ IndexFile \/ FinishIndex \/ BuildGraph \/ Rescan
      \/ /\ IndexSame
         /\ \/ phase' = phase
            \/ phase' \notin {"index", "graph"}
<1>. SUFFICES ASSUME [ScanNext]_scanVars, ~IndexFile, ~FinishIndex, ~BuildGraph, ~Rescan
              PROVE  IndexSame /\ (phase' = phase \/ phase' \notin {"index", "graph"})
  OBVIOUS
<1>. USE DEF IndexSame, vars, workVars, resultVars, indexVars, languageVars, registryVars, searchVars, reportVars
<1>1. CASE UNCHANGED scanVars
  BY <1>1 DEF scanVars
<1>2. CASE PythonLayer /\ UNCHANGED <<beside, languageVars>>
  BY <1>2 DEF PythonLayer, Fail, DiscoverEntrypoints, Reach, Seed, AnalyseFunction, FinishAnalysis,
              AddGuardEvidence, Merge
<1>3. CASE LanguageLayer
  <2>1. Onward => UNCHANGED newFindings
    BY DEF Onward
  <2>. QED  BY <1>3, <2>1 DEF LanguageLayer, StartLayer, AddLanguageFile, NoSymbols, FinalizeLanguage,
              FailLayer, NoHandlers, DiscoverHandlers, NextEntry, VisitPath, StartReport, ReportSink,
              FinishReport, MergeFindings
<1>4. CASE ScanAgain
  BY <1>4 DEF ScanAgain
<1>. QED  BY <1>1, <1>2, <1>3, <1>4 DEF ScanNext

LEMMA RegisteredSame ==
    ASSUME RegisteredInv, UNCHANGED <<program, waiting, registered>>
    PROVE  RegisteredInv'
<1>1. Added' = Added /\ Parsed' = Parsed
  BY DEF Added, Parsed
<1>2. \A f, d : SymbolOf(f, d)' = SymbolOf(f, d)
  BY DEF SymbolOf
<1>. QED  BY <1>1, <1>2 DEF RegisteredInv

LEMMA PendingSame ==
    ASSUME PendingInv, UNCHANGED <<program, waiting, pending>>
    PROVE  PendingInv'
BY DEF PendingInv, Added, Parsed

LEMMA AppendsEqual ==
    ASSUME NEW S, NEW s \in Seq(S), NEW t \in Seq(S), NEW x \in S, NEW y \in S,
           Append(s, x) = Append(t, y)
    PROVE  s = t /\ x = y
<1>. DEFINE u == Append(s, x)
            v == Append(t, y)
<1>1. /\ Len(s) \in Nat /\ Len(u) = Len(s) + 1 /\ u[Len(s) + 1] = x
      /\ \A i \in 1 .. Len(s) : u[i] = s[i]
  BY AppendInSeq
<1>2. /\ Len(t) \in Nat /\ Len(v) = Len(t) + 1 /\ v[Len(t) + 1] = y
      /\ \A i \in 1 .. Len(t) : v[i] = t[i]
  BY AppendInSeq
<1>3. u = v
  OBVIOUS
<1>. HIDE DEF u, v
<1>4. Len(s) = Len(t) /\ x = y /\ \A i \in 1 .. Len(s) : s[i] = t[i]
  BY <1>1, <1>2, <1>3
<1>. QED  BY <1>4

(* A file is added, or left out because it does not parse.                 *)
LEMMA IndexFileStep ==
    ASSUME GraphInv, IndexFile
    PROVE  GraphInv'
<1>1. PICK f \in Files : AddFile(f) \/ SkipFile(f)
  BY DEF IndexFile
<1>2. /\ phase = "index" /\ phase' = "index" /\ edges' = edges /\ program' = program
      /\ bindings' = bindings /\ f \in waiting /\ waiting' = waiting \ {f}
  BY <1>1 DEF IndexFile, AddFile, SkipFile, workVars
<1>3. /\ program \in Programs /\ waiting \subseteq Files /\ edges = {} /\ RegisteredInv /\ PendingInv
      /\ bindings = [g \in Files |-> [n \in Names |-> Unbound]]
  BY <1>2 DEF GraphInv
<1>4. Added' = Added \cup {f} /\ Parsed' = Parsed
  BY <1>2, <1>3 DEF Added, Parsed
<1>5. \A g, d : SymbolOf(g, d)' = SymbolOf(g, d)
  BY <1>2 DEF SymbolOf
<1>6. RegisteredInv' /\ PendingInv'
  <2>1. CASE SkipFile(f)
    <3>1. UNCHANGED <<registered, pending>> /\ f \notin Parsed
      BY <2>1 DEF SkipFile, Parsed
    <3>2. Added' \cap Parsed' = Added \cap Parsed
      BY <1>4, <3>1
    <3>. QED  BY <1>2, <1>3, <1>5, <3>1, <3>2 DEF RegisteredInv, PendingInv
  <2>2. CASE AddFile(f)
    <3>1. /\ registered' = registered \o SymbolsIn(f) /\ f \in Parsed
          /\ pending' = pending \o [i \in 1 .. Len(program[f].imports) |-> <<f, program[f].imports[i]>>]
      BY <2>2 DEF AddFile, Parsed
    <3>2. Added' \cap Parsed' = (Added \cap Parsed) \cup {f}
      BY <1>4, <3>1
    <3>3. RegisteredInv'
      <4>1. PICK T : registered \in Seq(T)
        BY <1>3 DEF RegisteredInv
      <4>2. PICK U : SymbolsIn(f) \in Seq(U)
        BY <1>3, SymbolsOfFile
      <4>3. /\ registered' \in Seq(T \cup U)
            /\ Elements(registered') = Elements(registered) \cup Elements(SymbolsIn(f))
        <5>. DEFINE a == registered
                    b == SymbolsIn(f)
                    S == T \cup U
        <5>1. a \in Seq(S) /\ b \in Seq(S)
          BY <4>1, <4>2
        <5>. HIDE DEF a, b, S
        <5>2. a \o b \in Seq(S) /\ Elements(a \o b) = Elements(a) \cup Elements(b)
          BY <5>1, ConcatElements
        <5>. QED  BY <3>1, <5>2 DEF a, b, S
      <4>4. Elements(SymbolsIn(f)) = {SymbolOf(f, d) : d \in ToSet(program[f].defs)}
        BY <1>3, SymbolsOfFile
      <4>5. \E A : registered' \in Seq(A)
        BY <4>3
      <4>6. \A g \in Added' \cap Parsed' : \A d \in ToSet(program'[g].defs) :
              SymbolOf(g, d)' \in Elements(registered')
        BY <1>2, <1>3, <1>5, <3>2, <4>3, <4>4 DEF RegisteredInv
      <4>7. \A s \in Elements(registered') :
              \E g \in Added' \cap Parsed' : \E d \in ToSet(program'[g].defs) : s = SymbolOf(g, d)'
        BY <1>2, <1>3, <1>5, <3>2, <4>3, <4>4 DEF RegisteredInv
      <4>. QED  BY <4>5, <4>6, <4>7 DEF RegisteredInv
    <3>4. PendingInv'
      <4>. DEFINE imports == program[f].imports
                  more == [i \in 1 .. Len(imports) |-> <<f, imports[i]>>]
                  P == {f} \X Import
      <4>1. PICK T : pending \in Seq(T)
        BY <1>3 DEF PendingInv
      <4>2. imports \in Seq(Import)
        BY <1>3, ProgramFacts
      <4>. HIDE DEF imports
      <4>3. /\ more \in Seq(P) /\ DOMAIN more = 1 .. Len(imports)
            /\ DOMAIN imports = 1 .. Len(imports)
            /\ \A i \in 1 .. Len(imports) : more[i] = <<f, imports[i]>>
        <5>1. \A i \in 1 .. Len(imports) : <<f, imports[i]>> \in P
          BY <4>2
        <5>. HIDE DEF P
        <5>. QED  BY <4>2, <5>1
      <4>4. pending' = pending \o more
        BY <3>1 DEF imports
      <4>. HIDE DEF more, P
      <4>5. pending' \in Seq(T \cup P) /\ Elements(pending') = Elements(pending) \cup Elements(more)
        <5>. DEFINE S == T \cup P
        <5>1. pending \in Seq(S) /\ more \in Seq(S)
          BY <4>1, <4>3
        <5>. HIDE DEF S
        <5>2. pending \o more \in Seq(S) /\ Elements(pending \o more) = Elements(pending) \cup Elements(more)
          BY <5>1, ConcatElements
        <5>. QED  BY <4>4, <5>2 DEF S
      <4>6. \A p : p \in Elements(more) <=> \E m \in ToSet(imports) : p = <<f, m>>
        BY <4>3 DEF Elements, ToSet
      <4>7. \E A : pending' \in Seq(A)
        BY <4>5
      <4>8. \A g \in Added' \cap Parsed' : \A m \in ToSet(program'[g].imports) : <<g, m>> \in Elements(pending')
        BY <1>2, <1>3, <3>2, <4>5, <4>6 DEF PendingInv, imports
      <4>9. \A p \in Elements(pending') :
              \E g \in Added' \cap Parsed' : \E m \in ToSet(program'[g].imports) : p = <<g, m>>
        BY <1>2, <1>3, <3>2, <4>5, <4>6 DEF PendingInv, imports
      <4>. QED  BY <4>7, <4>8, <4>9 DEF PendingInv
    <3>. QED  BY <3>3, <3>4
  <2>. QED  BY <1>1, <2>1, <2>2
<1>7. waiting' \subseteq Files /\ program' \in Programs /\ edges' = {}
      /\ bindings' = [g \in Files |-> [n \in Names |-> Unbound]]
  BY <1>2, <1>3
<1>. QED  BY <1>2, <1>6, <1>7 DEF GraphInv, Unbound, Target

(* A name that is registered, and the symbols of a name in a file.         *)
LEMMA KnownIsRegistered == \A q : Known(q) <=> \E s \in Elements(registered) : s.qname = q
<1>. SUFFICES ASSUME NEW q PROVE Known(q) <=> \E s \in Elements(registered) : s.qname = q
  OBVIOUS
<1>1. Known(q) => \E i \in 1 .. Len(registered) : registered[i].qname = q
  BY DEF Known
<1>. QED  BY <1>1 DEF Known, Elements

LEMMA SymbolName ==
    ASSUME program \in Programs, NEW f \in Files, NEW d \in Def
    PROVE  /\ SymbolOf(f, d).name = d.name /\ SymbolOf(f, d).file = f
           /\ d.kind # "method" => SymbolOf(f, d).qname = Append(program[f].module, d.name)
           /\ d.kind = "method" =>
                SymbolOf(f, d).qname = Append(program[f].module \o <<d.cls>>, d.name)
BY DEF SymbolOf, Def

LEMMA DefFacts ==
    ASSUME program \in Programs, NEW f \in Files, NEW d \in ToSet(program[f].defs)
    PROVE  d \in Def /\ d.name \in Names /\ d.cls \in Names
<1>1. program[f].defs \in Seq(Def)
  BY ProgramFacts
<1>2. d \in Def
  BY <1>1 DEF ToSet
<1>. QED  BY <1>2 DEF Def

LEMMA ImportFacts ==
    ASSUME program \in Programs, NEW f \in Files, NEW m \in ToSet(program[f].imports)
    PROVE  /\ m \in Import /\ m.module \in Seq(Names) /\ m.name \in Names /\ m.bound \in Names
           /\ m.form \in {"import", "from", "star"} /\ m.level \in Nat
<1>1. program[f].imports \in Seq(Import)
  BY ProgramFacts
<1>2. m \in Import
  BY <1>1 DEF ToSet
<1>. QED  BY <1>2 DEF Import, QName

(* What an import binds is what it names.                                  *)
LEMMA ImportMeans ==
    ASSUME program \in Programs, waiting = {}, RegisteredInv, ModulesDiffer,
           NEW f \in Parsed, NEW m \in ToSet(program[f].imports)
    PROVE  Means(m, ImportTarget(f, m))
<1>. DEFINE q == Append(m.module, m.name)
            found == \E g \in Parsed : program[g].module = m.module
<1>0. f \in Files /\ Added = Files
  BY DEF Parsed, Added
<1>1. /\ m.module \in Seq(Names) /\ m.name \in Names /\ m.bound \in Names
      /\ m.form \in {"import", "from", "star"} /\ m.level \in Nat
  BY <1>0, ImportFacts
<1>. SUFFICES ASSUME m.form # "star", m.level = 0 PROVE Means(m, ImportTarget(f, m))
  BY DEF Means
<1>2. CASE m.form = "import"
  <2>1. ImportTarget(f, m) = Target(m.module,
                      IF IsModule(m.module) \/ IsModule(SubSeq(m.module, 1, 1))
                      THEN "resolved" ELSE "heuristic", FALSE, m.module)
    BY <1>2 DEF ImportTarget
  <2>2. ImportTarget(f, m).certainty # "unresolved" /\ ImportTarget(f, m).symbol = FALSE
    BY <2>1 DEF Target
  <2>. QED  BY <1>2, <2>2 DEF Means
<1>3. CASE m.form = "from"
  <2>1. ModuleDotted(f, m) = <<found, m.module>>
    BY <1>0 DEF ModuleDotted, Parsed
  <2>2. found /\ Known(q) <=> Defined(m.module, m.name)
    <3>1. ASSUME NEW g \in Parsed, program[g].module = m.module,
                 NEW d \in ToSet(program[g].defs), d.kind # "method", d.name = m.name
          PROVE  found /\ Known(q)
      <4>1. g \in Files /\ g \in Added \cap Parsed
        BY <1>0 DEF Parsed
      <4>2. SymbolOf(g, d) \in Elements(registered)
        BY <4>1 DEF RegisteredInv
      <4>3. SymbolOf(g, d).qname = q
        <5>1. d \in Def
          BY <4>1, DefFacts
        <5>2. SymbolOf(g, d).qname = Append(program[g].module, d.name)
          BY <3>1, <4>1, <5>1, SymbolName
        <5>. QED  BY <3>1, <5>2
      <4>. QED  BY <3>1, <4>2, <4>3, KnownIsRegistered
    <3>2. ASSUME found, Known(q) PROVE Defined(m.module, m.name)
      <4>1. PICK s \in Elements(registered) : s.qname = q
        BY <3>2, KnownIsRegistered
      <4>2. PICK g \in Parsed : \E d \in ToSet(program[g].defs) : s = SymbolOf(g, d)
        BY <4>1 DEF RegisteredInv
      <4>3. PICK d \in ToSet(program[g].defs) : s = SymbolOf(g, d)
        BY <4>2
      <4>4. g \in Files /\ program[g].module \in Seq(Names)
        BY ProgramFacts DEF Parsed
      <4>5. d \in Def /\ d.name \in Names /\ d.cls \in Names
        BY <4>4, DefFacts
      <4>6. CASE d.kind # "method"
        <5>1. Append(program[g].module, d.name) = Append(m.module, m.name)
          BY <4>1, <4>3, <4>4, <4>5, <4>6, SymbolName
        <5>2. program[g].module = m.module /\ d.name = m.name
          <6>. DEFINE s1 == program[g].module
                      s2 == m.module
                      x1 == d.name
                      x2 == m.name
          <6>1. s1 \in Seq(Names) /\ s2 \in Seq(Names) /\ x1 \in Names /\ x2 \in Names
                /\ Append(s1, x1) = Append(s2, x2)
            BY <1>1, <4>4, <4>5, <5>1
          <6>. HIDE DEF s1, s2, x1, x2
          <6>2. s1 = s2 /\ x1 = x2
            BY <6>1, AppendsEqual
          <6>. QED  BY <6>2 DEF s1, s2, x1, x2
        <5>. QED  BY <4>6, <5>2 DEF Defined
      <4>7. CASE d.kind = "method"
        <5>. DEFINE c == program[g].module \o <<d.cls>>
        <5>1. c \in Seq(Names) /\ c = Append(program[g].module, d.cls)
          BY <4>4, <4>5
        <5>2. Append(c, d.name) = Append(m.module, m.name)
          BY <4>1, <4>3, <4>4, <4>5, <4>7, SymbolName
        <5>. HIDE DEF c
        <5>3. c = m.module
          <6>. DEFINE s2 == m.module
                      x1 == d.name
                      x2 == m.name
          <6>1. c \in Seq(Names) /\ s2 \in Seq(Names) /\ x1 \in Names /\ x2 \in Names
                /\ Append(c, x1) = Append(s2, x2)
            BY <1>1, <4>5, <5>1, <5>2
          <6>. HIDE DEF s2, x1, x2
          <6>2. c = s2
            BY <6>1, AppendsEqual
          <6>. QED  BY <6>2 DEF s2
        <5>4. PICK h \in Parsed : program[h].module = m.module
          BY <3>2
        <5>5. program[h].module # Append(program[g].module, d.cls)
          BY <4>7 DEF ModulesDiffer, Parsed
        <5>. QED  BY <5>1, <5>3, <5>4, <5>5
      <4>. QED  BY <4>6, <4>7
    <3>. HIDE DEF found, q
    <3>. QED  BY <3>1, <3>2 DEF Defined
  <2>3. ImportTarget(f, m) = IF found /\ Known(q) THEN Target(q, "resolved", TRUE, ModuleOf(LookupSymbol(q)))
                             ELSE Target(q, "heuristic", FALSE, m.module)
    <3>. DEFINE dotted == ModuleDotted(f, m)
    <3>1. dotted[1] = found /\ dotted[2] = m.module
      BY <2>1
    <3>. HIDE DEF found, dotted
    <3>2. CASE found /\ Known(q)
      <4>1. ImportTarget(f, m) = Target(Append(dotted[2], m.name), "resolved", TRUE,
                                        ModuleOf(LookupSymbol(Append(dotted[2], m.name))))
        BY <1>3, <3>1, <3>2 DEF ImportTarget, dotted
      <4>. QED  BY <3>1, <3>2, <4>1
    <3>3. CASE ~(found /\ Known(q))
      <4>1. ImportTarget(f, m) = Target(Append(dotted[2], m.name), "heuristic", FALSE, dotted[2])
        BY <1>3, <3>1, <3>3 DEF ImportTarget, dotted
      <4>. QED  BY <3>1, <3>3, <4>1
    <3>. QED  BY <3>2, <3>3
  <2>. HIDE DEF found
  <2>4. CASE found /\ Known(q)
    BY <1>3, <2>2, <2>3, <2>4 DEF Means, Target
  <2>5. CASE ~(found /\ Known(q))
    BY <1>3, <2>2, <2>3, <2>5 DEF Means, Target
  <2>. QED  BY <2>4, <2>5
<1>. QED  BY <1>1, <1>2, <1>3

(* The imports of all files are resolved.                                  *)
LEMMA FinishIndexStep ==
    ASSUME GraphInv, FinishIndex
    PROVE  GraphInv'
<1>1. /\ phase = "index" /\ phase' = "graph" /\ edges' = edges /\ waiting = {}
      /\ UNCHANGED <<program, waiting, registered>>
  BY DEF FinishIndex, Finalize, workVars
<1>2. /\ program \in Programs /\ edges = {} /\ RegisteredInv /\ PendingInv
      /\ bindings = [g \in Files |-> [n \in Names |-> Unbound]]
  BY <1>1 DEF GraphInv
<1>3. RegisteredInv'
  BY <1>1, <1>2, RegisteredSame
<1>4. Parsed' = Parsed /\ (ModulesDiffer' <=> ModulesDiffer) /\ Added = Files
  BY <1>1 DEF Parsed, ModulesDiffer, Added
<1>5. \A f, n : Importing(f, n)' = Importing(f, n)
  BY <1>1 DEF Importing
<1>6. \A m, t : Means(m, t)' <=> Means(m, t)
  BY <1>1 DEF Means, Defined, Parsed
<1>7. ASSUME ModulesDiffer, NEW f \in Parsed, NEW n \in Names
      PROVE  IF Importing(f, n) = {} THEN bindings'[f][n] = Unbound
             ELSE \E m \in Importing(f, n) : Means(m, bindings'[f][n])
  <2>. DEFINE A == {p \in ToSet(pending) : p[1] = f /\ p[2].bound = n}
              all == Kept(pending, A)
              B == {p \in ToSet(all) : p[2].form # "star"}
              named == Kept(all, B)
  <2>0. f \in Files
    BY DEF Parsed
  <2>1. bindings'[f][n] =
          CASE named # <<>> -> ImportTarget(f, LastOf(named)[2])
            [] named = <<>> /\ all # <<>> -> ImportTarget(f, all[1][2])
            [] OTHER -> bindings[f][n]
    BY <1>1, <2>0 DEF FinishIndex, Finalize
  <2>2. PICK T : pending \in Seq(T)
    BY <1>2 DEF PendingInv
  <2>3. all \in Seq(T)
    <3>. HIDE DEF A
    <3>. QED  BY <2>2, KeptFacts
  <2>4. \A p : p \in Elements(pending) \cap A <=> \E m \in Importing(f, n) : p = <<f, m>>
    <3>1. \A p \in A : p \in ToSet(pending) /\ p[1] = f /\ p[2].bound = n
      OBVIOUS
    <3>2. ASSUME NEW p \in Elements(pending) \cap A PROVE \E m \in Importing(f, n) : p = <<f, m>>
      <4>1. PICK g \in Added \cap Parsed : \E m \in ToSet(program[g].imports) : p = <<g, m>>
        BY <1>2 DEF PendingInv
      <4>2. PICK m \in ToSet(program[g].imports) : p = <<g, m>>
        BY <4>1
      <4>. QED  BY <3>1, <4>2 DEF Importing
    <3>3. ASSUME NEW m \in Importing(f, n) PROVE <<f, m>> \in Elements(pending) \cap A
      <4>1. <<f, m>> \in Elements(pending)
        BY <1>2, <1>4, <2>0 DEF PendingInv, Importing
      <4>. QED  BY <4>1, ToSetElements DEF Importing
    <3>. QED  BY <3>2, <3>3
  <2>5. /\ Elements(all) = Elements(pending) \cap A
        /\ Elements(pending) \cap A = {} <=> all = <<>>
        /\ Elements(pending) \cap A # {} => all[1] \in Elements(pending) \cap A
    <3>. HIDE DEF A
    <3>. QED  BY <2>2, KeptElements
  <2>. HIDE DEF A, all
  <2>6. /\ Elements(all) \cap B = {} <=> named = <<>>
        /\ Elements(all) \cap B # {} => LastOf(named) \in Elements(all) \cap B
    <3>. HIDE DEF B
    <3>. QED  BY <2>3, KeptElements
  <2>. HIDE DEF B, named
  <2>7. CASE Importing(f, n) = {}
    <3>1. all = <<>> /\ named = <<>>
      <4>1. Elements(pending) \cap A = {}
        BY <2>4, <2>7
      <4>. QED  BY <2>5, <2>6, <4>1
    <3>2. bindings'[f][n] = bindings[f][n]
      BY <2>1, <3>1
    <3>. QED  BY <1>2, <2>0, <2>7, <3>2
  <2>8. ASSUME NEW p \in Elements(all) PROVE p[2] \in Importing(f, n) /\ Means(p[2], ImportTarget(f, p[2]))
    <3>1. PICK m \in Importing(f, n) : p = <<f, m>>
      BY <2>4, <2>5
    <3>2. m \in ToSet(program[f].imports)
      BY DEF Importing
    <3>. QED  BY <1>1, <1>2, <1>7, <3>1, <3>2, ImportMeans
  <2>9. CASE Importing(f, n) # {}
    <3>1. all # <<>> /\ all[1] \in Elements(all)
      BY <2>4, <2>5, <2>9
    <3>2. CASE named # <<>>
      <4>1. LastOf(named) \in Elements(all) /\ bindings'[f][n] = ImportTarget(f, LastOf(named)[2])
        BY <2>1, <2>6, <3>2
      <4>. QED  BY <2>8, <2>9, <4>1
    <3>3. CASE named = <<>>
      <4>1. bindings'[f][n] = ImportTarget(f, all[1][2])
        BY <2>1, <3>1, <3>3
      <4>. QED  BY <2>8, <2>9, <3>1, <4>1
    <3>. QED  BY <3>2, <3>3
  <2>. QED  BY <2>7, <2>9
<1>8. ModulesDiffer => BindingsMean'
  BY <1>4, <1>5, <1>6, <1>7 DEF BindingsMean
<1>. QED  BY <1>1, <1>2, <1>3, <1>4, <1>8 DEF GraphInv

(* The edge of a plain call: its name is looked up in its own file.        *)
LEMMA ResolvesName ==
    ASSUME NEW M, NEW callee, Len(callee) = 1, callee[1] # "()", NEW f \in Added,
           program[f].parses = "yes", program[f].module = M,
           \A g \in Added : program[g].parses = "yes" /\ program[g].module = M => g = f
    PROVE  ResolveCall(M, callee) = ResolveName(f, callee[1])
<1>1. FilesOf(M) = {f}
  BY DEF FilesOf
<1>2. FilesOf(M) # {} /\ FileOf(M) = f
  BY <1>1 DEF FileOf
<1>. DEFINE name == ResolveName(FileOf(M), callee[1])
            plain == FilesOf(M) # {} /\ Len(callee) = 1 /\ callee[1] # "()"
            none == FilesOf(M) = {} \/ callee[1] = "()"
            self == FilesOf(M) # {} /\ Len(callee) = 2 /\ callee[1] = "self"
<1>3. plain /\ ~none /\ ~self
  BY <1>2
<1>4. ResolveCall(M, callee) =
        CASE none -> Target(<<>>, "unresolved", FALSE, <<>>)
          [] plain -> name
          [] self -> ResolveSelf(FileOf(M), callee[2])
          [] OTHER -> ResolveAttribute(FileOf(M), callee)
  BY DEF ResolveCall
<1>5. name = ResolveName(f, callee[1])
  BY <1>2
<1>. HIDE DEF name, plain, none, self
<1>. QED  BY <1>3, <1>4, <1>5

LEMMA EdgeOfPlainCall ==
    ASSUME program \in Programs, waiting = {}, ModulesDiffer,
           NEW f \in Parsed, NEW call \in ToSet(program[f].calls), PlainCall(f, call)
    PROVE  /\ call.callee[1] \in Names
           /\ EdgeOf(f, call).certainty = ResolveName(f, call.callee[1]).certainty
           /\ ResolveName(f, call.callee[1]).qname # <<>> =>
                EdgeOf(f, call).callee = ResolveName(f, call.callee[1]).qname
<1>. DEFINE calls == program[f].calls
            M == program[f].module
            name == call.callee[1]
            caller == M \o call.scope
<1>1. f \in Files /\ Added = Files /\ M \in Seq(Names) \ {<<>>} /\ calls \in Seq(Call)
  BY ProgramFacts DEF Parsed, Added
<1>2. call \in Call /\ call.scope \in Seq(Names) /\ call.callee \in Seq(Names)
  <2>1. call \in Call
    BY <1>1 DEF ToSet
  <2>. QED  BY <2>1 DEF Call, QName
<1>3. /\ Len(call.scope) = 1 /\ Len(call.callee) = 1 /\ call.callee # <<"()">>
      /\ \A i, j \in 1 .. Len(calls) : i # j /\ calls[i] = call => calls[j].pos # call.pos
  BY DEF PlainCall
<1>4. name \in Names /\ name # "()"
  <2>1. call.callee = <<name>>
    BY <1>2, <1>3
  <2>. QED  BY <1>2, <1>3, <2>1
<1>5. ModuleOfCaller(caller) = M
  <2>1. Len(M) \in Nat /\ Len(M) # 0 /\ caller \in Seq(Names) /\ Len(caller) = Len(M) + 1
        /\ \A i \in 1 .. Len(M) : caller[i] = M[i]
    <3>. DEFINE t == call.scope
    <3>1. t \in Seq(Names) /\ Len(t) = 1 /\ M \in Seq(Names) /\ M # <<>>
      BY <1>1, <1>2, <1>3
    <3>2. M \o t \in Seq(Names) /\ Len(M \o t) = Len(M) + Len(t)
          /\ \A i \in 1 .. Len(M) : (M \o t)[i] = M[i]
      <4>. HIDE DEF t, M
      <4>1. t \in Seq(Names) /\ M \in Seq(Names)
        BY <3>1
      <4>. QED  BY <4>1, ConcatFacts
    <3>3. Len(M) \in Nat /\ Len(M) # 0
      <4>. HIDE DEF M
      <4>. QED  BY <3>1
    <3>. QED  BY <3>1, <3>2, <3>3
  <2>. HIDE DEF caller, M
  <2>2. ModuleOfCaller(caller) = SubSeq(caller, 1, Len(M))
    BY <2>1 DEF ModuleOfCaller
  <2>3. M \in Seq(Names)
    BY <1>1
  <2>4. SubSeq(caller, 1, Len(M)) = M
    BY <2>1, <2>3
  <2>. QED  BY <2>2, <2>4
<1>6. Relocated(f, call) = call
  <2>. DEFINE A == {c \in ToSet(calls) : c.pos = call.pos}
              same == Kept(calls, A)
  <2>1. Relocated(f, call) = same[1]
    BY DEF Relocated
  <2>2. PICK i \in 1 .. Len(calls) : calls[i] = call
    BY <1>1 DEF ToSet
  <2>3. call \in Elements(calls) \cap A
    BY ToSetElements
  <2>4. same[1] \in Elements(calls) \cap A
    <3>. HIDE DEF A, calls
    <3>. QED  BY <1>1, <2>3, KeptElements
  <2>5. PICK j \in 1 .. Len(calls) : calls[j] = same[1] /\ calls[j].pos = call.pos
    <3>1. same[1] \in Elements(calls) /\ same[1].pos = call.pos
      BY <2>4
    <3>. HIDE DEF same, calls
    <3>2. \E j \in 1 .. Len(calls) : calls[j] = same[1]
      BY <1>1, <3>1 DEF Elements
    <3>. QED  BY <3>1, <3>2
  <2>6. i = j
    BY <1>3, <2>2, <2>5
  <2>. QED  BY <2>1, <2>2, <2>5, <2>6
<1>7. ResolveCall(M, call.callee) = ResolveName(f, name)
  <2>1. /\ f \in Added /\ program[f].parses = "yes" /\ program[f].module = M
        /\ \A g \in Added : program[g].parses = "yes" /\ program[g].module = M => g = f
    BY <1>1 DEF ModulesDiffer, Parsed
  <2>2. Len(call.callee) = 1 /\ call.callee[1] # "()"
    BY <1>3, <1>4
  <2>. HIDE DEF M
  <2>. QED  BY <2>1, <2>2, ResolvesName
<1>8. EdgeOf(f, call).certainty = ResolveName(f, name).certainty
      /\ (ResolveName(f, name).qname # <<>> => EdgeOf(f, call).callee = ResolveName(f, name).qname)
  <2>. HIDE DEF M, name
  <2>1. ModuleOfCaller(program[f].module \o call.scope) = M /\ program[f].module = M
    BY <1>5 DEF M
  <2>. QED  BY <1>6, <1>7, <2>1 DEF EdgeOf
<1>. QED  BY <1>4, <1>8

(* What the edge of a plain call says is what Python runs.                 *)
LEMMA PlainNameResolves ==
    ASSUME program \in Programs, waiting = {}, RegisteredInv, ModulesDiffer, BindingsMean,
           NEW f \in Parsed, NEW call \in ToSet(program[f].calls), PlainCall(f, call)
    PROVE  LET name == call.callee[1]
               target == ResolveName(f, name)
           IN  /\ target.certainty = "resolved" => target.qname \in Runs(f, name) /\ target.qname # <<>>
               /\ Runs(f, name) # {} => target.certainty = "resolved"
<1>. DEFINE name == call.callee[1]
            target == ResolveName(f, name)
            defs == {d \in ToSet(program[f].defs) : d.name = name}
<1>1. name \in Names /\ f \in Files /\ program[f].module \in Seq(Names) /\ Added = Files
  BY EdgeOfPlainCall, ProgramFacts DEF Parsed, Added
<1>2. /\ \A i, j \in Namespace(f, name) : i = j
      /\ \A m \in ToSet(program[f].imports) : m.form # "star" /\ m.level = 0
      /\ \A d \in ToSet(program[f].defs) : d.name = name => d.kind # "method"
  BY DEF PlainCall, ToSet
<1>3. Runs(f, name) = {Append(program[f].module, d.name) : d \in defs}
        \cup {Append(m.module, m.name) : m \in {j \in Importing(f, name) : j.form = "from" /\ Defined(j.module, j.name)}}
  BY DEF Runs, Importing, Defined, Parsed
<1>. DEFINE A == {s \in ToSet(registered) : s.file = f /\ s.name = name}
            locals == Kept(registered, A)
            last == LastOf(locals)
<1>4. Locals(f, name) = locals
  BY DEF Locals
<1>5. /\ Elements(registered) \cap A = {} <=> locals = <<>>
      /\ locals # <<>> => last \in Elements(registered) \cap A
  <2>1. PICK T : registered \in Seq(T)
    BY DEF RegisteredInv
  <2>. HIDE DEF A
  <2>. QED  BY <2>1, KeptElements
<1>. HIDE DEF locals, last
<1>6. ASSUME locals # <<>>
      PROVE  defs # {} /\ last.qname = Append(program[f].module, name)
  <2>1. last \in Elements(registered) /\ last.file = f /\ last.name = name
    BY <1>5, <1>6
  <2>2. PICK g \in Parsed : \E d \in ToSet(program[g].defs) : last = SymbolOf(g, d)
    BY <2>1 DEF RegisteredInv
  <2>3. PICK d \in ToSet(program[g].defs) : last = SymbolOf(g, d)
    BY <2>2
  <2>4. g \in Files /\ d \in Def
    BY DefFacts DEF Parsed
  <2>5. g = f /\ d.name = name
    BY <2>1, <2>3, <2>4, SymbolName
  <2>6. d.kind # "method" /\ d \in defs
    BY <1>2, <2>3, <2>5
  <2>7. last.qname = Append(program[f].module, d.name)
    BY <2>3, <2>4, <2>5, <2>6, SymbolName
  <2>. QED  BY <2>5, <2>6, <2>7
<1>7. ASSUME NEW d \in defs PROVE locals # <<>>
  <2>1. d \in Def /\ d.name = name /\ d \in ToSet(program[f].defs)
    BY <1>1, DefFacts
  <2>2. SymbolOf(f, d) \in Elements(registered)
    BY <1>1, <2>1 DEF RegisteredInv
  <2>3. SymbolOf(f, d).file = f /\ SymbolOf(f, d).name = name
    BY <1>1, <2>1, SymbolName
  <2>4. SymbolOf(f, d) \in Elements(registered) \cap A
    BY <2>2, <2>3, ToSetElements
  <2>. QED  BY <1>5, <2>4
<1>8. Append(program[f].module, name) # <<>>
  BY <1>1
<1>. SUFFICES /\ target.certainty = "resolved" => target.qname \in Runs(f, name) /\ target.qname # <<>>
              /\ Runs(f, name) # {} => target.certainty = "resolved"
  OBVIOUS
<1>. HIDE DEF A, name, defs
<1>9. CASE Importing(f, name) = {}
  <2>1. bindings[f][name] = Unbound
    BY <1>1, <1>9 DEF BindingsMean
  <2>2. CASE locals # <<>>
    <3>1. target = Target(last.qname, "resolved", TRUE, <<>>)
      BY <1>4, <2>1, <2>2 DEF ResolveName, last
    <3>2. target.qname = Append(program[f].module, name) /\ target.certainty = "resolved"
      BY <1>6, <2>2, <3>1 DEF Target
    <3>3. PICK d \in defs : TRUE
      BY <1>6, <2>2
    <3>4. d.name = name
      BY DEF defs
    <3>. HIDE DEF target
    <3>. QED  BY <1>3, <1>8, <3>2, <3>3, <3>4
  <2>3. CASE locals = <<>>
    <3>1. defs = {}
      BY <1>7, <2>3
    <3>2. Runs(f, name) = {}
      BY <1>3, <1>9, <3>1
    <3>3. target.certainty # "resolved"
      BY <1>4, <2>1, <2>3 DEF ResolveName, Target
    <3>. HIDE DEF target
    <3>. QED  BY <3>2, <3>3
  <2>. QED  BY <2>2, <2>3
<1>10. CASE Importing(f, name) # {}
  <2>1. PICK m \in Importing(f, name) : Means(m, bindings[f][name])
    BY <1>1, <1>10 DEF BindingsMean
  <2>. DEFINE bound == bindings[f][name]
  <2>2. defs = {} /\ Importing(f, name) = {m}
    <3>. DEFINE N == Len(program[f].defs)
                I == 1 .. Len(program[f].imports)
    <3>1. N \in Nat /\ program[f].defs \in Seq(Def) /\ program[f].imports \in Seq(Import)
      BY <1>1, ProgramFacts
    <3>2. \A i \in I : program[f].imports[i].bound = name => N + i \in Namespace(f, name)
      BY DEF Namespace
    <3>3. \A k \in Importing(f, name) : \E i \in I : program[f].imports[i] = k /\ N + i \in Namespace(f, name)
      BY <3>1, <3>2 DEF Importing, ToSet
    <3>4. PICK i \in I : program[f].imports[i] = m /\ N + i \in Namespace(f, name)
      BY <3>3
    <3>5. defs = {}
      <4>1. \A d \in defs : \E j \in 1 .. N : j \in Namespace(f, name)
        BY <3>1 DEF Namespace, defs, ToSet
      <4>2. \A j \in 1 .. N : j # N + i
        BY <3>1
      <4>. QED  BY <1>2, <3>4, <4>1, <4>2
    <3>6. ASSUME NEW k \in Importing(f, name) PROVE k = m
      <4>1. PICK j \in I : program[f].imports[j] = k /\ N + j \in Namespace(f, name)
        BY <3>3
      <4>2. N + i = N + j
        BY <1>2, <3>4, <4>1
      <4>. QED  BY <3>1, <3>4, <4>1, <4>2
    <3>. QED  BY <3>5, <3>6
  <2>3. m.form # "star" /\ m.level = 0 /\ m.module \in Seq(Names) /\ m.name \in Names
    BY <1>1, <1>2, ImportFacts DEF Importing
  <2>4. /\ bound # Unbound
        /\ bound.symbol <=> m.form = "from" /\ Defined(m.module, m.name)
        /\ bound.symbol => bound.certainty = "resolved" /\ bound.qname = Append(m.module, m.name)
    BY <2>1, <2>3 DEF Means, Unbound, Target
  <2>5. target = IF bound.symbol THEN bound ELSE Target(bound.qname, "unresolved", FALSE, <<>>)
    BY <2>4 DEF ResolveName
  <2>6. Append(m.module, m.name) # <<>>
    BY <2>3
  <2>. HIDE DEF bound, target
  <2>7. CASE bound.symbol
    BY <1>3, <2>2, <2>4, <2>5, <2>6, <2>7
  <2>8. CASE ~bound.symbol
    <3>1. target.certainty = "unresolved"
      BY <2>5, <2>8 DEF Target
    <3>2. Runs(f, name) = {}
      BY <1>3, <2>2, <2>4, <2>8
    <3>. QED  BY <3>1, <3>2
  <2>. QED  BY <2>7, <2>8
<1>. HIDE DEF target
<1>. QED  BY <1>9, <1>10

(* The call graph is built.                                               *)
LEMMA BuildGraphStep ==
    ASSUME GraphInv, BuildGraph
    PROVE  GraphInv' /\ PlainCallsFollowed'
<1>1. /\ phase = "graph" /\ phase' = "entry" /\ edges' = CallGraph
      /\ UNCHANGED <<program, waiting>>
  BY DEF BuildGraph, indexVars
<1>2. program \in Programs /\ waiting = {} /\ RegisteredInv /\ (ModulesDiffer => BindingsMean)
  BY <1>1 DEF GraphInv
<1>3. GraphInv'
  BY <1>1, <1>2 DEF GraphInv
<1>4. ASSUME ModulesDiffer, NEW f \in Parsed, NEW call \in ToSet(program[f].calls), PlainCall(f, call),
             NEW e \in CallGraph, e.file = f, e.site = call
      PROVE  /\ e.certainty = "resolved" => e.callee \in Runs(f, call.callee[1])
             /\ Runs(f, call.callee[1]) # {} => e.certainty = "resolved"
  <2>1. PICK g \in Parsed : \E i \in 1 .. Len(program[g].calls) : e = EdgeOf(g, program[g].calls[i])
    BY DEF CallGraph, Parsed
  <2>2. PICK i \in 1 .. Len(program[g].calls) : e = EdgeOf(g, program[g].calls[i])
    BY <2>1
  <2>3. e.file = g /\ e.site = program[g].calls[i]
    BY <2>2 DEF EdgeOf
  <2>4. e = EdgeOf(f, call)
    BY <1>4, <2>2, <2>3
  <2>. DEFINE name == call.callee[1]
              target == ResolveName(f, name)
  <2>5. /\ e.certainty = target.certainty
        /\ target.qname # <<>> => e.callee = target.qname
    BY <1>2, <1>4, <2>4, EdgeOfPlainCall
  <2>6. /\ target.certainty = "resolved" => target.qname \in Runs(f, name) /\ target.qname # <<>>
        /\ Runs(f, name) # {} => target.certainty = "resolved"
    BY <1>2, <1>4, PlainNameResolves
  <2>. HIDE DEF target
  <2>. QED  BY <2>5, <2>6
<1>5. Parsed' = Parsed /\ (ModulesDiffer' <=> ModulesDiffer)
  BY <1>1 DEF Parsed, ModulesDiffer
<1>6. \A f, c : (PlainCall(f, c)' <=> PlainCall(f, c))
  BY <1>1 DEF PlainCall, Namespace
<1>7. \A f, n : Runs(f, n)' = Runs(f, n)
  BY <1>1 DEF Runs
<1>8. PlainCallsFollowed'
  BY <1>1, <1>4, <1>5, <1>6, <1>7 DEF PlainCallsFollowed, Parsed
<1>. QED  BY <1>3, <1>8

LEMMA GraphStep ==
    ASSUME GraphInv, PlainCallsFollowed, [ScanNext]_scanVars
    PROVE  GraphInv' /\ PlainCallsFollowed'
<1>1. CASE IndexFile
  <2>1. phase' = "index"
    BY <1>1 DEF IndexFile
  <2>. QED  BY <1>1, <2>1, IndexFileStep DEF PlainCallsFollowed
<1>2. CASE FinishIndex
  <2>1. phase' = "graph"
    BY <1>2 DEF FinishIndex
  <2>. QED  BY <1>2, <2>1, FinishIndexStep DEF PlainCallsFollowed
<1>3. CASE BuildGraph
  BY <1>3, BuildGraphStep
<1>4. CASE Rescan
  <2>1. /\ program' = program /\ waiting' = Files /\ registered' = <<>> /\ pending' = <<>>
        /\ bindings' = [f \in Files |-> [n \in Names |-> Unbound]]
        /\ phase' = "index" /\ edges' = {}
    BY <1>4 DEF Rescan, NothingYet
  <2>2. RegisteredInv' /\ PendingInv'
    BY <2>1 DEF RegisteredInv, PendingInv, Added, Elements
  <2>3. program \in Programs
    BY DEF GraphInv
  <2>. QED  BY <2>1, <2>2, <2>3 DEF GraphInv, PlainCallsFollowed, Unbound, Target
<1>5. CASE IndexSame /\ (phase' = phase \/ phase' \notin {"index", "graph"})
  <2>1. UNCHANGED <<program, waiting, registered, pending, bindings, edges>>
    BY <1>5 DEF IndexSame
  <2>2. phase \in {"index", "graph"} => edges = {}
    BY DEF GraphInv
  <2>3. PlainCallsFollowed'
    <3>1. Parsed' = Parsed /\ (ModulesDiffer' <=> ModulesDiffer)
      BY <2>1 DEF Parsed, ModulesDiffer
    <3>2. \A f, c : (PlainCall(f, c)' <=> PlainCall(f, c))
      BY <2>1 DEF PlainCall, Namespace
    <3>3. \A f, n : Runs(f, n)' = Runs(f, n)
      BY <2>1 DEF Runs
    <3>. QED  BY <1>5, <2>1, <2>2, <3>1, <3>2, <3>3 DEF PlainCallsFollowed, Parsed
  <2>4. RegisteredInv => RegisteredInv'
    BY <2>1, RegisteredSame
  <2>5. PendingInv => PendingInv'
    BY <2>1, PendingSame
  <2>6. BindingsMean => BindingsMean'
    <3>1. Parsed' = Parsed
      BY <2>1 DEF Parsed
    <3>2. \A f, n : Importing(f, n)' = Importing(f, n)
      BY <2>1 DEF Importing
    <3>3. \A m, t : (Means(m, t)' <=> Means(m, t))
      BY <2>1 DEF Means, Defined, Parsed
    <3>. QED  BY <2>1, <3>1, <3>2, <3>3 DEF BindingsMean
  <2>7. ModulesDiffer' <=> ModulesDiffer
    BY <2>1 DEF ModulesDiffer
  <2>. QED  BY <1>5, <2>1, <2>3, <2>4, <2>5, <2>6, <2>7 DEF GraphInv, Unbound, Target
<1>. QED  BY <1>1, <1>2, <1>3, <1>4, <1>5, GraphSteps

(* Whatever the order in which the files are indexed, and whatever fails,  *)
(* a plain call is an edge to what Python runs for its name, resolved, and *)
(* no other plain call counts as resolved (symbol_index.py: finalize and   *)
(* resolve_call_target; call_graph.py: build_call_graph).                  *)
THEOREM PlainCalls == ScanSpec => []PlainCallsFollowed
<1>1. GraphInv /\ PlainCallsFollowed /\ [ScanNext]_scanVars => GraphInv' /\ PlainCallsFollowed'
  BY GraphStep
<1>. QED  BY <1>1, GraphAtStart, PTL DEF ScanSpec
=============================================================================
