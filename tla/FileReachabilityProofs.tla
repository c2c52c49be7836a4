------------------------ MODULE FileReachabilityProofs ------------------------
(***************************************************************************)
(* What FileReachability guarantees for every file: a sink an agent can    *)
(* run along the calls the searches follow is reported; what is reported   *)
(* at some number of hops is run with that many calls; and where a sink    *)
(* that is said to be guarded, or suppressed for a declared guard, runs,   *)
(* an authorization was passed before.                                     *)
(*                                                                         *)
(* The pass is a sequence of bounded searches, and its invariant (Open)    *)
(* says of a search under way what its queue still owes.  The runs of the  *)
(* file are held against searches that are done.                           *)
(***************************************************************************)
EXTENDS FileReachability, FiniteSetTheorems, TLAPS, WellFoundedInduction

-----------------------------------------------------------------------------
(* Numbers, functions given by recursion, and sequences.                   *)

LEMMA LeastNat ==
    ASSUME NEW S \in SUBSET Nat, S # {}
    PROVE  \E m \in S : \A k \in S : m <= k
<1>. DEFINE R == {ss \in Nat \X Nat : ss[1] < ss[2]}
<1>1. IsWellFoundedOn(R, Nat)
  <2>1. R = OpToRel(<, Nat)
    BY DEF OpToRel
  <2>. QED  BY <2>1, NatLessThanWellFounded, Zenon
<1>2. PICK m \in S : \A k \in S : <<k, m>> \notin R
  <2>. HIDE DEF R
  <2>. QED  BY <1>1, WFMin, Zenon
<1>3. ASSUME NEW k \in S PROVE m <= k
  <2>1. <<k, m>> \notin R /\ k \in Nat /\ m \in Nat
    BY <1>2
  <2>. QED  BY <2>1
<1>. QED  BY <1>3

LEMMA GreatestNat ==
    ASSUME NEW n \in Nat, NEW S \in SUBSET (0 .. n), S # {}
    PROVE  \E m \in S : \A k \in S : k <= m
<1>. DEFINE R == {n - k : k \in S}
<1>1. R \in SUBSET Nat /\ R # {}
  <2>1. \A k \in S : n - k \in Nat
    OBVIOUS
  <2>2. PICK k \in S : TRUE
    OBVIOUS
  <2>3. n - k \in R
    OBVIOUS
  <2>. QED  BY <2>1, <2>3
<1>2. PICK r \in R : \A k \in R : r <= k
  <2>. HIDE DEF R
  <2>. QED  BY <1>1, LeastNat
<1>3. PICK m \in S : r = n - m
  BY <1>2
<1>4. \A k \in S : n - m <= n - k
  BY <1>2, <1>3
<1>. QED  BY <1>3, <1>4

LEMMA IntervalInduction ==
    ASSUME NEW n \in Nat, NEW S, 0 \in S, \A k \in 0 .. n - 1 : k \in S => k + 1 \in S
    PROVE  0 .. n \subseteq S
<1>. SUFFICES ASSUME (0 .. n) \ S # {} PROVE FALSE
  OBVIOUS
<1>. DEFINE missing == (0 .. n) \ S
<1>1. missing \in SUBSET Nat /\ missing # {}
  OBVIOUS
<1>2. PICK m \in missing : \A k \in missing : m <= k
  <2>. HIDE DEF missing
  <2>. QED  BY <1>1, LeastNat
<1>3. m \in 0 .. n /\ m # 0 /\ m - 1 \in 0 .. n - 1 /\ (m - 1) + 1 = m
  BY <1>2
<1>4. m - 1 \in S
  BY <1>2, <1>3
<1>. QED  BY <1>2, <1>3, <1>4

(* Sets of numbers below one another: f[k] has base[k] and all that is in  *)
(* the f[b] of the numbers b from[k] leads to, all of them before k.       *)
LEMMA SetsAbove ==
    ASSUME NEW n \in Nat, NEW base \in [0 .. n -> SUBSET Nat], NEW from \in [0 .. n -> SUBSET (0 .. n)],
           \A k \in 0 .. n : \A b \in from[k] : b < k
    PROVE  \E f : f = [k \in 0 .. n |-> base[k] \cup UNION {f[b] : b \in from[k]}]
<1>. DEFINE F == [0 .. n -> SUBSET Nat]
            G(f, k) == base[k] \cup UNION {f[b] : b \in from[k]}
            Upto(f, m) == \A k \in 0 .. m : f[k] = G(f, k)
            S == {m \in 0 .. n : \E f \in F : Upto(f, m)}
<1>1. 0 \in S
  <2>1. base \in F /\ 0 \in 0 .. n /\ from[0] = {}
    OBVIOUS
  <2>2. \A k \in 0 .. 0 : base[k] = G(base, k)
    BY <2>1
  <2>. QED  BY <2>1, <2>2
<1>2. ASSUME NEW m \in 0 .. n - 1, m \in S PROVE m + 1 \in S
  <2>1. PICK f \in F : Upto(f, m)
    BY <1>2
  <2>. DEFINE x == G(f, m + 1)
              g == [k \in 0 .. n |-> IF k = m + 1 THEN x ELSE f[k]]
  <2>2. m + 1 \in 0 .. n /\ m \in 0 .. n
    OBVIOUS
  <2>3. x \in SUBSET Nat
    <3>1. base[m + 1] \in SUBSET Nat /\ \A b \in from[m + 1] : f[b] \in SUBSET Nat
      BY <2>2
    <3>. QED  BY <3>1
  <2>. HIDE DEF x
  <2>4. g \in F /\ g[m + 1] = x /\ \A k \in 0 .. n : k # m + 1 => g[k] = f[k]
    BY <2>2, <2>3
  <2>. HIDE DEF g
  <2>5. ASSUME NEW k \in 0 .. m + 1 PROVE g[k] = G(g, k)
    <3>1. k \in 0 .. n /\ \A b \in from[k] : b \in 0 .. n /\ b # m + 1
      BY <2>2
    <3>2. {g[b] : b \in from[k]} = {f[b] : b \in from[k]}
      BY <2>4, <3>1
    <3>3. G(g, k) = G(f, k)
      BY <3>2
    <3>4. CASE k = m + 1
      BY <2>4, <3>3, <3>4 DEF x
    <3>5. CASE k # m + 1
      <4>1. k \in 0 .. m
        BY <3>5
      <4>2. f[k] = G(f, k)
        BY <2>1, <4>1
      <4>. QED  BY <2>4, <3>1, <3>3, <3>5, <4>2
    <3>. QED  BY <3>4, <3>5
  <2>6. Upto(g, m + 1)
    BY <2>5
  <2>. HIDE DEF F, Upto
  <2>. QED  BY <2>2, <2>4, <2>6
<1>3. 0 .. n \subseteq S
  <2>. HIDE DEF S
  <2>. QED  BY <1>1, <1>2, IntervalInduction
<1>4. PICK f \in F : Upto(f, n)
  <2>1. n \in 0 .. n
    OBVIOUS
  <2>. QED  BY <1>3, <2>1
<1>5. f = [k \in 0 .. n |-> G(f, k)]
  BY <1>4
<1>. QED  BY <1>5

(* A function of 0 .. n that is given by its first value and by how each   *)
(* value follows from the one before exists: recursive functions are       *)
(* defined by CHOOSE, and this is what there is to choose.                 *)
Recursion(f, a, step, n) ==
    f[0] = a /\ \A k \in 1 .. n : f[k] = step[<<k, f[k - 1]>>]

LEMMA RecursionExists ==
    ASSUME NEW n \in Nat, NEW T, NEW a \in T, NEW step \in [(1 .. n) \X T -> T]
    PROVE  \E f \in [0 .. n -> T] : Recursion(f, a, step, n)
<1>. DEFINE Starts(f) == f[0] = a
            Goes(f, m) == \A k \in 1 .. m : f[k] = step[<<k, f[k - 1]>>]
            Defined == {m \in 0 .. n : \E f \in [0 .. m -> T] : Starts(f) /\ Goes(f, m)}
<1>1. 0 \in Defined
  <2>. DEFINE g == [k \in 0 .. 0 |-> a]
  <2>1. g \in [0 .. 0 -> T] /\ Starts(g) /\ Goes(g, 0)
    OBVIOUS
  <2>2. 0 \in 0 .. n
    OBVIOUS
  <2>. HIDE DEF g, Starts, Goes
  <2>. QED  BY <2>1, <2>2
<1>2. ASSUME NEW m \in 0 .. n - 1, m \in Defined PROVE m + 1 \in Defined
  <2>1. PICK f \in [0 .. m -> T] : Starts(f) /\ Goes(f, m)
    BY <1>2
  <2>. DEFINE x == step[<<m + 1, f[m]>>]
              g == [k \in 0 .. m + 1 |-> IF k = m + 1 THEN x ELSE f[k]]
  <2>2. x \in T
    <3>1. m + 1 \in 1 .. n /\ f[m] \in T
      OBVIOUS
    <3>2. <<m + 1, f[m]>> \in (1 .. n) \X T
      BY <3>1
    <3>. QED  BY <3>2
  <2>. HIDE DEF x
  <2>3. \A k \in 0 .. m : g[k] = f[k]
    OBVIOUS
  <2>4. g[m + 1] = x
    OBVIOUS
  <2>5. g \in [0 .. m + 1 -> T]
    BY <2>2
  <2>. HIDE DEF g
  <2>6. Starts(g)
    BY <2>1, <2>3
  <2>7. ASSUME NEW k \in 1 .. m + 1 PROVE g[k] = step[<<k, g[k - 1]>>]
    <3>1. CASE k = m + 1
      <4>1. k - 1 = m /\ g[m] = f[m]
        BY <3>1, <2>3
      <4>. QED  BY <3>1, <4>1, <2>4 DEF x
    <3>2. CASE k # m + 1
      <4>1. k \in 1 .. m /\ k - 1 \in 0 .. m /\ k \in 0 .. m
        BY <3>2
      <4>. QED  BY <4>1, <2>1, <2>3
    <3>. QED  BY <3>1, <3>2
  <2>8. m + 1 \in 0 .. n
    OBVIOUS
  <2>. QED  BY <2>5, <2>6, <2>7, <2>8
<1>3. 0 .. n \subseteq Defined
  <2>. HIDE DEF Defined
  <2>. QED  BY <1>1, <1>2, IntervalInduction, Zenon
<1>4. n \in Defined
  BY <1>3
<1>5. PICK f \in [0 .. n -> T] : Starts(f) /\ Goes(f, n)
  BY <1>4
<1>. QED  BY <1>5 DEF Recursion

(* Sequences. *)
LEMMA ConcatFacts ==
    ASSUME NEW T, NEW s \in Seq(T), NEW t \in Seq(T)
    PROVE  /\ s \o t \in Seq(T) /\ Len(s \o t) = Len(s) + Len(t) /\ Len(s) \in Nat /\ Len(t) \in Nat
           /\ \A i \in 1 .. Len(s) : (s \o t)[i] = s[i]
           /\ \A i \in 1 .. Len(t) : (s \o t)[Len(s) + i] = t[i]
           /\ \A i \in 1 .. Len(s \o t) : i \in 1 .. Len(s) \/ i - Len(s) \in 1 .. Len(t)
OBVIOUS

LEMMA TailInSeq ==
    ASSUME NEW S, NEW s \in Seq(S), s # <<>>
    PROVE  /\ Head(s) \in S
           /\ Tail(s) \in Seq(S)
           /\ Len(Tail(s)) = Len(s) - 1
           /\ Len(s) > 0
           /\ Head(s) = s[1]
           /\ \A i \in 1 .. Len(Tail(s)) : Tail(s)[i] = s[i + 1]
OBVIOUS

LEMMA AppendInSeq ==
    ASSUME NEW S, NEW s \in Seq(S), NEW x \in S
    PROVE  /\ Append(s, x) \in Seq(S)
           /\ Len(Append(s, x)) = Len(s) + 1
           /\ \A i \in 1 .. Len(s) : Append(s, x)[i] = s[i]
           /\ Append(s, x)[Len(s) + 1] = x
OBVIOUS

-----------------------------------------------------------------------------
(* The file, and what stands in what.                                      *)
Size == Len(file.functions)

LEMMA FileFacts ==
    ASSUME file \in Files
    PROVE  /\ Size \in Nat /\ Len(file.classes) \in Nat /\ Len(file.lists) \in Nat
           /\ Functions = 1 .. Size
           /\ \A i \in Functions :
                /\ Fn(i) \in Function
                /\ Fn(i).outer \in 0 .. Size /\ Fn(i).outer < i
                /\ Fn(i).class \in 0 .. Len(file.classes)
                /\ Fn(i).class = 0 \/ Fn(i).outer = 0
                /\ Fn(i).branch # "" => file.schema
           /\ \A c \in Classes : ClassOf(c) \in Class
           /\ \A k \in 1 .. Len(file.lists) : file.lists[k] \in ListOp
<1>1. WellFormed(file)
  BY FilesAssumption
<1>2. /\ file.functions \in Seq(Function) /\ file.classes \in Seq(Class) /\ file.lists \in Seq(ListOp)
      /\ \A i \in 1 .. Len(file.functions) :
           /\ file.functions[i].outer < i /\ file.functions[i].class <= Len(file.classes)
           /\ file.functions[i].class = 0 \/ file.functions[i].outer = 0
           /\ file.functions[i].branch # "" => file.schema
  BY <1>1 DEF WellFormed, File
<1>3. /\ Len(file.functions) \in Nat /\ Len(file.classes) \in Nat /\ Len(file.lists) \in Nat
      /\ \A i \in 1 .. Len(file.functions) : file.functions[i] \in Function
      /\ \A i \in 1 .. Len(file.classes) : file.classes[i] \in Class
      /\ \A i \in 1 .. Len(file.lists) : file.lists[i] \in ListOp
  <2>1. \A U : \A s \in Seq(U) : Len(s) \in Nat /\ \A i \in 1 .. Len(s) : s[i] \in U
    OBVIOUS
  <2>. QED  BY <1>2, <2>1, Zenon
<1>4. \A f \in Function : f.outer \in Nat /\ f.class \in Nat
  BY DEF Function
<1>5. ASSUME NEW i \in 1 .. Len(file.functions)
      PROVE  /\ file.functions[i].outer \in 0 .. Len(file.functions)
             /\ file.functions[i].class \in 0 .. Len(file.classes)
  <2>. DEFINE f == file.functions[i]
  <2>1. f.outer \in Nat /\ f.class \in Nat
    BY <1>3, <1>4
  <2>2. f.outer < i /\ f.class <= Len(file.classes)
    BY <1>2
  <2>. HIDE DEF f
  <2>3. f.outer \in 0 .. Len(file.functions) /\ f.class \in 0 .. Len(file.classes)
    BY <1>3, <2>1, <2>2
  <2>. QED  BY <2>3 DEF f
<1>. QED  BY <1>2, <1>3, <1>5 DEF Size, Functions, Classes, Fn, ClassOf

LEMMA OuterFacts ==
    ASSUME file \in Files
    PROVE  /\ Size \in Nat /\ Functions = 1 .. Size
           /\ \A i \in 1 .. Size : Fn(i).outer \in 0 .. Size /\ Fn(i).outer < i
<1>1. Size \in Nat /\ Functions = 1 .. Size
  BY FileFacts, Zenon
<1>2. \A i \in Functions : Fn(i).outer \in 0 .. Size /\ Fn(i).outer < i
  BY FileFacts, Zenon
<1>. QED  BY <1>1, <1>2

LEMMA EnclosingIs ==
    ASSUME file \in Files
    PROVE  /\ Enclosing(0) = {}
           /\ \A i \in Functions : Enclosing(i) = {i} \cup Enclosing(Fn(i).outer)
<1>. DEFINE n == Size
            Up(f, k) == IF k = 0 THEN {} ELSE {k} \cup f[Fn(k).outer]
            up == CHOOSE f : f = [k \in 0 .. n |-> Up(f, k)]
            base == [k \in 0 .. n |-> IF k = 0 THEN {} ELSE {k}]
            from == [k \in 0 .. n |-> IF k = 0 THEN {} ELSE {Fn(k).outer}]
<1>1. n \in Nat /\ \A k \in 0 .. n : k # 0 => Fn(k).outer \in 0 .. n /\ Fn(k).outer < k
  BY OuterFacts
<1>2. \A i : Enclosing(i) = up[i]
  BY DEF Enclosing, Size
<1>. HIDE DEF n
<1>3. /\ base \in [0 .. n -> SUBSET Nat] /\ from \in [0 .. n -> SUBSET (0 .. n)]
      /\ \A k \in 0 .. n : \A b \in from[k] : b < k
  BY <1>1
<1>4. \A f : \A k \in 0 .. n : base[k] \cup UNION {f[b] : b \in from[k]} = Up(f, k)
  OBVIOUS
<1>5. PICK f : f = [k \in 0 .. n |-> base[k] \cup UNION {f[b] : b \in from[k]}]
  <2>. HIDE DEF base, from
  <2>. QED  BY <1>1, <1>3, SetsAbove
<1>6. f = [k \in 0 .. n |-> Up(f, k)]
  <2>. HIDE DEF base, from, Up
  <2>. QED  BY <1>4, <1>5
<1>7. up = [k \in 0 .. n |-> Up(up, k)]
  <2>. HIDE DEF Up
  <2>. QED  BY <1>6
<1>8. \A k \in 0 .. n : up[k] = Up(up, k)
  <2>. HIDE DEF Up, up
  <2>. QED  BY <1>7
<1>. HIDE DEF up
<1>9. Functions = 1 .. n /\ 0 \in 0 .. n /\ \A i \in 1 .. n : i \in 0 .. n /\ i # 0
  BY <1>1, OuterFacts DEF n
<1>. QED  BY <1>2, <1>8, <1>9

LEMMA EnclosingFacts ==
    ASSUME file \in Files
    PROVE  \A i \in Functions :
             /\ i \in Enclosing(i) /\ Enclosing(i) \subseteq Functions
             /\ \A k \in Enclosing(i) : Enclosing(k) \subseteq Enclosing(i)
             /\ Outermost(i) \in Enclosing(i) /\ Fn(Outermost(i)).outer = 0
             /\ \A k \in Enclosing(i) : Fn(k).outer = 0 => k = Outermost(i)
<1>. DEFINE Good(i) ==
              /\ i \in Enclosing(i) /\ Enclosing(i) \subseteq Functions
              /\ \A k \in Enclosing(i) : Enclosing(k) \subseteq Enclosing(i)
              /\ \E r \in Enclosing(i) :
                   /\ Fn(r).outer = 0
                   /\ \A k \in Enclosing(i) : Fn(k).outer = 0 => k = r
            S == {m \in 0 .. Size : \A i \in 1 .. m : Good(i)}
<1>1. Size \in Nat /\ Functions = 1 .. Size
  BY OuterFacts
<1>2. ASSUME NEW i \in Functions, Fn(i).outer # 0 => Good(Fn(i).outer)
      PROVE  Good(i)
  <2>. DEFINE o == Fn(i).outer
  <2>1. Enclosing(i) = {i} \cup Enclosing(o) /\ Enclosing(0) = {}
    BY EnclosingIs
  <2>2. CASE o = 0
    BY <2>1, <2>2
  <2>3. CASE o # 0
    <3>1. Good(o) /\ Fn(i).outer # 0
      BY <1>2, <2>3
    <3>2. PICK r \in Enclosing(o) :
             /\ Fn(r).outer = 0
             /\ \A k \in Enclosing(o) : Fn(k).outer = 0 => k = r
      BY <3>1
    <3>. HIDE DEF o
    <3>3. \A k \in Enclosing(i) : Enclosing(k) \subseteq Enclosing(i)
      BY <2>1, <3>1
    <3>4. r \in Enclosing(i) /\ \A k \in Enclosing(i) : Fn(k).outer = 0 => k = r
      BY <2>1, <3>1, <3>2
    <3>. QED  BY <2>1, <3>1, <3>2, <3>3, <3>4
  <2>. QED  BY <2>2, <2>3
<1>. HIDE DEF Good
<1>3. 0 \in S
  BY <1>1
<1>4. ASSUME NEW m \in 0 .. Size - 1, m \in S PROVE m + 1 \in S
  <2>1. m + 1 \in 1 .. Size /\ m + 1 \in Functions /\ m + 1 \in 0 .. Size
    BY <1>1
  <2>2. Fn(m + 1).outer # 0 => Fn(m + 1).outer \in 1 .. m
    BY <2>1, OuterFacts
  <2>3. Good(m + 1)
    BY <1>2, <1>4, <2>1, <2>2
  <2>4. \A i \in 1 .. m + 1 : i \in 1 .. m \/ i = m + 1
    OBVIOUS
  <2>. QED  BY <1>4, <2>1, <2>3, <2>4
<1>5. 0 .. Size \subseteq S
  <2>. HIDE DEF S
  <2>. QED  BY <1>1, <1>3, <1>4, IntervalInduction
<1>6. \A i \in Functions : Good(i)
  <2>1. Size \in 0 .. Size
    BY <1>1
  <2>. QED  BY <1>1, <1>5, <2>1
<1>7. ASSUME NEW i \in Functions, NEW r \in Enclosing(i), Fn(r).outer = 0
      PROVE  Fn(Outermost(i)).outer = 0 /\ Outermost(i) \in Enclosing(i)
  BY <1>7 DEF Outermost
<1>8. \A i \in Functions : \E r \in Enclosing(i) :
        Fn(r).outer = 0 /\ \A k \in Enclosing(i) : Fn(k).outer = 0 => k = r
  BY <1>6 DEF Good
<1>9. \A i \in Functions : Fn(Outermost(i)).outer = 0 /\ Outermost(i) \in Enclosing(i)
  BY <1>7, <1>8
<1>10. \A i \in Functions : \A k \in Enclosing(i) : Fn(k).outer = 0 => k = Outermost(i)
  BY <1>8, <1>9
<1>11. \A i \in Functions :
         /\ i \in Enclosing(i) /\ Enclosing(i) \subseteq Functions
         /\ \A k \in Enclosing(i) : Enclosing(k) \subseteq Enclosing(i)
  BY <1>6 DEF Good
<1>. QED  BY <1>9, <1>10, <1>11

(* A function and what is nested in it.                                    *)
Family(v) == {v} \cup Nested(v)

LEMMA FamilyFacts ==
    ASSUME file \in Files
    PROVE  /\ \A v \in Functions : Family(v) = {k \in Functions : v \in Enclosing(k)}
           /\ \A v \in Functions : \A k \in Family(v) : Family(k) \subseteq Family(v)
           /\ \A v \in Functions : \A k \in Family(v) : Outermost(k) = Outermost(v)
           /\ \A i \in Functions : i \in Family(Outermost(i)) /\ Outermost(i) \in Functions
           /\ \A i \in Functions : Fn(i).outer = 0 => Outermost(i) = i
           /\ \A i \in Functions : Fn(i).outer # 0 =>
                /\ Fn(i).outer \in Functions /\ Outermost(i) = Outermost(Fn(i).outer)
                /\ Enclosing(i) = {i} \cup Enclosing(Fn(i).outer) /\ i \in Family(Fn(i).outer)
           /\ \A i \in Functions : Fn(i).outer = 0 => Enclosing(i) = {i}
           /\ \A i \in Functions : \A k \in Enclosing(i) : Outermost(k) = Outermost(i)
<1>1. \A v \in Functions : Family(v) = {k \in Functions : v \in Enclosing(k)}
  BY EnclosingFacts DEF Family, Nested
<1>2. \A i \in Functions : \A k \in Enclosing(i) : Outermost(k) = Outermost(i) /\ k \in Functions
  BY EnclosingFacts
<1>3. \A v \in Functions : \A k \in Family(v) : Outermost(k) = Outermost(v)
  BY <1>1, <1>2
<1>4. \A v \in Functions : \A k \in Family(v) : Family(k) \subseteq Family(v)
  BY <1>1, EnclosingFacts
<1>5. \A i \in Functions : i \in Family(Outermost(i)) /\ Outermost(i) \in Functions
  BY <1>1, EnclosingFacts
<1>6. \A i \in Functions : Fn(i).outer = 0 => Outermost(i) = i
  BY EnclosingFacts
<1>7. ASSUME NEW i \in Functions, Fn(i).outer # 0
      PROVE  /\ Fn(i).outer \in Functions /\ Outermost(i) = Outermost(Fn(i).outer)
             /\ Enclosing(i) = {i} \cup Enclosing(Fn(i).outer) /\ i \in Family(Fn(i).outer)
  <2>1. Fn(i).outer \in Functions
    BY <1>7, OuterFacts
  <2>2. Enclosing(i) = {i} \cup Enclosing(Fn(i).outer)
    BY EnclosingIs
  <2>3. Fn(i).outer \in Enclosing(i)
    BY <2>1, <2>2, EnclosingFacts
  <2>. QED  BY <1>1, <1>2, <2>1, <2>2, <2>3
<1>8. ASSUME NEW i \in Functions, Fn(i).outer = 0
      PROVE  Enclosing(i) = {i}
  BY <1>8, EnclosingIs
<1>. QED  BY <1>1, <1>2, <1>3, <1>4, <1>5, <1>6, <1>7, <1>8

-----------------------------------------------------------------------------
(* What a name means.                                                      *)

LEMMA LastFacts ==
    ASSUME NEW n \in Nat, NEW S \in SUBSET (0 .. n), S # {}
    PROVE  Last(S) \in S /\ \A k \in S : k <= Last(S)
<1>1. \E m \in S : \A k \in S : k <= m
  BY GreatestNat
<1>. QED  BY <1>1 DEF Last

LEMMA FirstFacts ==
    ASSUME NEW S \in SUBSET Nat, S # {}
    PROVE  First(S) \in S /\ \A k \in S : First(S) <= k
<1>1. \E m \in S : \A k \in S : m <= k
  BY LeastNat
<1>. QED  BY <1>1 DEF First

LEMMA OnlyOne ==
    ASSUME NEW x \in Nat
    PROVE  Last({x}) = x /\ First({x}) = x
<1>1. {x} \in SUBSET (0 .. x) /\ {x} \in SUBSET Nat /\ {x} # {}
  OBVIOUS
<1>2. Last({x}) \in {x}
  BY <1>1, LastFacts
<1>3. First({x}) \in {x}
  BY <1>1, FirstFacts
<1>. QED  BY <1>2, <1>3

LEMMA ClassesFacts ==
    ASSUME file \in Files
    PROVE  /\ Len(file.classes) \in Nat /\ Classes = 1 .. Len(file.classes)
           /\ \A c \in Classes : c \in Nat /\ c # 0
<1>1. Len(file.classes) \in Nat
  BY FileFacts, Zenon
<1>. QED  BY <1>1 DEF Classes

LEMMA AncestorsFacts ==
    ASSUME file \in Files
    PROVE  /\ \A c \in Classes : c \in Ancestors(c) /\ Ancestors(c) \subseteq 0 .. c
           /\ \A c \in Classes : \A b \in Bases(c) : b \in Classes /\ Ancestors(b) \subseteq Ancestors(c)
<1>. DEFINE n == Len(file.classes)
            B(k) == IF k = 0 THEN {} ELSE Bases(k)
            Anc(f, k) == {k} \cup UNION {f[b] : b \in B(k)}
            anc == CHOOSE f : f = [k \in 0 .. n |-> Anc(f, k)]
            base == [k \in 0 .. n |-> {k}]
            from == [k \in 0 .. n |-> B(k)]
<1>1. n \in Nat /\ Classes = 1 .. n
  <2>1. n \in Nat
    BY FileFacts, Zenon
  <2>. QED  BY <2>1 DEF Classes
<1>2. \A c : Ancestors(c) = anc[c]
  BY DEF Ancestors
<1>3. \A k \in 0 .. n : B(k) \subseteq 1 .. n /\ \A b \in B(k) : b < k
  BY <1>1 DEF Bases
<1>. HIDE DEF n, B
<1>4. /\ base \in [0 .. n -> SUBSET Nat] /\ from \in [0 .. n -> SUBSET (0 .. n)]
      /\ \A k \in 0 .. n : \A b \in from[k] : b < k
  <2>1. base \in [0 .. n -> SUBSET Nat]
    BY <1>1
  <2>2. from \in [0 .. n -> SUBSET (0 .. n)] /\ \A k \in 0 .. n : \A b \in from[k] : b < k
    BY <1>1, <1>3
  <2>. QED  BY <2>1, <2>2
<1>5. PICK f : f = [k \in 0 .. n |-> base[k] \cup UNION {f[b] : b \in from[k]}]
  <2>. HIDE DEF base, from
  <2>. QED  BY <1>1, <1>4, SetsAbove
<1>6. \A k \in 0 .. n : base[k] \cup UNION {f[b] : b \in from[k]} = Anc(f, k)
  OBVIOUS
<1>7. f = [k \in 0 .. n |-> Anc(f, k)]
  <2>. HIDE DEF base, from, Anc
  <2>. QED  BY <1>5, <1>6
<1>8. anc = [k \in 0 .. n |-> Anc(anc, k)]
  <2>. HIDE DEF Anc
  <2>. QED  BY <1>7
<1>9. \A k \in 0 .. n : anc[k] = Anc(anc, k)
  <2>. HIDE DEF Anc, anc
  <2>. QED  BY <1>8
<1>. HIDE DEF anc
<1>10. \A c \in 1 .. n : c \in anc[c] /\ \A b \in B(c) : b \in 1 .. n /\ anc[b] \subseteq anc[c]
  BY <1>1, <1>3, <1>9
<1>. DEFINE S == {m \in 0 .. n : \A c \in 0 .. m : anc[c] \subseteq 0 .. c}
<1>11. 0 \in S
  <2>1. anc[0] = {0}
    BY <1>1, <1>9 DEF B
  <2>2. \A c \in 0 .. 0 : c = 0
    OBVIOUS
  <2>. QED  BY <1>1, <2>1, <2>2
<1>12. ASSUME NEW m \in 0 .. n - 1, m \in S PROVE m + 1 \in S
  <2>1. m + 1 \in 0 .. n /\ \A b \in B(m + 1) : b \in 0 .. m
    BY <1>1, <1>3
  <2>2. ASSUME NEW b \in B(m + 1) PROVE anc[b] \subseteq 0 .. m + 1
    <3>1. anc[b] \subseteq 0 .. b /\ b \in 0 .. m
      BY <1>12, <2>1
    <3>. QED  BY <3>1
  <2>3. anc[m + 1] \subseteq 0 .. m + 1
    <3>1. anc[m + 1] = {m + 1} \cup UNION {anc[b] : b \in B(m + 1)}
      BY <1>9, <2>1
    <3>2. m + 1 \in 0 .. m + 1
      OBVIOUS
    <3>. QED  BY <2>2, <3>1, <3>2
  <2>4. \A c \in 0 .. m + 1 : c \in 0 .. m \/ c = m + 1
    OBVIOUS
  <2>. QED  BY <1>12, <2>1, <2>3, <2>4
<1>13. 0 .. n \subseteq S
  <2>. HIDE DEF S
  <2>. QED  BY <1>1, <1>11, <1>12, IntervalInduction
<1>14. \A c \in 1 .. n : anc[c] \subseteq 0 .. c
  <2>1. n \in S
    BY <1>1, <1>13
  <2>. QED  BY <1>1, <2>1
<1>. QED  BY <1>1, <1>2, <1>10, <1>14 DEF B

(* A method is its class's own, or that of an ancestor.                    *)
LEMMA MethodFacts ==
    ASSUME file \in Files, NEW c \in Classes, NEW name
    PROVE  /\ Named(Methods(c), name) # {} => MethodOf(c, name) = Last(Named(Methods(c), name))
           /\ MethodOf(c, name) # 0 =>
                /\ MethodOf(c, name) \in Functions /\ Fn(MethodOf(c, name)).name = name
                /\ Fn(MethodOf(c, name)).class # 0
<1>. DEFINE owners == {a \in Ancestors(c) \ {0} : Named(Methods(a), name) # {}}
            M(a) == Named(Methods(a), name)
<1>1. MethodOf(c, name) = IF owners = {} THEN 0 ELSE Last(M(Last(owners)))
  BY DEF MethodOf
<1>2. c \in Nat /\ c # 0 /\ owners \in SUBSET (0 .. c) /\ Ancestors(c) \subseteq 0 .. c /\ c \in Ancestors(c)
  <2>1. c \in Nat /\ c # 0
    BY ClassesFacts
  <2>2. Ancestors(c) \subseteq 0 .. c /\ c \in Ancestors(c)
    BY AncestorsFacts
  <2>. QED  BY <2>1, <2>2
<1>3. Size \in Nat /\ \A a : M(a) \in SUBSET (0 .. Size)
  BY OuterFacts DEF Named, Methods
<1>. HIDE DEF M
<1>4. M(c) # {} => Last(owners) = c
  <2>. HAVE M(c) # {}
  <2>1. c \in owners
    BY <1>2 DEF M
  <2>. HIDE DEF owners
  <2>2. Last(owners) \in owners /\ c <= Last(owners)
    BY <1>2, <2>1, LastFacts
  <2>3. Last(owners) \in 0 .. c /\ c \in Nat
    BY <1>2, <2>2
  <2>. QED  BY <2>2, <2>3
<1>5. M(c) # {} => MethodOf(c, name) = Last(M(c))
  <2>. HAVE M(c) # {}
  <2>1. c \in owners
    BY <1>2 DEF M
  <2>. QED  BY <1>1, <1>4, <2>1
<1>6. ASSUME owners # {}
      PROVE  /\ MethodOf(c, name) \in Functions /\ Fn(MethodOf(c, name)).name = name
             /\ Fn(MethodOf(c, name)).class # 0
  <2>1. Last(owners) \in owners
    <3>. HIDE DEF owners
    <3>. QED  BY <1>2, <1>6, LastFacts
  <2>. DEFINE a == Last(owners)
  <2>2. a # 0 /\ M(a) # {}
    BY <2>1 DEF M
  <2>. HIDE DEF a
  <2>3. Last(M(a)) \in M(a)
    BY <1>3, <2>2, LastFacts
  <2>4. MethodOf(c, name) \in M(a)
    BY <1>1, <1>6, <2>3 DEF a
  <2>. QED  BY <2>2, <2>4 DEF M, Named, Methods
<1>. QED  BY <1>1, <1>5, <1>6 DEF M

LEMMA BareFacts ==
    ASSUME file \in Files, NEW i \in Functions, NEW name, NEW t, t = BareTarget(i, name), t # 0
    PROVE  /\ t \in Functions /\ Fn(t).name = name
           /\ Fn(t).outer \in Enclosing(i) \/ t \in TopLevel
<1>. DEFINE inside == Named({k \in Functions : Fn(k).outer \in Enclosing(i)}, name)
            top == Named(TopLevel, name)
<1>1. Size \in Nat /\ inside \in SUBSET (0 .. Size) /\ top \in SUBSET (0 .. Size)
  BY OuterFacts DEF Named, TopLevel
<1>2. t = IF inside # {} THEN Last(inside) ELSE Last(top)
  BY DEF BareTarget
<1>3. inside # {} => Last(inside) \in inside
  <2>. HIDE DEF inside
  <2>. QED  BY <1>1, LastFacts
<1>4. top # {} => Last(top) \in top
  <2>. HIDE DEF top
  <2>. QED  BY <1>1, LastFacts
<1>5. Last({}) = 0
  BY DEF Last
<1>6. t \in inside \/ t \in top
  <2>. HIDE DEF inside, top
  <2>. QED  BY <1>2, <1>3, <1>4, <1>5
<1>. QED  BY <1>6 DEF Named, TopLevel

LEMMA ClassNamedFacts ==
    ASSUME file \in Files, NEW name
    PROVE  ClassNamed(name) # 0 => ClassNamed(name) \in Classes /\ ClassOf(ClassNamed(name)).name = name
<1>. DEFINE S == {c \in Classes : ClassOf(c).name = name}
            n == Len(file.classes)
<1>1. n \in Nat /\ S \in SUBSET (0 .. n)
  <2>1. n \in Nat
    BY FileFacts, Zenon
  <2>. QED  BY <2>1 DEF Classes
<1>2. S # {} => Last(S) \in S
  <2>. HIDE DEF S, n
  <2>. QED  BY <1>1, LastFacts
<1>3. Last({}) = 0
  BY DEF Last
<1>4. S # {} => Last(S) \in Classes /\ ClassOf(Last(S)).name = name
  BY <1>2
<1>5. ClassNamed(name) = Last(S)
  BY DEF ClassNamed
<1>. HIDE DEF S
<1>. QED  BY <1>3, <1>4, <1>5

LEMMA CallFacts ==
    ASSUME file \in Files, NEW i \in Functions
    PROVE  /\ Fn(i).calls \subseteq Call
           /\ \A c \in Fn(i).calls : c.how \in Hows
<1>1. Fn(i) \in Function
  BY FileFacts
<1>2. Fn(i).calls \in SUBSET Call
  BY <1>1 DEF Function
<1>3. \A c \in Call : c.how \in Hows
  BY DEF Call
<1>. QED  BY <1>2, <1>3

(* The class of the outermost function.                                    *)
LEMMA SelfClassFacts ==
    ASSUME file \in Files, NEW i \in Functions
    PROVE  /\ SelfClass(i) = 0 \/ SelfClass(i) \in Classes
           /\ Outermost(i) \in Functions
           /\ SelfClass(i) # 0 => Outermost(i) \in Methods(SelfClass(i))
<1>1. Outermost(i) \in Functions
  BY EnclosingFacts
<1>2. Fn(Outermost(i)).class \in 0 .. Len(file.classes) /\ Len(file.classes) \in Nat
  BY <1>1, FileFacts, Zenon
<1>. QED  BY <1>1, <1>2 DEF SelfClass, Methods, Classes

(* What a call gets to.                                                    *)
LEMMA TargetFacts ==
    ASSUME file \in Files, NEW i \in Functions, NEW c \in Fn(i).calls, NEW t, t = Target(i, c), t # 0
    PROVE  /\ t \in Functions /\ Fn(t).name = c.name
           /\ Fn(t).outer # 0 => c.how = "bare" /\ Fn(t).outer \in Enclosing(i)
<1>0. c.how \in Hows
  BY CallFacts
<1>1. ASSUME NEW d \in Classes, t = MethodOf(d, c.name)
      PROVE  t \in Functions /\ Fn(t).name = c.name /\ Fn(t).outer = 0
  <2>1. t \in Functions /\ Fn(t).name = c.name /\ Fn(t).class # 0
    BY <1>1, MethodFacts
  <2>2. Fn(t).outer = 0
    BY <2>1, FileFacts, Zenon
  <2>. QED  BY <2>1, <2>2
<1>2. CASE c.how \in {"self", "executor", "handoff"}
  <2>1. t = IF SelfClass(i) = 0 THEN 0 ELSE MethodOf(SelfClass(i), c.name)
    BY <1>2 DEF Target
  <2>2. SelfClass(i) = 0 \/ SelfClass(i) \in Classes
    BY SelfClassFacts
  <2>. QED  BY <1>1, <1>2, <2>1, <2>2
<1>3. CASE c.how \in {"class", "var"}
  <2>1. t = IF ClassNamed(c.of) = 0 THEN 0 ELSE MethodOf(ClassNamed(c.of), c.name)
    BY <1>3 DEF Target
  <2>2. ClassNamed(c.of) = 0 \/ ClassNamed(c.of) \in Classes
    BY ClassNamedFacts
  <2>. QED  BY <1>1, <1>3, <2>1, <2>2
<1>4. CASE c.how = "bare"
  <2>1. t = BareTarget(i, c.name)
    BY <1>4 DEF Target
  <2>2. t \in Functions /\ Fn(t).name = c.name /\ (Fn(t).outer \in Enclosing(i) \/ t \in TopLevel)
    BY <2>1, BareFacts
  <2>3. t \in TopLevel => Fn(t).outer = 0
    BY DEF TopLevel
  <2>. QED  BY <1>4, <2>2, <2>3
<1>. QED  BY <1>0, <1>2, <1>3, <1>4 DEF Hows

(* In a plain file a name in a scope or a class is the name of one.        *)
LEMMA PlainNames ==
    ASSUME file \in Files, Plain
    PROVE  /\ \A c \in Classes : \A m \in Methods(c) : Named(Methods(c), Fn(m).name) = {m} /\ m \in MethodMap(c)
           /\ \A i \in TopLevel : Named(TopLevel, Fn(i).name) = {i} /\ i \in TopLevelMap
           /\ \A c \in Classes : ClassNamed(ClassOf(c).name) = c
           /\ \A c \in Classes : First({d \in Classes : ClassOf(d).name = ClassOf(c).name}) = c
<1>0. \A x : Cardinality({x}) = 1
  BY FS_Singleton
<1>1. \A i, k \in Functions : i # k /\ Fn(i).name = Fn(k).name => <<Fn(i).class, Fn(i).outer>> # <<Fn(k).class, Fn(k).outer>>
  BY DEF Plain
<1>2. ASSUME NEW c \in Classes, NEW m \in Methods(c)
      PROVE  Named(Methods(c), Fn(m).name) = {m} /\ m \in MethodMap(c)
  <2>1. \A k \in Methods(c) : k \in Functions /\ Fn(k).class = c /\ Fn(k).outer = 0
    <3>1. c # 0
      BY ClassesFacts
    <3>2. \A k \in Functions : Fn(k).class = 0 \/ Fn(k).outer = 0
      BY FileFacts, Zenon
    <3>. QED  BY <3>1, <3>2 DEF Methods
  <2>2. Named(Methods(c), Fn(m).name) = {m}
    BY <1>1, <2>1 DEF Named
  <2>. QED  BY <1>0, <2>2 DEF MethodMap
<1>3. ASSUME NEW i \in TopLevel
      PROVE  Named(TopLevel, Fn(i).name) = {i} /\ i \in TopLevelMap
  <2>1. Named(TopLevel, Fn(i).name) = {i}
    BY <1>1 DEF Named, TopLevel
  <2>. QED  BY <1>0, <2>1 DEF TopLevelMap
<1>4. ASSUME NEW c \in Classes
      PROVE  /\ ClassNamed(ClassOf(c).name) = c
             /\ First({d \in Classes : ClassOf(d).name = ClassOf(c).name}) = c
  <2>1. {d \in Classes : ClassOf(d).name = ClassOf(c).name} = {c}
    BY DEF Plain
  <2>2. c \in Nat
    BY ClassesFacts
  <2>. QED  BY <2>1, <2>2, OnlyOne DEF ClassNamed
<1>. QED  BY <1>2, <1>3, <1>4

-----------------------------------------------------------------------------
(* Lists of tools.                                                         *)

LEMMA ListFacts ==
    ASSUME file \in Files
    PROVE  /\ Len(file.lists) \in Nat
           /\ \A k \in 1 .. Len(file.lists) :
                /\ file.lists[k].elements \in SUBSET STRING
                /\ file.lists[k].op \in {"direct", "assign", "annotated", "other", "grow", "pass"}
<1>1. Len(file.lists) \in Nat /\ \A k \in 1 .. Len(file.lists) : file.lists[k] \in ListOp
  BY FileFacts, Zenon
<1>2. \A o \in ListOp : /\ o.elements \in SUBSET STRING
                        /\ o.op \in {"direct", "assign", "annotated", "other", "grow", "pass"}
  BY DEF ListOp
<1>. QED  BY <1>1, <1>2

LEMMA HoldsFacts ==
    ASSUME file \in Files, NEW var
    PROVE  /\ Holds(0, var) = {}
           /\ \A k \in 1 .. Len(file.lists) :
                Holds(k, var) = IF file.lists[k].var # var \/ file.lists[k].op \in {"direct", "pass"}
                                THEN Holds(k - 1, var)
                                ELSE IF file.lists[k].op = "grow"
                                THEN Holds(k - 1, var) \cup file.lists[k].elements
                                ELSE file.lists[k].elements
<1>. DEFINE n == Len(file.lists)
            T == SUBSET STRING
            Next1(s, k) == IF file.lists[k].var # var \/ file.lists[k].op \in {"direct", "pass"} THEN s
                           ELSE IF file.lists[k].op = "grow" THEN s \cup file.lists[k].elements
                           ELSE file.lists[k].elements
            Step(f, k) == IF k = 0 THEN {} ELSE Next1(f[k - 1], k)
            content == CHOOSE f : f = [k \in 0 .. n |-> Step(f, k)]
            step == [p \in (1 .. n) \X T |-> Next1(p[2], p[1])]
<1>1. n \in Nat /\ \A k \in 1 .. n : file.lists[k].elements \in T
  BY ListFacts
<1>2. \A k : Holds(k, var) = content[k]
  BY DEF Holds
<1>. HIDE DEF n
<1>3. \A k \in 1 .. n : \A s \in T : Next1(s, k) \in T /\ step[<<k, s>>] = Next1(s, k)
  BY <1>1
<1>4. step \in [(1 .. n) \X T -> T]
  <2>. HIDE DEF Next1, T
  <2>. QED  BY <1>3
<1>5. {} \in T
  OBVIOUS
<1>. HIDE DEF T, step, Next1
<1>6. PICK f \in [0 .. n -> T] : Recursion(f, {}, step, n)
  <2>. DEFINE a == {}
  <2>1. a \in T
    BY <1>5
  <2>. HIDE DEF a
  <2>2. \E f \in [0 .. n -> T] : Recursion(f, a, step, n)
    BY <1>1, <1>4, <2>1, RecursionExists, Zenon
  <2>. QED  BY <2>2 DEF a
<1>7. \A k \in 0 .. n : f[k] = Step(f, k)
  <2>1. \A k \in 1 .. n : k - 1 \in 0 .. n
    BY <1>1
  <2>2. f[0] = {} /\ \A k \in 1 .. n : f[k] = step[<<k, f[k - 1]>>]
    BY <1>6 DEF Recursion
  <2>3. \A k \in 1 .. n : step[<<k, f[k - 1]>>] = Next1(f[k - 1], k)
    BY <1>3, <2>1
  <2>4. \A k \in 0 .. n : k = 0 \/ k \in 1 .. n
    BY <1>1
  <2>. QED  BY <2>2, <2>3, <2>4
<1>8. content = [k \in 0 .. n |-> Step(content, k)]
  <2>1. f = [k \in 0 .. n |-> Step(f, k)]
    <3>. HIDE DEF Step
    <3>. QED  BY <1>7
  <2>. HIDE DEF Step
  <2>. QED  BY <2>1
<1>9. \A k \in 0 .. n : content[k] = Step(content, k)
  <2>. HIDE DEF Step, content
  <2>. QED  BY <1>8
<1>. HIDE DEF content
<1>10. content[0] = {} /\ \A k \in 1 .. n : content[k] = Next1(content[k - 1], k)
  <2>1. 0 \in 0 .. n /\ \A k \in 1 .. n : k \in 0 .. n /\ k # 0
    BY <1>1
  <2>. QED  BY <1>9, <2>1
<1>. QED  BY <1>2, <1>10 DEF Next1, n

(* One entry's effect on the state of a list variable.                     *)
After(name, var, s, o) ==
    IF o.var # var THEN s
    ELSE CASE o.op \in {"assign", "annotated"} ->
                IF s # "unset" THEN "dynamic"
                ELSE IF name \in o.elements THEN "clean" ELSE "neutral"
           [] o.op = "other" -> "dynamic"
           [] o.op = "grow" -> IF s # "unset" THEN "dynamic" ELSE s
           [] OTHER -> s

LEMMA StateFacts ==
    ASSUME file \in Files, NEW name, NEW var
    PROVE  \E state :
             /\ state[0] = "unset" /\ ListState(name, var) = state[Len(file.lists)]
             /\ \A k \in 1 .. Len(file.lists) : state[k] = After(name, var, state[k - 1], file.lists[k])
<1>. DEFINE n == Len(file.lists)
            T == {"unset", "clean", "neutral", "dynamic"}
            Next1(s, k) == After(name, var, s, file.lists[k])
            Step(f, k) == IF k = 0 THEN "unset" ELSE Next1(f[k - 1], k)
            state == CHOOSE f : f = [k \in 0 .. n |-> Step(f, k)]
            step == [p \in (1 .. n) \X T |-> Next1(p[2], p[1])]
<1>1. n \in Nat
  BY ListFacts
<1>2. ListState(name, var) = state[n]
  BY DEF ListState, After
<1>. HIDE DEF n
<1>3. \A k \in 1 .. n : \A s \in T : Next1(s, k) \in T /\ step[<<k, s>>] = Next1(s, k)
  <2>1. \A k \in 1 .. n : \A s \in T : Next1(s, k) \in T
    BY DEF After
  <2>. HIDE DEF Next1
  <2>. QED  BY <2>1
<1>4. step \in [(1 .. n) \X T -> T]
  <2>. HIDE DEF Next1, T
  <2>. QED  BY <1>3
<1>5. "unset" \in T
  OBVIOUS
<1>. HIDE DEF T, step, Next1
<1>6. PICK f \in [0 .. n -> T] : Recursion(f, "unset", step, n)
  <2>. DEFINE a == "unset"
  <2>1. a \in T
    BY <1>5
  <2>. HIDE DEF a
  <2>2. \E f \in [0 .. n -> T] : Recursion(f, a, step, n)
    BY <1>1, <1>4, <2>1, RecursionExists, Zenon
  <2>. QED  BY <2>2 DEF a
<1>7. \A k \in 0 .. n : f[k] = Step(f, k)
  <2>1. \A k \in 1 .. n : k - 1 \in 0 .. n
    BY <1>1
  <2>2. f[0] = "unset" /\ \A k \in 1 .. n : f[k] = step[<<k, f[k - 1]>>]
    BY <1>6 DEF Recursion
  <2>3. \A k \in 1 .. n : step[<<k, f[k - 1]>>] = Next1(f[k - 1], k)
    BY <1>3, <2>1
  <2>4. \A k \in 0 .. n : k = 0 \/ k \in 1 .. n
    BY <1>1
  <2>. QED  BY <2>2, <2>3, <2>4
<1>8. state = [k \in 0 .. n |-> Step(state, k)]
  <2>1. f = [k \in 0 .. n |-> Step(f, k)]
    <3>. HIDE DEF Step
    <3>. QED  BY <1>7
  <2>. HIDE DEF Step
  <2>. QED  BY <2>1
<1>9. \A k \in 0 .. n : state[k] = Step(state, k)
  <2>. HIDE DEF Step, state
  <2>. QED  BY <1>8
<1>. HIDE DEF state
<1>10. state[0] = "unset" /\ \A k \in 1 .. n : state[k] = Next1(state[k - 1], k)
  <2>1. 0 \in 0 .. n /\ \A k \in 1 .. n : k \in 0 .. n /\ k # 0
    BY <1>1
  <2>. QED  BY <1>9, <2>1
<1>. QED  BY <1>2, <1>10 DEF Next1, n

(* A name the detector finds in a list that is passed as tools= is in that *)
(* list when it is passed.                                                 *)
LEMMA ListedIfFound ==
    ASSUME file \in Files, ListsAreAssigned, NEW name, InToolList(name)
    PROVE  name \in Listed
<1>. DEFINE n == Len(file.lists)
            O(k) == file.lists[k]
<1>0. n \in Nat /\ \A k \in 1 .. n : O(k).op \in {"direct", "assign", "annotated", "other", "grow", "pass"}
  BY ListFacts
<1>1. PICK k \in 1 .. n : \/ O(k).op = "direct" /\ name \in O(k).elements
                          \/ O(k).op = "pass" /\ ListState(name, O(k).var) = "clean"
  BY DEF InToolList
<1>2. CASE O(k).op = "direct" /\ name \in O(k).elements
  BY <1>2 DEF Listed
<1>3. CASE O(k).op = "pass" /\ ListState(name, O(k).var) = "clean"
  <2>. DEFINE var == O(k).var
  <2>1. PICK j \in 1 .. k - 1 : O(j).var = var /\ O(j).op \in {"assign", "annotated"}
    BY <1>3 DEF ListsAreAssigned
  <2>2. PICK state : /\ state[0] = "unset" /\ ListState(name, var) = state[n]
                     /\ \A m \in 1 .. n : state[m] = After(name, var, state[m - 1], O(m))
    <3>. HIDE DEF var
    <3>1. file \in Files
      OBVIOUS
    <3>2. \E state : /\ state[0] = "unset" /\ ListState(name, var) = state[Len(file.lists)]
                     /\ \A m \in 1 .. Len(file.lists) :
                          state[m] = After(name, var, state[m - 1], file.lists[m])
      <4>. HIDE DEF O, n
      <4>. QED  BY <3>1, StateFacts, Zenon
    <3>. QED  BY <3>2, Zenon DEF O, n
  <2>. HIDE DEF n, var
  <2>3. ASSUME NEW m \in 1 .. n
        PROVE  /\ state[m - 1] \notin {"unset", "clean"} => state[m] \notin {"unset", "clean"}
               /\ state[m] = "unset" => state[m - 1] = "unset" /\ ~(O(m).var = var /\ O(m).op \in {"assign", "annotated"})
    BY <2>2 DEF After
  <2>4. state[k] \in {"unset", "clean"}
    <3>. DEFINE S == {m \in 0 .. n - k : state[k] \notin {"unset", "clean"} => state[k + m] \notin {"unset", "clean"}}
    <3>1. 0 \in S
      BY <1>0
    <3>2. ASSUME NEW m \in 0 .. (n - k) - 1, m \in S PROVE m + 1 \in S
      <4>1. k + (m + 1) \in 1 .. n /\ (k + (m + 1)) - 1 = k + m /\ m + 1 \in 0 .. n - k
        BY <1>0
      <4>. QED  BY <2>3, <3>2, <4>1
    <3>3. n - k \in Nat /\ n - k \in 0 .. n - k /\ k + (n - k) = n
      BY <1>0
    <3>4. 0 .. n - k \subseteq S
      <4>. HIDE DEF S
      <4>. QED  BY <3>1, <3>2, <3>3, IntervalInduction
    <3>5. state[n] = "clean"
      BY <1>3, <2>2 DEF var
    <3>. QED  BY <3>3, <3>4, <3>5
  <2>5. state[k] # "unset"
    <3>. DEFINE S == {m \in 0 .. k - j : state[j + m] # "unset"}
    <3>1. 0 \in S
      BY <1>0, <2>1, <2>3
    <3>2. ASSUME NEW m \in 0 .. (k - j) - 1, m \in S PROVE m + 1 \in S
      <4>1. j + (m + 1) \in 1 .. n /\ (j + (m + 1)) - 1 = j + m /\ m + 1 \in 0 .. k - j
        BY <1>0
      <4>. QED  BY <2>3, <3>2, <4>1
    <3>3. k - j \in Nat /\ k - j \in 0 .. k - j /\ j + (k - j) = k
      BY <1>0
    <3>4. 0 .. k - j \subseteq S
      <4>. HIDE DEF S
      <4>. QED  BY <3>1, <3>2, <3>3, IntervalInduction
    <3>. QED  BY <3>3, <3>4
  <2>6. name \in Holds(k, var)
    <3>. DEFINE S == {m \in 0 .. n : state[m] = "clean" => name \in Holds(m, var)}
    <3>1. 0 \in S
      BY <1>0, <2>2
    <3>2. ASSUME NEW m \in 0 .. n - 1, m \in S PROVE m + 1 \in S
      <4>1. m + 1 \in 1 .. n /\ (m + 1) - 1 = m /\ m + 1 \in 0 .. n
        BY <1>0
      <4>2. state[m + 1] = After(name, var, state[m], O(m + 1))
        BY <2>2, <4>1
      <4>3. Holds(m + 1, var) = IF O(m + 1).var # var \/ O(m + 1).op \in {"direct", "pass"}
                                THEN Holds(m, var)
                                ELSE IF O(m + 1).op = "grow" THEN Holds(m, var) \cup O(m + 1).elements
                                ELSE O(m + 1).elements
        <5>. DEFINE l == m + 1
        <5>1. l \in 1 .. Len(file.lists) /\ l - 1 = m
          BY <4>1 DEF n
        <5>. HIDE DEF l
        <5>2. Holds(l, var) = IF file.lists[l].var # var \/ file.lists[l].op \in {"direct", "pass"}
                                  THEN Holds(l - 1, var)
                                  ELSE IF file.lists[l].op = "grow" THEN Holds(l - 1, var) \cup file.lists[l].elements
                                  ELSE file.lists[l].elements
          BY <5>1, HoldsFacts, Zenon
        <5>. QED  BY <5>1, <5>2 DEF l
      <4>4. O(m + 1).op \in {"direct", "assign", "annotated", "other", "grow", "pass"}
        BY <1>0, <4>1
      <4>5. state[m + 1] = "clean" => name \in Holds(m + 1, var)
        BY <3>2, <4>2, <4>3, <4>4 DEF After
      <4>. QED  BY <4>1, <4>5
    <3>3. 0 .. n \subseteq S
      <4>. HIDE DEF S
      <4>. QED  BY <1>0, <3>1, <3>2, IntervalInduction
    <3>4. k \in S
      BY <1>0, <3>3
    <3>. QED  BY <2>4, <2>5, <3>4
  <2>. QED  BY <1>3, <2>6 DEF Listed, var, n
<1>. QED  BY <1>1, <1>2, <1>3

(* And where lists are clear it finds every name that is in one.           *)
LEMMA FoundIfListed ==
    ASSUME file \in Files, ListsAreClear, NEW name, name \in Listed
    PROVE  InToolList(name)
<1>. DEFINE n == Len(file.lists)
            O(k) == file.lists[k]
<1>0. n \in Nat /\ \A k \in 1 .. n : O(k).op \in {"direct", "assign", "annotated", "other", "grow", "pass"}
  BY ListFacts
<1>1. PICK k \in 1 .. n : \/ O(k).op = "direct" /\ name \in O(k).elements
                          \/ O(k).op = "pass" /\ name \in Holds(k, O(k).var)
  BY <1>0 DEF Listed
<1>2. CASE O(k).op = "direct" /\ name \in O(k).elements
  BY <1>2 DEF InToolList
<1>3. CASE O(k).op = "pass" /\ name \in Holds(k, O(k).var)
  <2>. DEFINE var == O(k).var
  <2>1. PICK j \in 1 .. k - 1 : O(j).var = var /\ O(j).op \in {"assign", "annotated"}
    BY <1>3 DEF ListsAreClear, ListsAreAssigned
  <2>2. PICK state : /\ state[0] = "unset" /\ ListState(name, var) = state[n]
                     /\ \A m \in 1 .. n : state[m] = After(name, var, state[m - 1], O(m))
    <3>. HIDE DEF var
    <3>1. file \in Files
      OBVIOUS
    <3>2. \E state : /\ state[0] = "unset" /\ ListState(name, var) = state[Len(file.lists)]
                     /\ \A m \in 1 .. Len(file.lists) :
                          state[m] = After(name, var, state[m - 1], file.lists[m])
      <4>. HIDE DEF O, n
      <4>. QED  BY <3>1, StateFacts, Zenon
    <3>. QED  BY <3>2, Zenon DEF O, n
  <2>3. \A m \in 1 .. n : m # j => O(m).var # var \/ O(m).op = "pass"
    BY <1>0, <1>3, <2>1 DEF ListsAreClear
  <2>. HIDE DEF n, var
  <2>. DEFINE e == O(j).elements
              S == {m \in 0 .. n : /\ m < j => state[m] = "unset" /\ Holds(m, var) = {}
                                   /\ m >= j => /\ state[m] = (IF name \in e THEN "clean" ELSE "neutral")
                                                /\ Holds(m, var) = e}
  <2>4. 0 \in S
    BY <1>0, <2>2, HoldsFacts
  <2>5. ASSUME NEW m \in 0 .. n - 1, m \in S PROVE m + 1 \in S
    <3>1. m + 1 \in 1 .. n /\ (m + 1) - 1 = m /\ m + 1 \in 0 .. n
      BY <1>0
    <3>2. state[m + 1] = After(name, var, state[m], O(m + 1))
      BY <2>2, <3>1
    <3>3. Holds(m + 1, var) = IF O(m + 1).var # var \/ O(m + 1).op \in {"direct", "pass"}
                              THEN Holds(m, var)
                              ELSE IF O(m + 1).op = "grow" THEN Holds(m, var) \cup O(m + 1).elements
                              ELSE O(m + 1).elements
      <4>. DEFINE l == m + 1
      <4>1. l \in 1 .. Len(file.lists) /\ l - 1 = m
        BY <3>1 DEF n
      <4>. HIDE DEF l
      <4>2. Holds(l, var) = IF file.lists[l].var # var \/ file.lists[l].op \in {"direct", "pass"}
                                THEN Holds(l - 1, var)
                                ELSE IF file.lists[l].op = "grow" THEN Holds(l - 1, var) \cup file.lists[l].elements
                                ELSE file.lists[l].elements
        BY <4>1, HoldsFacts, Zenon
      <4>. QED  BY <4>1, <4>2 DEF l
    <3>4. CASE m + 1 = j
      <4>1. state[m] = "unset" /\ m + 1 >= j /\ ~(m + 1 < j)
        BY <2>5, <3>4
      <4>2. state[m + 1] = (IF name \in e THEN "clean" ELSE "neutral") /\ Holds(m + 1, var) = e
        BY <2>1, <3>2, <3>3, <3>4, <4>1 DEF After
      <4>. QED  BY <3>1, <4>1, <4>2
    <3>5. CASE m + 1 # j
      <4>1. O(m + 1).var # var \/ O(m + 1).op = "pass"
        BY <2>3, <3>1, <3>5
      <4>2. state[m + 1] = state[m] /\ Holds(m + 1, var) = Holds(m, var)
        BY <3>2, <3>3, <4>1 DEF After
      <4>3. (m + 1 < j => m < j) /\ (m + 1 >= j => m >= j)
        BY <3>5
      <4>. QED  BY <2>5, <3>1, <4>2, <4>3
    <3>. QED  BY <3>4, <3>5
  <2>6. 0 .. n \subseteq S
    <3>. HIDE DEF S
    <3>. QED  BY <1>0, <2>4, <2>5, IntervalInduction
  <2>7. k \in S /\ n \in S /\ k >= j /\ n >= j
    BY <1>0, <2>6
  <2>8. state[n] = "clean"
    BY <1>3, <2>7 DEF var
  <2>. QED  BY <1>3, <2>2, <2>8 DEF InToolList, var, n
<1>. QED  BY <1>1, <1>2, <1>3

(* What the detector takes for a tool is one, and where the lists are      *)
(* clear the other way round.                                              *)
LEMMA AnnouncedIsOffered ==
    ASSUME file \in Files, ListsAreAssigned, NEW i \in Functions, Announced(i)
    PROVE  Offered(i)
<1>1. InToolList(Fn(i).name) => Fn(i).name \in Listed
  BY ListedIfFound
<1>. QED  BY <1>1 DEF Announced, Offered, ToolDecorated, RouteDecorated, Wrapped, ToolMethod, Appended

LEMMA OfferedIsAnnounced ==
    ASSUME file \in Files, ListsAreClear, NEW i \in Functions, Offered(i)
    PROVE  Announced(i)
<1>1. Fn(i).name \in Listed => InToolList(Fn(i).name)
  BY FoundIfListed
<1>. QED  BY <1>1 DEF Announced, Offered, ToolDecorated, RouteDecorated, Wrapped, ToolMethod, Appended

LEMMA OfferedIsMarked ==
    ASSUME file \in Files, NEW i \in Functions, Offered(i)
    PROVE  Marked
<1>1. Fn(i).class # 0 => Fn(i).class \in Classes
  <2>1. Fn(i).class \in 0 .. Len(file.classes)
    BY FileFacts, Zenon
  <2>. QED  BY <2>1, ClassesFacts
<1>2. Fn(i).name \in Listed => file.lists # <<>>
  <2>. HAVE Fn(i).name \in Listed
  <2>1. PICK k \in 1 .. Len(file.lists) : TRUE
    BY DEF Listed
  <2>2. Len(file.lists) # 0
    BY <2>1, ListFacts
  <2>. QED  BY <2>2
<1>. QED  BY <1>1, <1>2 DEF Offered, Marked, ToolDecorated, RouteDecorated

-----------------------------------------------------------------------------
(* The bounded searches.                                                   *)
Entry == Functions \X Nat

(* Queued: each function of S once, in the order of the file.              *)
LEMMA EnqueueFacts ==
    ASSUME file \in Files, NEW S \in SUBSET Functions, NEW h \in Nat
    PROVE  /\ Enqueue(S, h) \in Seq(Entry)
           /\ \A i \in 1 .. Len(Enqueue(S, h)) : Enqueue(S, h)[i][1] \in S /\ Enqueue(S, h)[i][2] = h
           /\ \A k \in S : \E i \in 1 .. Len(Enqueue(S, h)) : Enqueue(S, h)[i] = <<k, h>>
<1>. DEFINE n == Size
            T == Seq(Entry)
            Next1(s, k) == IF k \in S THEN Append(s, <<k, h>>) ELSE s
            Step(f, k) == IF k = 0 THEN <<>> ELSE Next1(f[k - 1], k)
            add == CHOOSE f : f = [k \in 0 .. n |-> Step(f, k)]
            step == [p \in (1 .. n) \X T |-> Next1(p[2], p[1])]
<1>1. n \in Nat /\ Functions = 1 .. n
  BY OuterFacts
<1>2. Enqueue(S, h) = add[n]
  BY DEF Enqueue, Size
<1>. HIDE DEF n
<1>3. \A k \in 1 .. n : \A s \in T : Next1(s, k) \in T
  <2>1. \A k \in 1 .. n : <<k, h>> \in Entry
    BY <1>1 DEF Entry
  <2>. QED  BY <2>1, AppendInSeq
<1>4. step \in [(1 .. n) \X T -> T] /\ \A k \in 1 .. n : \A s \in T : step[<<k, s>>] = Next1(s, k)
  <2>. HIDE DEF Next1, T
  <2>. QED  BY <1>3
<1>5. <<>> \in T
  OBVIOUS
<1>. HIDE DEF T, step, Next1
<1>6. PICK f \in [0 .. n -> T] : Recursion(f, <<>>, step, n)
  <2>. DEFINE a == <<>>
  <2>1. a \in T
    BY <1>5
  <2>. HIDE DEF a
  <2>2. \E f \in [0 .. n -> T] : Recursion(f, a, step, n)
    BY <1>1, <1>4, <2>1, RecursionExists, Zenon
  <2>. QED  BY <2>2 DEF a
<1>7. \A k \in 0 .. n : f[k] = Step(f, k)
  <2>1. \A k \in 1 .. n : k - 1 \in 0 .. n
    BY <1>1
  <2>2. f[0] = <<>> /\ \A k \in 1 .. n : f[k] = step[<<k, f[k - 1]>>]
    BY <1>6 DEF Recursion
  <2>3. \A k \in 1 .. n : step[<<k, f[k - 1]>>] = Next1(f[k - 1], k)
    BY <1>4, <2>1
  <2>4. \A k \in 0 .. n : k = 0 \/ k \in 1 .. n
    BY <1>1
  <2>. QED  BY <2>2, <2>3, <2>4
<1>8. add = [k \in 0 .. n |-> Step(add, k)]
  <2>1. f = [k \in 0 .. n |-> Step(f, k)]
    <3>. HIDE DEF Step
    <3>. QED  BY <1>7
  <2>. HIDE DEF Step
  <2>. QED  BY <2>1
<1>9. \A k \in 0 .. n : add[k] = Step(add, k)
  <2>. HIDE DEF Step, add
  <2>. QED  BY <1>8
<1>. HIDE DEF add
<1>10. add[0] = <<>> /\ \A k \in 0 .. n - 1 : add[k + 1] = Next1(add[k], k + 1)
  <2>1. 0 \in 0 .. n /\ \A k \in 0 .. n - 1 : k + 1 \in 0 .. n /\ k + 1 # 0 /\ (k + 1) - 1 = k
    BY <1>1
  <2>. QED  BY <1>9, <2>1
<1>. DEFINE Good(q, m) == /\ q \in Seq(Entry)
                          /\ \A i \in 1 .. Len(q) : q[i][1] \in S /\ q[i][2] = h
                          /\ \A k \in S : k <= m => \E i \in 1 .. Len(q) : q[i] = <<k, h>>
            G == {m \in 0 .. n : Good(add[m], m)}
<1>11. 0 \in G
  <2>1. \A k \in S : ~(k <= 0)
    BY <1>1
  <2>2. <<>> \in Seq(Entry) /\ Len(<<>>) = 0
    OBVIOUS
  <2>. DEFINE q == <<>>
  <2>3. q \in Seq(Entry) /\ Len(q) = 0 /\ 1 .. Len(q) = {}
    BY <2>2
  <2>. HIDE DEF q
  <2>4. Good(q, 0)
    BY <2>1, <2>3
  <2>. HIDE DEF Good
  <2>. QED  BY <1>1, <1>10, <2>4 DEF q
<1>12. ASSUME NEW m \in 0 .. n - 1, m \in G PROVE m + 1 \in G
  <2>. DEFINE s == add[m]
  <2>1. Good(s, m) /\ m + 1 \in 0 .. n /\ m + 1 \in Functions
    <3>. HIDE DEF Good
    <3>. QED  BY <1>1, <1>12
  <2>2. add[m + 1] = IF m + 1 \in S THEN Append(s, <<m + 1, h>>) ELSE s
    BY <1>10 DEF Next1
  <2>. HIDE DEF s
  <2>3. \A k \in S : k <= m + 1 => k <= m \/ k = m + 1
    BY <1>1
  <2>4. CASE m + 1 \notin S
    BY <2>1, <2>2, <2>3, <2>4
  <2>5. CASE m + 1 \in S
    <3>. DEFINE x == <<m + 1, h>>
                q == Append(s, x)
    <3>1. x \in Entry /\ x[1] \in S /\ x[2] = h
      BY <2>1, <2>5 DEF Entry
    <3>2. Len(s) \in Nat
      BY <2>1
    <3>. HIDE DEF x
    <3>3. /\ q \in Seq(Entry) /\ Len(q) = Len(s) + 1 /\ q[Len(s) + 1] = x
          /\ \A i \in 1 .. Len(s) : q[i] = s[i]
      BY <2>1, <3>1, AppendInSeq
    <3>. HIDE DEF q
    <3>4. \A i \in 1 .. Len(q) : i \in 1 .. Len(s) \/ i = Len(s) + 1
      BY <3>2, <3>3
    <3>5. \A i \in 1 .. Len(q) : q[i][1] \in S /\ q[i][2] = h
      BY <2>1, <3>1, <3>3, <3>4
    <3>6. ASSUME NEW k \in S, k <= m + 1 PROVE \E i \in 1 .. Len(q) : q[i] = <<k, h>>
      <4>1. CASE k <= m
        <5>1. PICK i \in 1 .. Len(s) : s[i] = <<k, h>>
          BY <2>1, <4>1
        <5>2. i \in 1 .. Len(q)
          BY <3>2, <3>3
        <5>. QED  BY <3>3, <5>1, <5>2
      <4>2. CASE k = m + 1
        <5>1. Len(s) + 1 \in 1 .. Len(q)
          BY <3>2, <3>3
        <5>. QED  BY <3>3, <4>2, <5>1 DEF x
      <4>. QED  BY <2>3, <3>6, <4>1, <4>2
    <3>7. Good(q, m + 1)
      BY <3>3, <3>5, <3>6
    <3>8. add[m + 1] = q
      BY <2>2, <2>5 DEF q, x
    <3>. HIDE DEF Good
    <3>. QED  BY <2>1, <3>7, <3>8
  <2>. QED  BY <2>4, <2>5
<1>13. 0 .. n \subseteq G
  <2>. HIDE DEF G
  <2>. QED  BY <1>1, <1>11, <1>12, IntervalInduction
<1>14. Good(add[n], n)
  <2>. HIDE DEF Good
  <2>. QED  BY <1>1, <1>13
<1>15. \A k \in S : k <= n
  BY <1>1
<1>. QED  BY <1>2, <1>14, <1>15

(* A search under way: map has the hops of what was found from E by R, V   *)
(* is what was seen, Q what is still to follow.  The queue is in the order *)
(* of the hops, nobody seen is more than a hop further than its head, and  *)
(* who has left it has all it leads to among the seen, a hop further at    *)
(* most.                                                                   *)
At(E, map, v) == IF v \in E THEN 0 ELSE map[v]

Open(E, R, map, V, Q) ==
    /\ E \subseteq V /\ V \subseteq Functions /\ V \ E \subseteq DOMAIN map
    /\ \A v \in V : At(E, map, v) \in 0 .. MaxHops
    /\ Q \in Seq(Entry)
    /\ \A i \in 1 .. Len(Q) : Q[i][1] \in V /\ Q[i][2] = At(E, map, Q[i][1])
    /\ \A i, j \in 1 .. Len(Q) : i <= j => Q[i][2] <= Q[j][2]
    /\ \A v \in V : \A i \in 1 .. Len(Q) : i = 1 => At(E, map, v) <= Q[i][2] + 1
    /\ \A v \in V :
         \/ \E i \in 1 .. Len(Q) : Q[i][1] = v
         \/ At(E, map, v) = MaxHops
         \/ R[v] \subseteq V /\ \A w \in R[v] : At(E, map, w) <= At(E, map, v) + 1

LEMMA OpenStart ==
    ASSUME file \in Files, NEW E \in SUBSET Functions, NEW R, NEW map
    PROVE  Open(E, R, map, E, Enqueue(E, 0))
<1>. DEFINE Q == Enqueue(E, 0)
<1>1. /\ Q \in Seq(Entry) /\ \A i \in 1 .. Len(Q) : Q[i][1] \in E /\ Q[i][2] = 0
      /\ \A k \in E : \E i \in 1 .. Len(Q) : Q[i] = <<k, 0>>
  BY EnqueueFacts
<1>2. \A v \in E : At(E, map, v) = 0
  BY DEF At
<1>3. ASSUME NEW k \in E PROVE \E i \in 1 .. Len(Q) : Q[i][1] = k
  <2>. HIDE DEF Q
  <2>1. PICK i \in 1 .. Len(Q) : Q[i] = <<k, 0>>
    BY <1>1
  <2>. QED  BY <2>1
<1>. HIDE DEF Q
<1>4. Open(E, R, map, E, Q)
  BY <1>1, <1>2, <1>3 DEF Open, MaxHops
<1>. QED  BY <1>4 DEF Q

(* Only what was found counts. *)
LEMMA OpenSame ==
    ASSUME NEW E, NEW R, NEW map, NEW map2, NEW V, NEW Q, Open(E, R, map, V, Q),
           \A v \in V \ E : v \in DOMAIN map2 /\ map2[v] = map[v]
    PROVE  Open(E, R, map2, V, Q)
<1>1. \A v \in V : At(E, map2, v) = At(E, map, v)
  BY DEF At
<1>2. V \ E \subseteq DOMAIN map2
  OBVIOUS
<1>3. \A v \in V : R[v] \subseteq V => \A w \in R[v] : At(E, map2, w) = At(E, map, w)
  BY <1>1
<1>. QED  BY <1>1, <1>2, <1>3 DEF Open

LEMMA OpenStep ==
    ASSUME file \in Files, NEW E, NEW R, \A v \in Functions : R[v] \subseteq Functions, NEW map,
           Open(E, R, map, visited, queue), queue # <<>>,
           NEW d, d = Discover(R[Head(queue)[1]])
    PROVE  /\ Open(E, R, Extend(map, d), visited \cup d.found, Tail(queue) \o Enqueue(d.found, d.hops))
           /\ d.found \subseteq R[Head(queue)[1]] /\ Head(queue)[1] \in visited
           /\ d.found # {} => /\ d.hops = At(E, map, Head(queue)[1]) + 1
                              /\ At(E, map, Head(queue)[1]) \in 0 .. MaxHops - 1
           /\ d.hops \in Nat
<1>. DEFINE Q == queue
            V == visited
            h == Head(queue)[2]
            u == Head(queue)[1]
            found == d.found
            new == Enqueue(d.found, d.hops)
            W == V \cup found
            map2 == Extend(map, d)
            Q2 == Tail(queue) \o new
<1>1. /\ Q \in Seq(Entry) /\ Q # <<>> /\ E \subseteq V /\ V \subseteq Functions /\ V \ E \subseteq DOMAIN map
      /\ \A v \in V : At(E, map, v) \in 0 .. MaxHops
      /\ \A i \in 1 .. Len(Q) : Q[i][1] \in V /\ Q[i][2] = At(E, map, Q[i][1])
      /\ \A i, j \in 1 .. Len(Q) : i <= j => Q[i][2] <= Q[j][2]
      /\ \A v \in V : \A i \in 1 .. Len(Q) : i = 1 => At(E, map, v) <= Q[i][2] + 1
  BY DEF Open
<1>2. Head(Q) = Q[1] /\ Len(Q) \in Nat /\ 1 \in 1 .. Len(Q)
  <2>1. Head(Q) = Q[1] /\ Len(Q) > 0 /\ Len(Q) \in Nat
    BY <1>1, TailInSeq
  <2>. QED  BY <2>1
<1>3. u \in V /\ h = At(E, map, u) /\ h \in 0 .. MaxHops /\ \A v \in V : At(E, map, v) <= h + 1
  BY <1>1, <1>2
<1>4. /\ h >= MaxHops => found = {} /\ d.hops = h
      /\ h < MaxHops => found = R[u] \ V /\ d.hops = h + 1
  BY <1>3 DEF Discover, MaxHops
<1>5. found \in SUBSET Functions /\ found \subseteq R[u] /\ found \cap V = {} /\ d.hops \in Nat /\ d.hops <= h + 1
      /\ d.hops \in 0 .. MaxHops
  BY <1>1, <1>3, <1>4 DEF MaxHops
<1>6. /\ new \in Seq(Entry) /\ \A i \in 1 .. Len(new) : new[i][1] \in found /\ new[i][2] = d.hops
      /\ \A k \in found : \E i \in 1 .. Len(new) : new[i] = <<k, d.hops>>
  BY <1>5, EnqueueFacts
<1>7. /\ Tail(Q) \in Seq(Entry) /\ Len(Tail(Q)) = Len(Q) - 1 /\ \A i \in 1 .. Len(Tail(Q)) : Tail(Q)[i] = Q[i + 1]
  BY <1>1, TailInSeq
<1>. HIDE DEF new
<1>8. /\ Q2 \in Seq(Entry) /\ Len(Q2) = Len(Tail(Q)) + Len(new) /\ Len(new) \in Nat
      /\ \A i \in 1 .. Len(Tail(Q)) : Q2[i] = Tail(Q)[i]
      /\ \A i \in 1 .. Len(new) : Q2[Len(Tail(Q)) + i] = new[i]
      /\ \A i \in 1 .. Len(Q2) : i \in 1 .. Len(Tail(Q)) \/ i - Len(Tail(Q)) \in 1 .. Len(new)
  BY <1>6, <1>7, ConcatFacts
<1>9. /\ DOMAIN map2 = DOMAIN map \cup found
      /\ \A v \in found : map2[v] = d.hops
      /\ \A v \in DOMAIN map \ found : map2[v] = map[v]
  BY DEF Extend
<1>10. /\ \A v \in V : At(E, map2, v) = At(E, map, v)
       /\ \A v \in found : At(E, map2, v) = d.hops
  BY <1>1, <1>5, <1>9 DEF At
<1>. HIDE DEF Q2, Q, map2, V, h, u, found
<1>11. \A i \in 1 .. Len(Q2) : \/ i + 1 \in 1 .. Len(Q) /\ Q2[i] = Q[i + 1] /\ i < Len(Q)
                               \/ i >= Len(Q) /\ Q2[i][1] \in found /\ Q2[i][2] = d.hops
  <2>. TAKE i \in 1 .. Len(Q2)
  <2>1. CASE i \in 1 .. Len(Tail(Q))
    BY <1>2, <1>7, <1>8, <2>1
  <2>2. CASE i - Len(Tail(Q)) \in 1 .. Len(new)
    <3>. DEFINE k == i - Len(Tail(Q))
    <3>1. k \in 1 .. Len(new) /\ i = Len(Tail(Q)) + k /\ i >= Len(Q)
      BY <1>2, <1>7, <2>2
    <3>. HIDE DEF k
    <3>2. Q2[i] = new[k]
      BY <1>8, <3>1
    <3>. QED  BY <1>6, <3>1, <3>2
  <2>. QED  BY <1>8, <2>1, <2>2
<1>12. /\ \A i \in 2 .. Len(Q) : \E j \in 1 .. Len(Q2) : Q2[j] = Q[i]
       /\ \A k \in found : \E j \in 1 .. Len(Q2) : Q2[j][1] = k
  <2>1. ASSUME NEW i \in 2 .. Len(Q) PROVE \E j \in 1 .. Len(Q2) : Q2[j] = Q[i]
    <3>1. i - 1 \in 1 .. Len(Tail(Q)) /\ i - 1 \in 1 .. Len(Q2) /\ (i - 1) + 1 = i
      BY <1>2, <1>7, <1>8
    <3>2. Q2[i - 1] = Q[i]
      BY <1>7, <1>8, <3>1
    <3>. QED  BY <3>1, <3>2
  <2>2. ASSUME NEW k \in found PROVE \E j \in 1 .. Len(Q2) : Q2[j][1] = k
    <3>1. PICK i \in 1 .. Len(new) : new[i] = <<k, d.hops>>
      BY <1>6
    <3>2. Len(Tail(Q)) + i \in 1 .. Len(Q2) /\ Q2[Len(Tail(Q)) + i] = new[i]
      BY <1>2, <1>7, <1>8
    <3>3. new[i][1] = k
      BY <3>1
    <3>. QED  BY <3>2, <3>3
  <2>. QED  BY <2>1, <2>2
<1>13. E \subseteq W /\ W \subseteq Functions /\ W \ E \subseteq DOMAIN map2
  BY <1>1, <1>5, <1>9
<1>14. \A v \in W : At(E, map2, v) \in 0 .. MaxHops
  BY <1>1, <1>5, <1>10
<1>15. \A i \in 1 .. Len(Q2) : Q2[i][1] \in W /\ Q2[i][2] = At(E, map2, Q2[i][1])
  BY <1>1, <1>10, <1>11
<1>16. \A i \in 1 .. Len(Q) : h <= Q[i][2] /\ Q[i][2] <= h + 1 /\ Q[i][2] \in Nat
  <2>. TAKE i \in 1 .. Len(Q)
  <2>1. 1 <= i /\ Q[1][2] = h
    BY <1>2 DEF h, Q
  <2>2. Q[i][2] = At(E, map, Q[i][1]) /\ Q[i][1] \in V
    BY <1>1
  <2>3. Q[1][2] <= Q[i][2]
    BY <1>1, <1>2, <2>1
  <2>4. At(E, map, Q[i][1]) \in 0 .. MaxHops /\ At(E, map, Q[i][1]) <= h + 1
    BY <1>1, <1>3, <2>2
  <2>. QED  BY <2>1, <2>2, <2>3, <2>4 DEF MaxHops
<1>17. found # {} => d.hops = h + 1
  BY <1>3, <1>4 DEF MaxHops
<1>18. \A i, j \in 1 .. Len(Q2) : i <= j => Q2[i][2] <= Q2[j][2]
  <2>. SUFFICES ASSUME NEW i \in 1 .. Len(Q2), NEW j \in 1 .. Len(Q2), i <= j PROVE Q2[i][2] <= Q2[j][2]
    OBVIOUS
  <2>0. h \in Nat /\ d.hops \in Nat
    BY <1>3, <1>5 DEF MaxHops
  <2>1. CASE i < Len(Q) /\ j < Len(Q)
    <3>1. i + 1 \in 1 .. Len(Q) /\ j + 1 \in 1 .. Len(Q) /\ i + 1 <= j + 1 /\ Q2[i] = Q[i + 1] /\ Q2[j] = Q[j + 1]
      BY <1>2, <1>11, <2>1
    <3>. QED  BY <1>1, <3>1
  <2>2. CASE i < Len(Q) /\ j >= Len(Q)
    <3>1. i + 1 \in 1 .. Len(Q) /\ Q2[i] = Q[i + 1]
      BY <1>2, <1>11, <2>2
    <3>2. Q2[j][1] \in found /\ Q2[j][2] = d.hops
      BY <1>2, <1>11, <2>2
    <3>3. Q[i + 1][2] <= h + 1
      BY <1>16, <3>1
    <3>. QED  BY <1>17, <3>1, <3>2, <3>3
  <2>3. CASE i >= Len(Q)
    <3>1. Q2[i][2] = d.hops /\ Q2[j][2] = d.hops
      BY <1>2, <1>11, <2>3
    <3>. QED  BY <2>0, <3>1
  <2>. QED  BY <1>2, <2>1, <2>2, <2>3
<1>19. ASSUME NEW v \in W, NEW i \in 1 .. Len(Q2), i = 1 PROVE At(E, map2, v) <= Q2[i][2] + 1
  <2>0. h \in Nat
    BY <1>3 DEF MaxHops
  <2>1. Q2[i][2] \in Nat /\ Q2[i][2] >= h
    <3>1. CASE i + 1 \in 1 .. Len(Q) /\ Q2[i] = Q[i + 1]
      BY <1>16, <3>1
    <3>2. CASE Q2[i][1] \in found /\ Q2[i][2] = d.hops
      BY <1>17, <2>0, <3>2
    <3>. QED  BY <1>11, <3>1, <3>2
  <2>2. At(E, map2, v) <= h + 1 /\ At(E, map2, v) \in Nat
    <3>1. v \in V => At(E, map2, v) = At(E, map, v) /\ At(E, map, v) <= h + 1
      BY <1>3, <1>10
    <3>2. v \in found => At(E, map2, v) = d.hops /\ d.hops <= h + 1
      BY <1>5, <1>10
    <3>3. At(E, map2, v) \in 0 .. MaxHops
      BY <1>14
    <3>. QED  BY <3>1, <3>2, <3>3 DEF MaxHops
  <2>. QED  BY <2>0, <2>1, <2>2
<1>20. ASSUME NEW v \in W
       PROVE  \/ \E i \in 1 .. Len(Q2) : Q2[i][1] = v
              \/ At(E, map2, v) = MaxHops
              \/ R[v] \subseteq W /\ \A w \in R[v] : At(E, map2, w) <= At(E, map2, v) + 1
  <2>1. CASE v \in found
    BY <1>12, <2>1
  <2>2. CASE v \notin found
    <3>0. v \in V
      BY <2>2
    <3>1. \/ \E i \in 1 .. Len(Q) : Q[i][1] = v
          \/ At(E, map, v) = MaxHops
          \/ R[v] \subseteq V /\ \A w \in R[v] : At(E, map, w) <= At(E, map, v) + 1
      BY <3>0 DEF Open, Q, V
    <3>2. CASE At(E, map, v) = MaxHops
      BY <1>10, <3>0, <3>2
    <3>3. CASE R[v] \subseteq V /\ \A w \in R[v] : At(E, map, w) <= At(E, map, v) + 1
      BY <1>10, <3>0, <3>3
    <3>4. CASE \E i \in 1 .. Len(Q) : Q[i][1] = v
      <4>1. PICK i \in 1 .. Len(Q) : Q[i][1] = v
        BY <3>4
      <4>2. CASE i # 1
        <5>1. i \in 2 .. Len(Q)
          BY <1>2, <4>2
        <5>. QED  BY <1>12, <4>1, <5>1
      <4>3. CASE i = 1
        <5>1. v = u
          BY <1>2, <4>1, <4>3 DEF u, Q
        <5>2. CASE h >= MaxHops
          <6>1. At(E, map, v) = h /\ h = MaxHops
            BY <1>3, <5>1, <5>2 DEF MaxHops
          <6>. QED  BY <1>10, <3>0, <6>1
        <5>3. CASE h < MaxHops
          <6>1. found = R[v] \ V /\ d.hops = h + 1
            BY <1>4, <5>1, <5>3
          <6>2. R[v] \subseteq W
            BY <6>1
          <6>3. At(E, map2, v) = h
            BY <1>3, <1>10, <5>1
          <6>4. \A w \in R[v] : At(E, map2, w) <= h + 1
            <7>1. \A w \in V : At(E, map2, w) <= h + 1
              BY <1>3, <1>10
            <7>2. \A w \in found : At(E, map2, w) <= h + 1
              BY <1>3, <1>10, <6>1 DEF MaxHops
            <7>. QED  BY <6>2, <7>1, <7>2
          <6>. QED  BY <6>2, <6>3, <6>4
        <5>. QED  BY <1>3, <5>2, <5>3 DEF MaxHops
      <4>. QED  BY <4>2, <4>3
    <3>. QED  BY <3>1, <3>2, <3>3, <3>4
  <2>. QED  BY <2>1, <2>2
<1>21. Open(E, R, map2, W, Q2)
  BY <1>8, <1>13, <1>14, <1>15, <1>18, <1>19, <1>20 DEF Open
<1>22. found # {} => d.hops = At(E, map, u) + 1 /\ At(E, map, u) \in 0 .. MaxHops - 1
  BY <1>3, <1>4 DEF MaxHops
<1>. QED  BY <1>3, <1>5, <1>21, <1>22 DEF W, Q2, map2, found, V, Q, new, u

-----------------------------------------------------------------------------
(* What runs within some number of calls.                                  *)

LEMMA RunsFacts ==
    ASSUME file \in Files
    PROVE  /\ \A i \in Functions : Registered(i) => i \in RunsWithin(0)
           /\ \A k \in 0 .. MaxDepth : \A v \in RunsWithin(k) : v \in Functions => Family(v) \subseteq RunsWithin(k)
           /\ \A k \in 0 .. MaxDepth - 1 : \A v \in RunsWithin(k) : \A c \in Fn(v).calls :
                Target(v, c) # 0 => Target(v, c) \in RunsWithin(k + 1)
<1>. DEFINE open(S) == S \cup UNION {Nested(i) : i \in S}
            own == open({i \in Functions : Registered(i)})
            More(S) == S \cup open((UNION {{Target(i, c) : c \in Fn(i).calls} : i \in S}) \ {0})
            Step(f, n) == IF n = 0 THEN own ELSE More(f[n - 1])
            ran == CHOOSE f : f = [n \in 0 .. MaxDepth |-> Step(f, n)]
<1>1. \A k : RunsWithin(k) = ran[k]
  BY DEF RunsWithin
<1>. HIDE DEF own, More
<1>2. ran = [n \in 0 .. MaxDepth |-> Step(ran, n)]
  <2>. DEFINE s1 == More(own)
              s2 == More(s1)
              s3 == More(s2)
              s4 == More(s3)
              f == [n \in 0 .. 4 |-> IF n = 0 THEN own ELSE IF n = 1 THEN s1 ELSE IF n = 2 THEN s2
                                     ELSE IF n = 3 THEN s3 ELSE s4]
  <2>1. f[0] = own /\ f[1] = s1 /\ f[2] = s2 /\ f[3] = s3 /\ f[4] = s4
    BY DEF s1, s2, s3, s4
  <2>2. More(f[0]) = s1 /\ More(f[1]) = s2 /\ More(f[2]) = s3 /\ More(f[3]) = s4
    BY <2>1
  <2>3. DOMAIN f = 0 .. 4 /\ f = [n \in 0 .. 4 |-> f[n]]
    OBVIOUS
  <2>. HIDE DEF f, s1, s2, s3, s4
  <2>4. ASSUME NEW n \in 0 .. 4 PROVE f[n] = Step(f, n)
    <3>1. n = 0 \/ n = 1 \/ n = 2 \/ n = 3 \/ n = 4
      OBVIOUS
    <3>. QED  BY <2>1, <2>2, <3>1
  <2>5. f = [n \in 0 .. MaxDepth |-> Step(f, n)]
    <3>. HIDE DEF Step
    <3>. QED  BY <2>3, <2>4 DEF MaxDepth
  <2>. HIDE DEF Step
  <2>. QED  BY <2>5
<1>3. \A n \in 0 .. MaxDepth : ran[n] = Step(ran, n)
  <2>. HIDE DEF Step, ran
  <2>. QED  BY <1>2
<1>. HIDE DEF ran
<1>4. ran[0] = own /\ \A k \in 0 .. MaxDepth - 1 : ran[k + 1] = More(ran[k])
  <2>1. 0 \in 0 .. MaxDepth /\ \A k \in 0 .. MaxDepth - 1 : k + 1 \in 0 .. MaxDepth /\ k + 1 # 0 /\ (k + 1) - 1 = k
    BY DEF MaxDepth
  <2>. QED  BY <1>3, <2>1
<1>5. ASSUME NEW S, NEW v \in open(S), v \in Functions PROVE Family(v) \subseteq open(S)
  <2>1. CASE v \in S
    BY <2>1 DEF Family
  <2>2. CASE \E j \in S : v \in Nested(j)
    <3>1. PICK j \in S : v \in Nested(j)
      BY <2>2
    <3>2. v \in Functions /\ j \in Functions /\ v \in Family(j)
      BY <3>1, EnclosingFacts DEF Nested, Family
    <3>3. Family(v) \subseteq Family(j)
      BY <3>2, FamilyFacts
    <3>. QED  BY <3>3 DEF Family
  <2>. QED  BY <2>1, <2>2
<1>. DEFINE K == {k \in 0 .. MaxDepth : \A v \in ran[k] : v \in Functions => Family(v) \subseteq ran[k]}
<1>6. 0 \in K
  <2>1. own = open({i \in Functions : Registered(i)})
    BY DEF own
  <2>. HIDE DEF open
  <2>2. \A v \in own : v \in Functions => Family(v) \subseteq own
    BY <1>5, <2>1
  <2>. QED  BY <1>4, <2>2 DEF MaxDepth
<1>7. ASSUME NEW k \in 0 .. MaxDepth - 1, k \in K PROVE k + 1 \in K
  <2>. DEFINE called == (UNION {{Target(i, c) : c \in Fn(i).calls} : i \in ran[k]}) \ {0}
  <2>1. ran[k + 1] = ran[k] \cup open(called)
    BY <1>4 DEF More
  <2>2. k + 1 \in 0 .. MaxDepth
    BY DEF MaxDepth
  <2>. HIDE DEF open, called
  <2>3. \A v \in ran[k + 1] : v \in Functions => Family(v) \subseteq ran[k + 1]
    BY <1>5, <1>7, <2>1
  <2>. QED  BY <2>2, <2>3
<1>8. 0 .. MaxDepth \subseteq K
  <2>. HIDE DEF K
  <2>1. MaxDepth \in Nat
    BY DEF MaxDepth
  <2>. QED  BY <1>6, <1>7, <2>1, IntervalInduction
<1>9. \A i \in Functions : Registered(i) => i \in ran[0]
  BY <1>4 DEF own
<1>10. ASSUME NEW k \in 0 .. MaxDepth - 1, NEW v \in ran[k], NEW c \in Fn(v).calls, Target(v, c) # 0
       PROVE  Target(v, c) \in ran[k + 1]
  <2>1. Target(v, c) \in (UNION {{Target(i, x) : x \in Fn(i).calls} : i \in ran[k]}) \ {0}
    BY <1>10
  <2>. QED  BY <1>4, <2>1 DEF More
<1>. QED  BY <1>1, <1>8, <1>9, <1>10

-----------------------------------------------------------------------------
(* What the searches follow, and what the calls get to.                    *)
LEMMA CallsInFacts ==
    ASSUME NEW i, NEW c
    PROVE  c \in CallsIn(i) <=> \E k \in Family(i) : c \in Fn(k).calls
BY DEF CallsIn, Family

LEMMA CallersFacts ==
    ASSUME file \in Files, NEW c \in Classes, NEW u \in Callers(c)
    PROVE  /\ u \in Functions /\ \A k \in Family(u) : k \in Functions /\ SelfClass(k) = c
           /\ Fn(u).outer = 0 => u \in MethodMap(c)
<1>1. PICK m \in MethodMap(c) : u \in Family(m)
  BY DEF Callers, Family
<1>2. m \in Functions /\ Fn(m).class = c /\ Fn(m).outer = 0
  <2>1. m \in Functions /\ Fn(m).class = c /\ c # 0
    BY ClassesFacts DEF MethodMap, Methods
  <2>2. Fn(m).class = 0 \/ Fn(m).outer = 0
    BY <2>1, FileFacts, Zenon
  <2>. QED  BY <2>1, <2>2
<1>3. u \in Functions /\ Outermost(u) = m
  BY <1>1, <1>2, FamilyFacts
<1>4. \A k \in Family(u) : k \in Functions /\ Outermost(k) = m
  BY <1>3, FamilyFacts
<1>5. Fn(u).outer = 0 => u = m
  BY <1>3, FamilyFacts
<1>. QED  BY <1>1, <1>2, <1>3, <1>4, <1>5 DEF SelfClass

LEMMA MapFacts ==
    ASSUME file \in Files
    PROVE  /\ \A c \in Classes : MethodMap(c) \subseteq Callers(c) /\ EntryPoints(c) \subseteq Callers(c)
           /\ \A c \in Classes : \A m \in Methods(c) : m \in Functions /\ Fn(m).class = c /\ Fn(m).outer = 0
           /\ \A c \in Classes : MethodMap(c) \subseteq Methods(c)
           /\ \A c \in Classes : \A i : MethodsCalled(c, i) \subseteq MethodMap(c)
           /\ \A i \in TopLevelMap : i \in TopLevel /\ i \in Functions /\ Fn(i).class = 0 /\ Fn(i).outer = 0
           /\ \A i : \A t \in LocalsCalled(i) : t \in Functions /\ Fn(t).outer = 0
<1>1. \A c \in Classes : \A m \in Methods(c) : m \in Functions /\ Fn(m).class = c /\ Fn(m).outer = 0
  <2>1. \A k \in Functions : Fn(k).class = 0 \/ Fn(k).outer = 0
    BY FileFacts, Zenon
  <2>. QED  BY <2>1, ClassesFacts DEF Methods
<1>2. \A c : MethodMap(c) \subseteq Methods(c) /\ \A i : MethodsCalled(c, i) \subseteq MethodMap(c)
  BY DEF MethodMap, MethodsCalled
<1>3. \A i \in TopLevelMap : i \in TopLevel /\ i \in Functions /\ Fn(i).class = 0 /\ Fn(i).outer = 0
  BY DEF TopLevelMap, TopLevel
<1>4. ASSUME NEW i, NEW t \in LocalsCalled(i) PROVE t \in Functions /\ Fn(t).outer = 0
  <2>1. CASE t \in TopLevelMap
    BY <1>3, <2>1
  <2>2. CASE t \notin TopLevelMap
    <3>1. PICK c, call : t = (IF c = 0 THEN 0 ELSE First(Named(Methods(c), call.name))) /\ t # 0
                         /\ c = First({d \in Classes : ClassOf(d).name = call.of})
      BY <2>2 DEF LocalsCalled
    <3>. DEFINE S == {d \in Classes : ClassOf(d).name = call.of}
                M == Named(Methods(c), call.name)
    <3>2. c # 0 /\ t = First(M)
      BY <3>1
    <3>3. S \in SUBSET Nat /\ c = First(S)
      BY <3>1, ClassesFacts
    <3>4. S # {} => First(S) \in S
      <4>. HIDE DEF S
      <4>. QED  BY <3>3, FirstFacts
    <3>5. First({}) = 0
      BY DEF First
    <3>6. c \in Classes
      BY <3>2, <3>3, <3>4, <3>5
    <3>7. M \in SUBSET Functions /\ Functions \in SUBSET Nat /\ M \subseteq Methods(c)
      BY OuterFacts DEF Named, Methods
    <3>8. M # {} => First(M) \in M
      <4>. HIDE DEF M
      <4>. QED  BY <3>7, FirstFacts
    <3>9. t \in M
      BY <3>1, <3>2, <3>5, <3>8
    <3>. QED  BY <1>1, <3>6, <3>7, <3>9
  <2>. QED  BY <2>1, <2>2
<1>. QED  BY <1>1, <1>2, <1>3, <1>4 DEF Callers, EntryPoints

(* A method the search finds is called.                                    *)
LEMMA MethodIsCalled ==
    ASSUME file \in Files, Plain, NEW c \in Classes, NEW u \in Callers(c), NEW w \in MethodsCalled(c, u)
    PROVE  \E k \in Family(u) : \E call \in Fn(k).calls : Target(k, call) = w /\ k \in Functions
<1>1. PICK call \in CallsIn(u) : /\ call.name = Fn(w).name
                                 /\ \/ call.how \in {"self", "executor"}
                                    \/ call.how = "class" /\ call.of = ClassOf(c).name
  BY DEF MethodsCalled
<1>2. PICK k \in Family(u) : call \in Fn(k).calls
  BY <1>1, CallsInFacts
<1>3. SelfClass(k) = c /\ k \in Functions /\ c # 0
  BY <1>2, CallersFacts, ClassesFacts
<1>4. w \in Methods(c) /\ w \in Nat
  BY MapFacts, OuterFacts
<1>5. Named(Methods(c), Fn(w).name) = {w}
  BY <1>4, PlainNames
<1>6. MethodOf(c, Fn(w).name) = w
  <2>1. Named(Methods(c), Fn(w).name) # {}
    BY <1>5
  <2>2. MethodOf(c, Fn(w).name) = Last(Named(Methods(c), Fn(w).name))
    BY <2>1, MethodFacts
  <2>. QED  BY <1>4, <1>5, <2>2, OnlyOne
<1>7. call.how = "class" => ClassNamed(call.of) = c
  BY <1>1, PlainNames
<1>8. Target(k, call) = w
  BY <1>1, <1>3, <1>6, <1>7 DEF Target
<1>. QED  BY <1>2, <1>3, <1>8

(* And a call the scanner says it follows finds a method.                  *)
LEMMA CalledIsMethod ==
    ASSUME file \in Files, Plain, NEW c \in Classes, NEW i \in Functions, SelfClass(i) = c,
           NEW call \in Fn(i).calls, NEW t, t = Target(i, call), t # 0, Way(i, call) = "method",
           NEW v \in Functions, i \in Family(v)
    PROVE  t \in MethodsCalled(c, v) /\ t \in Functions /\ Fn(t).outer = 0
<1>1. t \in Functions /\ Fn(t).name = call.name
  BY TargetFacts
<1>2. /\ Fn(t).outer = 0 /\ Fn(t).class = c
      /\ call.how \in {"self", "executor"} \/ (call.how = "class" /\ ClassNamed(call.of) = c)
  BY DEF Way
<1>3. t \in Methods(c)
  BY <1>1, <1>2 DEF Methods
<1>4. t \in MethodMap(c)
  BY <1>3, PlainNames
<1>5. c # 0 /\ (ClassNamed(call.of) = c => ClassOf(c).name = call.of)
  BY ClassNamedFacts, ClassesFacts
<1>6. call \in CallsIn(v)
  BY CallsInFacts
<1>. QED  BY <1>1, <1>2, <1>4, <1>5, <1>6 DEF MethodsCalled

LEMMA LocalIsCalled ==
    ASSUME file \in Files, Plain, NEW u \in Functions, NEW w \in LocalsCalled(u)
    PROVE  \E k \in Family(u) : \E call \in Fn(k).calls : Target(k, call) = w /\ k \in Functions
<1>1. CASE w \in TopLevelMap /\ \E call \in CallsIn(u) : call.how = "bare" /\ call.name = Fn(w).name
  <2>1. PICK call \in CallsIn(u) : call.how = "bare" /\ call.name = Fn(w).name
    BY <1>1
  <2>2. PICK k \in Family(u) : call \in Fn(k).calls
    BY <2>1, CallsInFacts
  <2>3. k \in Functions
    BY <2>2, FamilyFacts
  <2>4. w \in TopLevel /\ w \in Functions /\ Fn(w).class = 0 /\ Fn(w).outer = 0 /\ w \in Nat
    BY <1>1, MapFacts, OuterFacts
  <2>5. Named({j \in Functions : Fn(j).outer \in Enclosing(k)}, call.name) = {}
    <3>1. SUFFICES ASSUME NEW j \in Functions, Fn(j).outer \in Enclosing(k), Fn(j).name = Fn(w).name PROVE FALSE
      BY <2>1 DEF Named
    <3>2. Fn(j).outer # 0
      BY <2>3, <3>1, EnclosingFacts, OuterFacts
    <3>3. Fn(j).class = 0
      BY <3>2, FileFacts, Zenon
    <3>. QED  BY <2>4, <3>1, <3>2, <3>3 DEF Plain
  <2>6. Named(TopLevel, call.name) = {w}
    BY <2>1, <2>4, PlainNames
  <2>7. Target(k, call) = w
    BY <2>1, <2>4, <2>5, <2>6, OnlyOne DEF Target, BareTarget
  <2>. QED  BY <2>2, <2>3, <2>7
<1>2. CASE \E call \in {x \in CallsIn(u) : x.how = "var"} :
             w = (IF First({d \in Classes : ClassOf(d).name = call.of}) = 0 THEN 0
                  ELSE First(Named(Methods(First({d \in Classes : ClassOf(d).name = call.of})), call.name)))
             /\ w # 0
  <2>1. PICK call \in CallsIn(u) :
          /\ call.how = "var" /\ w # 0
          /\ w = (IF First({d \in Classes : ClassOf(d).name = call.of}) = 0 THEN 0
                  ELSE First(Named(Methods(First({d \in Classes : ClassOf(d).name = call.of})), call.name)))
    BY <1>2
  <2>2. PICK k \in Family(u) : call \in Fn(k).calls
    BY <2>1, CallsInFacts
  <2>3. k \in Functions
    BY <2>2, FamilyFacts
  <2>. DEFINE S == {d \in Classes : ClassOf(d).name = call.of}
              c == First(S)
              M == Named(Methods(c), call.name)
  <2>4. c # 0 /\ w = First(M)
    BY <2>1
  <2>5. S \in SUBSET Nat
    BY ClassesFacts
  <2>6. S # {} => First(S) \in S
    <3>. HIDE DEF S
    <3>. QED  BY <2>5, FirstFacts
  <2>7. First({}) = 0
    BY DEF First
  <2>8. c \in Classes /\ ClassOf(c).name = call.of
    BY <2>4, <2>6, <2>7
  <2>. HIDE DEF c, S
  <2>9. M \in SUBSET Functions /\ Functions \in SUBSET Nat
    BY OuterFacts DEF Named, Methods
  <2>10. M # {} => First(M) \in M
    <3>. HIDE DEF M
    <3>. QED  BY <2>9, FirstFacts
  <2>11. w \in M /\ w \in Methods(c) /\ w \in Nat /\ Fn(w).name = call.name
    <3>1. w \in M
      BY <2>1, <2>4, <2>7, <2>10
    <3>. QED  BY <2>9, <3>1 DEF Named
  <2>12. M = {w}
    BY <2>8, <2>11, PlainNames
  <2>13. MethodOf(c, call.name) = w
    BY <2>8, <2>11, <2>12, MethodFacts, OnlyOne
  <2>14. ClassNamed(call.of) = c
    BY <2>8, PlainNames
  <2>15. Target(k, call) = w
    BY <2>1, <2>4, <2>13, <2>14 DEF Target
  <2>. QED  BY <2>2, <2>3, <2>15
<1>. QED  BY <1>1, <1>2 DEF LocalsCalled

LEMMA CalledIsLocal ==
    ASSUME file \in Files, Plain, NEW i \in Functions,
           NEW call \in Fn(i).calls, NEW t, t = Target(i, call), t # 0, Way(i, call) = "local",
           NEW v \in Functions, i \in Family(v)
    PROVE  t \in LocalsCalled(v) /\ t \in Functions /\ Fn(t).outer = 0
<1>1. t \in Functions /\ Fn(t).name = call.name /\ t \in Nat
  BY TargetFacts, OuterFacts
<1>2. /\ Fn(t).outer = 0
      /\ call.how = "bare" \/ (call.how = "var" /\ Fn(t).class = ClassNamed(call.of))
  BY DEF Way
<1>3. call \in CallsIn(v)
  BY CallsInFacts
<1>4. CASE call.how = "bare"
  <2>1. t = BareTarget(i, call.name)
    BY <1>4 DEF Target
  <2>2. Fn(t).outer \in Enclosing(i) \/ t \in TopLevel
    BY <2>1, BareFacts
  <2>3. Fn(t).outer \notin Enclosing(i)
    BY <1>2, EnclosingFacts, OuterFacts
  <2>4. t \in TopLevelMap
    BY <2>2, <2>3, PlainNames
  <2>. QED  BY <1>1, <1>2, <1>3, <1>4, <2>4 DEF LocalsCalled
<1>5. CASE call.how = "var" /\ Fn(t).class = ClassNamed(call.of)
  <2>. DEFINE c == ClassNamed(call.of)
  <2>1. c # 0
    BY <1>1, <1>5 DEF Target
  <2>2. c \in Classes /\ ClassOf(c).name = call.of
    BY <2>1, ClassNamedFacts
  <2>3. t \in Methods(c)
    BY <1>1, <1>5 DEF Methods
  <2>. HIDE DEF c
  <2>4. First({d \in Classes : ClassOf(d).name = call.of}) = c
    BY <2>2, PlainNames
  <2>5. Named(Methods(c), call.name) = {t}
    BY <1>1, <2>2, <2>3, PlainNames
  <2>6. First(Named(Methods(c), call.name)) = t
    BY <1>1, <2>5, OnlyOne
  <2>. QED  BY <1>1, <1>2, <1>3, <1>5, <2>1, <2>4, <2>6 DEF LocalsCalled
<1>. QED  BY <1>2, <1>4, <1>5

-----------------------------------------------------------------------------
(* The file stays as it is, and so does what is said of it alone.          *)
LEMMA SameFile ==
    ASSUME file' = file
    PROVE  /\ Functions' = Functions /\ Classes' = Classes /\ SinkFunctions' = SinkFunctions
           /\ Marked' = Marked /\ Plain' = Plain /\ ListsAreAssigned' = ListsAreAssigned
           /\ ListsAreClear' = ListsAreClear /\ TopLevelMap' = TopLevelMap /\ TopLevel' = TopLevel
           /\ \A i : /\ Fn(i)' = Fn(i) /\ Outermost(i)' = Outermost(i) /\ Announced(i)' = Announced(i)
                     /\ Enclosing(i)' = Enclosing(i) /\ Family(i)' = Family(i)
                     /\ High(i)' = High(i) /\ Guarded(i)' = Guarded(i) /\ Declared(i)' = Declared(i)
                     /\ CleansUp(i)' = CleansUp(i) /\ LocalsCalled(i)' = LocalsCalled(i)
                     /\ Offered(i)' = Offered(i) /\ SelfClass(i)' = SelfClass(i)
                     /\ Authorizes(i)' = Authorizes(i) /\ Protected(i)' = Protected(i)
           /\ \A c : /\ EntryPoints(c)' = EntryPoints(c) /\ MethodMap(c)' = MethodMap(c) /\ Methods(c)' = Methods(c)
           /\ \A c, i : MethodsCalled(c, i)' = MethodsCalled(c, i)
           /\ \A k : RunsWithin(k)' = RunsWithin(k)
<1>1. Functions' = Functions /\ Classes' = Classes /\ \A i : Fn(i)' = Fn(i) /\ ClassOf(i)' = ClassOf(i)
  BY DEF Functions, Classes, Fn, ClassOf
<1>2. \A i : Enclosing(i)' = Enclosing(i) /\ Outermost(i)' = Outermost(i)
  BY DEF Outermost, Enclosing, Fn
<1>3. TopLevel' = TopLevel /\ \A c : Methods(c)' = Methods(c)
  BY <1>1 DEF TopLevel, Methods
<1>4. \A S, name : Named(S, name)' = Named(S, name)
  BY <1>1 DEF Named
<1>5. TopLevelMap' = TopLevelMap /\ \A c : MethodMap(c)' = MethodMap(c)
  BY <1>1, <1>3 DEF TopLevelMap, MethodMap, Named
<1>6. \A i : Nested(i)' = Nested(i) /\ Family(i)' = Family(i) /\ SelfClass(i)' = SelfClass(i)
  BY <1>1, <1>2 DEF Nested, Family, SelfClass
<1>7. \A i : InToolList(i)' = InToolList(i)
  BY DEF InToolList, ListState
<1>8. \A c : IsToolClass(c)' = IsToolClass(c)
  BY <1>1 DEF IsToolClass
<1>9. \A i : Announced(i)' = Announced(i)
  BY <1>1, <1>7, <1>8 DEF Announced, ToolDecorated, RouteDecorated, Wrapped, ToolMethod, Appended
<1>10. \A c : EntryPoints(c)' = EntryPoints(c)
  BY <1>5, <1>6, <1>9 DEF EntryPoints, Callers
<1>11. \A i : CallsIn(i)' = CallsIn(i)
  BY <1>1, <1>6 DEF CallsIn
<1>12. \A c, i : MethodsCalled(c, i)' = MethodsCalled(c, i)
  BY <1>1, <1>5, <1>11 DEF MethodsCalled
<1>13. \A i : LocalsCalled(i)' = LocalsCalled(i)
  BY DEF LocalsCalled, CallsIn, TopLevelMap, TopLevel, Named, Methods, Classes, ClassOf, Nested, Enclosing,
         Functions, Fn
<1>14. Marked' = Marked
  BY <1>1, <1>8 DEF Marked, ToolDecorated, RouteDecorated
<1>15. Listed' = Listed
  BY DEF Listed, Holds
<1>16. \A i : Offered(i)' = Offered(i)
  BY <1>1, <1>8, <1>15 DEF Offered
<1>17. \A i : High(i)' = High(i)
  BY <1>1, <1>2, <1>9 DEF High, SchemaDispatch, ActionDispatch
<1>18. \A i : Protected(i)' = Protected(i)
  BY <1>1, <1>2, <1>6 DEF Protected, RecordedClass
<1>19. \A i : Guarded(i)' = Guarded(i)
  BY <1>1, <1>2, <1>18 DEF Guarded, GuardDecorated, ApprovalFlagged
<1>20. DeclaredClasses' = DeclaredClasses
  BY DEF DeclaredClasses, ClassOf, Classes
<1>21. \A i : Declared(i)' = Declared(i)
  BY <1>1, <1>2, <1>6, <1>20 DEF Declared
<1>22. SinkFunctions' = SinkFunctions /\ \A i : CleansUp(i)' = CleansUp(i)
  BY <1>1 DEF SinkFunctions, CleansUp
<1>23. \A c : Ancestors(c)' = Ancestors(c)
  BY DEF Ancestors, Bases, ClassOf
<1>24. \A i : Authorizes(i)' = Authorizes(i)
  BY <1>1, <1>23 DEF Authorizes
<1>25. \A i : Registered(i)' = Registered(i)
  BY <1>1, <1>6, <1>16 DEF Registered, Dispatcher
<1>26. \A i, c : Target(i, c)' = Target(i, c)
  <2>1. \A x, y : MethodOf(x, y)' = MethodOf(x, y)
    BY <1>1, <1>3, <1>23 DEF MethodOf, Named
  <2>2. \A x, y : BareTarget(x, y)' = BareTarget(x, y)
    BY <1>1, <1>2, <1>3 DEF BareTarget, Named
  <2>3. \A x : ClassNamed(x)' = ClassNamed(x)
    BY <1>1 DEF ClassNamed
  <2>. QED  BY <1>6, <2>1, <2>2, <2>3 DEF Target
<1>27. \A k : RunsWithin(k)' = RunsWithin(k)
  BY DEF RunsWithin, Registered, Offered, Dispatcher, Listed, Holds, IsToolClass, Nested, Enclosing, Target,
         MethodOf, BareTarget, ClassNamed, Named, Methods, Ancestors, Bases, ClassOf, Classes, SelfClass,
         Outermost, TopLevel, Functions, Fn
<1>28. Plain' = Plain /\ ListsAreAssigned' = ListsAreAssigned /\ ListsAreClear' = ListsAreClear
  BY <1>1 DEF Plain, ListsAreAssigned, ListsAreClear
<1>29. \A i : /\ Fn(i)' = Fn(i) /\ Outermost(i)' = Outermost(i) /\ Announced(i)' = Announced(i)
              /\ Enclosing(i)' = Enclosing(i) /\ Family(i)' = Family(i)
              /\ High(i)' = High(i) /\ Guarded(i)' = Guarded(i) /\ Declared(i)' = Declared(i)
              /\ CleansUp(i)' = CleansUp(i) /\ LocalsCalled(i)' = LocalsCalled(i)
              /\ Offered(i)' = Offered(i) /\ SelfClass(i)' = SelfClass(i)
              /\ Authorizes(i)' = Authorizes(i) /\ Protected(i)' = Protected(i)
  BY <1>1, <1>2, <1>6, <1>9, <1>13, <1>16, <1>17, <1>18, <1>19, <1>21, <1>22, <1>24
<1>30. \A c : EntryPoints(c)' = EntryPoints(c) /\ MethodMap(c)' = MethodMap(c) /\ Methods(c)' = Methods(c)
  BY <1>3, <1>5, <1>10
<1>. QED  BY <1>1, <1>3, <1>5, <1>12, <1>14, <1>22, <1>27, <1>28, <1>29, <1>30

-----------------------------------------------------------------------------
(* The state of the pass.  Seen: what the search from the entry points of  *)
(* class c has seen.  A class that was searched is done with, one that was *)
(* not has no method in sameClass.                                         *)
MethodReach(c) == [i \in Functions |-> MethodsCalled(c, i)]
Seen(c) == EntryPoints(c) \cup (DOMAIN sameClass \cap MethodMap(c))
ClassDone(c) == Open(EntryPoints(c), MethodReach(c), sameClass, Seen(c), <<>>)
ClassOpen(c) ==
    visited = Seen(c) /\ Open(EntryPoints(c), MethodReach(c), sameClass, visited, queue)

LocalEntries == IF file.followLocal THEN {i \in TopLevelMap : Announced(i)} ELSE {}
LocalReach == [i \in Functions |-> LocalsCalled(i)]
LocalSeen == LocalEntries \cup DOMAIN localCalls
LocalDone == Open(LocalEntries, LocalReach, localCalls, LocalSeen, <<>>)
LocalOpen ==
    visited = LocalSeen /\ Open(LocalEntries, LocalReach, localCalls, visited, queue)

Searched == (\A c \in Classes : ClassDone(c)) /\ LocalDone

SearchInv ==
    /\ file \in Files
    /\ phase \in {"read", "classes", "locals", "sinks", "done", "skipped"}
    /\ searched \in 0 .. Len(file.classes)
    /\ DOMAIN sameClass \subseteq Functions
    /\ phase = "read" => searched = 0 /\ queue = <<>> /\ sameClass = <<>> /\ localCalls = <<>>
    /\ phase = "skipped" => ~Marked
    /\ phase = "classes" =>
         /\ localCalls = <<>>
         /\ searched = 0 => queue = <<>>
         /\ \A c \in Classes : c = searched => ClassOpen(c)
         /\ \A c \in Classes : c < searched => ClassDone(c)
         /\ \A c \in Classes : c > searched => DOMAIN sameClass \cap Methods(c) = {}
    /\ phase \in {"locals", "sinks"} => \A c \in Classes : ClassDone(c)
    /\ phase = "locals" => LocalOpen
    /\ phase = "sinks" => LocalDone
    /\ phase = "done" => SinkFunctions = {} \/ Searched

LEMMA ReachFacts ==
    ASSUME file \in Files
    PROVE  /\ \A c \in Classes : \A v \in Functions : MethodReach(c)[v] = MethodsCalled(c, v) /\ MethodReach(c)[v] \subseteq Functions
           /\ \A v \in Functions : LocalReach[v] = LocalsCalled(v) /\ LocalReach[v] \subseteq Functions
           /\ LocalEntries \subseteq Functions
           /\ \A c \in Classes : EntryPoints(c) \subseteq Functions /\ MethodMap(c) \subseteq Functions
<1>1. \A c \in Classes : Callers(c) \subseteq Functions
  BY CallersFacts
<1>2. \A c \in Classes : EntryPoints(c) \subseteq Functions /\ MethodMap(c) \subseteq Functions
  BY <1>1, MapFacts
<1>3. \A c \in Classes : \A v : MethodsCalled(c, v) \subseteq Functions
  BY <1>2, MapFacts
<1>4. \A v : LocalsCalled(v) \subseteq Functions
  BY MapFacts
<1>5. LocalEntries \subseteq Functions
  BY MapFacts DEF LocalEntries
<1>. QED  BY <1>2, <1>3, <1>4, <1>5 DEF MethodReach, LocalReach

LEMMA SameReach ==
    ASSUME file' = file
    PROVE  /\ \A c : MethodReach(c)' = MethodReach(c)
           /\ LocalReach' = LocalReach /\ LocalEntries' = LocalEntries
BY SameFile DEF MethodReach, LocalReach, LocalEntries

(* The searches a step later. *)
LEMMA DoneNext ==
    ASSUME file' = file, NEW c
    PROVE  /\ Seen(c)' = EntryPoints(c) \cup (DOMAIN sameClass' \cap MethodMap(c))
           /\ Open(EntryPoints(c), MethodReach(c), sameClass', Seen(c)', <<>>) => ClassDone(c)'
           /\ visited' = Seen(c)' /\ Open(EntryPoints(c), MethodReach(c), sameClass', visited', queue')
                => ClassOpen(c)'
<1>1. /\ EntryPoints(c)' = EntryPoints(c) /\ MethodMap(c)' = MethodMap(c) /\ MethodReach(c)' = MethodReach(c)
      /\ Functions' = Functions
  BY SameFile, SameReach
<1>2. Seen(c)' = EntryPoints(c) \cup (DOMAIN sameClass' \cap MethodMap(c))
  BY <1>1 DEF Seen
<1>3. Open(EntryPoints(c), MethodReach(c), sameClass', Seen(c)', <<>>) => ClassDone(c)'
  BY <1>1 DEF ClassDone, Open, At, Entry
<1>4. visited' = Seen(c)' /\ Open(EntryPoints(c), MethodReach(c), sameClass', visited', queue')
        => ClassOpen(c)'
  BY <1>1 DEF ClassOpen, Open, At, Entry
<1>. QED  BY <1>2, <1>3, <1>4

LEMMA LocalNext ==
    ASSUME file' = file
    PROVE  /\ LocalSeen' = LocalEntries \cup DOMAIN localCalls'
           /\ Open(LocalEntries, LocalReach, localCalls', LocalSeen', <<>>) => LocalDone'
           /\ visited' = LocalSeen' /\ Open(LocalEntries, LocalReach, localCalls', visited', queue')
                => LocalOpen'
<1>1. LocalReach' = LocalReach /\ LocalEntries' = LocalEntries /\ Functions' = Functions
  BY SameFile, SameReach
<1>2. LocalSeen' = LocalEntries \cup DOMAIN localCalls'
  BY <1>1 DEF LocalSeen
<1>3. Open(LocalEntries, LocalReach, localCalls', LocalSeen', <<>>) => LocalDone'
  BY <1>1 DEF LocalDone, Open, At, Entry
<1>4. visited' = LocalSeen' /\ Open(LocalEntries, LocalReach, localCalls', visited', queue') => LocalOpen'
  BY <1>1 DEF LocalOpen, Open, At, Entry
<1>. QED  BY <1>2, <1>3, <1>4

LEMMA SearchAtStart == Init => SearchInv
<1>. SUFFICES ASSUME Init PROVE SearchInv
  OBVIOUS
<1>1. file \in Files /\ phase = "read" /\ searched = 0 /\ queue = <<>> /\ sameClass = <<>> /\ localCalls = <<>>
  BY DEF Init, RunInit, PassInit
<1>2. Len(file.classes) \in Nat /\ DOMAIN sameClass = {}
  BY <1>1, ClassesFacts
<1>. QED  BY <1>1, <1>2 DEF SearchInv

(* A search that is done stays done, when what it found does not change.   *)
LEMMA DoneStays ==
    ASSUME file \in Files, file' = file, NEW c \in Classes, ClassDone(c),
           DOMAIN sameClass' \cap MethodMap(c) = DOMAIN sameClass \cap MethodMap(c),
           \A v \in DOMAIN sameClass \cap MethodMap(c) : sameClass'[v] = sameClass[v]
    PROVE  ClassDone(c)'
<1>1. Seen(c)' = Seen(c)
  BY DoneNext DEF Seen
<1>2. PICK E, R, V, m2 : E = EntryPoints(c) /\ R = MethodReach(c) /\ V = Seen(c) /\ m2 = sameClass'
  OBVIOUS
<1>3. \A v \in V \ E : v \in DOMAIN sameClass \cap MethodMap(c)
  BY <1>2 DEF Seen
<1>4. \A v \in V \ E : v \in DOMAIN m2 /\ m2[v] = sameClass[v]
  BY <1>2, <1>3
<1>5. Open(E, R, sameClass, V, <<>>)
  BY <1>2 DEF ClassDone
<1>6. Open(E, R, m2, V, <<>>)
  BY <1>4, <1>5, OpenSame
<1>7. Open(EntryPoints(c), MethodReach(c), sameClass', Seen(c)', <<>>)
  BY <1>1, <1>2, <1>6
<1>. QED  BY <1>7, DoneNext

LEMMA LocalDoneStays ==
    ASSUME file' = file, localCalls' = localCalls, LocalDone
    PROVE  LocalDone'
<1>1. LocalSeen' = LocalSeen
  BY LocalNext DEF LocalSeen
<1>2. Open(LocalEntries, LocalReach, localCalls', LocalSeen', <<>>)
  BY <1>1 DEF LocalDone
<1>. QED  BY <1>2, LocalNext

LEMMA SearchedStays ==
    ASSUME file \in Files, file' = file, UNCHANGED <<sameClass, localCalls>>
    PROVE  /\ \A c \in Classes : ClassDone(c) => ClassDone(c)'
           /\ LocalDone => LocalDone'
           /\ Searched => Searched'
<1>1. ASSUME NEW c \in Classes, ClassDone(c) PROVE ClassDone(c)'
  BY <1>1, DoneStays
<1>2. LocalDone => LocalDone'
  BY LocalDoneStays
<1>3. Classes' = Classes
  BY SameFile
<1>. QED  BY <1>1, <1>2, <1>3 DEF Searched

LEMMA SearchRead == SearchInv /\ Read /\ file' = file => SearchInv'
<1>. SUFFICES ASSUME SearchInv, Read, file' = file PROVE SearchInv'
  OBVIOUS
<1>1. /\ phase = "read" /\ searched = 0 /\ queue = <<>> /\ sameClass = <<>> /\ localCalls = <<>>
      /\ phase' = IF ~Marked THEN "skipped"
                  ELSE IF SinkFunctions = {} /\ file.top = "none" THEN "done" ELSE "classes"
      /\ UNCHANGED <<searched, queue, sameClass, localCalls>>
  BY DEF Read, SearchInv
<1>2. file \in Files /\ DOMAIN sameClass = {} /\ Len(file.classes) \in Nat
  BY <1>1, ClassesFacts DEF SearchInv
<1>3. Marked' = Marked /\ SinkFunctions' = SinkFunctions /\ Classes' = Classes
  BY SameFile
<1>4. DOMAIN sameClass' = {}
  BY <1>1, <1>2
<1>5. \A c \in Classes : ~(c < 0) /\ c # 0
  BY <1>2, ClassesFacts
<1>. QED  BY <1>1, <1>2, <1>3, <1>4, <1>5 DEF SearchInv

LEMMA SearchNextClass == SearchInv /\ NextClass /\ file' = file => SearchInv'
<1>. SUFFICES ASSUME SearchInv, NextClass, file' = file PROVE SearchInv'
  OBVIOUS
<1>1. PICK c : c = searched + 1
  OBVIOUS
<1>2. /\ phase = "classes" /\ queue = <<>> /\ searched < Len(file.classes) /\ searched' = c
      /\ queue' = Enqueue(EntryPoints(c), 0) /\ visited' = EntryPoints(c)
      /\ UNCHANGED <<phase, sameClass, localCalls>>
  BY <1>1 DEF NextClass
<1>3. /\ file \in Files /\ searched \in 0 .. Len(file.classes) /\ DOMAIN sameClass \subseteq Functions
      /\ localCalls = <<>>
      /\ \A d \in Classes : d = searched => ClassOpen(d)
      /\ \A d \in Classes : d < searched => ClassDone(d)
      /\ \A d \in Classes : d > searched => DOMAIN sameClass \cap Methods(d) = {}
  BY <1>2 DEF SearchInv
<1>4. Classes = 1 .. Len(file.classes) /\ Len(file.classes) \in Nat
  BY <1>3, ClassesFacts
<1>5. c \in Classes /\ c \in 0 .. Len(file.classes) /\ c # 0 /\ c > searched
  BY <1>1, <1>2, <1>3, <1>4
<1>6. \A d \in Classes : (d < c => d < searched \/ d = searched) /\ (d > c => d > searched)
  BY <1>1, <1>3, <1>4
<1>7. Functions' = Functions /\ Classes' = Classes /\ \A d : Methods(d)' = Methods(d)
  BY SameFile
<1>8. Open(EntryPoints(c), MethodReach(c), sameClass, EntryPoints(c), Enqueue(EntryPoints(c), 0))
  <2>1. PICK E, R : E = EntryPoints(c) /\ R = MethodReach(c)
    OBVIOUS
  <2>2. E \in SUBSET Functions
    BY <1>3, <1>5, <2>1, ReachFacts
  <2>3. Open(E, R, sameClass, E, Enqueue(E, 0))
    BY <1>3, <2>2, OpenStart
  <2>. QED  BY <2>1, <2>3
<1>9. Seen(c)' = EntryPoints(c)
  <2>1. MethodMap(c) \subseteq Methods(c)
    BY <1>3, <1>5, MapFacts
  <2>2. DOMAIN sameClass \cap MethodMap(c) = {}
    BY <1>3, <1>5, <2>1
  <2>3. Seen(c)' = EntryPoints(c) \cup (DOMAIN sameClass' \cap MethodMap(c))
    BY DoneNext
  <2>. QED  BY <1>2, <2>2, <2>3
<1>10. ClassOpen(c)'
  BY <1>2, <1>8, <1>9, DoneNext
<1>11. \A d \in Classes : ClassDone(d) => ClassDone(d)'
  BY <1>2, <1>3, SearchedStays
<1>12. \A d \in Classes : d = searched => ClassDone(d)
  BY <1>2, <1>3 DEF ClassDone, ClassOpen
<1>13. \A d \in Classes : d < c => ClassDone(d)'
  BY <1>3, <1>6, <1>11, <1>12
<1>14. \A d \in Classes : d > c => DOMAIN sameClass \cap Methods(d) = {}
  BY <1>3, <1>6
<1>. QED  BY <1>2, <1>3, <1>5, <1>7, <1>10, <1>13, <1>14 DEF SearchInv

LEMMA SearchFollowMethod == SearchInv /\ FollowMethod /\ file' = file => SearchInv'
<1>. SUFFICES ASSUME SearchInv, FollowMethod, file' = file PROVE SearchInv'
  OBVIOUS
<1>1. PICK c, u, d : /\ c = searched /\ u = Head(queue)[1]
                     /\ d = Discover(MethodsCalled(searched, Head(queue)[1]))
  OBVIOUS
<1>2. /\ phase = "classes" /\ queue # <<>>
      /\ visited' = visited \cup d.found /\ sameClass' = Extend(sameClass, d)
      /\ queue' = Tail(queue) \o Enqueue(d.found, d.hops)
      /\ searched' = c /\ UNCHANGED <<phase, localCalls>>
  BY <1>1 DEF FollowMethod
<1>3. /\ file \in Files /\ c \in 0 .. Len(file.classes) /\ DOMAIN sameClass \subseteq Functions /\ localCalls = <<>>
      /\ c # 0
      /\ \A e \in Classes : e = c => ClassOpen(e)
      /\ \A e \in Classes : e < c => ClassDone(e)
      /\ \A e \in Classes : e > c => DOMAIN sameClass \cap Methods(e) = {}
  BY <1>1, <1>2 DEF SearchInv
<1>4. c \in Classes
  BY <1>3, ClassesFacts
<1>5. visited = Seen(c) /\ Open(EntryPoints(c), MethodReach(c), sameClass, visited, queue)
  BY <1>3, <1>4 DEF ClassOpen
<1>6. Functions' = Functions /\ Classes' = Classes /\ \A e : Methods(e)' = Methods(e)
  BY SameFile
<1>7. /\ Open(EntryPoints(c), MethodReach(c), sameClass', visited', queue')
      /\ d.found \subseteq MethodsCalled(c, u)
  <2>1. PICK E, R : E = EntryPoints(c) /\ R = MethodReach(c)
    OBVIOUS
  <2>2. \A v \in Functions : R[v] \subseteq Functions /\ R[v] = MethodsCalled(c, v)
    BY <1>3, <1>4, <2>1, ReachFacts
  <2>3. Open(E, R, sameClass, visited, queue)
    BY <1>5, <2>1
  <2>4. queue \in Seq(Entry) /\ queue # <<>>
    BY <1>2, <2>3 DEF Open
  <2>5. u \in Functions
    BY <1>1, <2>4, TailInSeq DEF Entry
  <2>6. d = Discover(R[Head(queue)[1]])
    BY <1>1, <2>2, <2>5
  <2>7. /\ Open(E, R, Extend(sameClass, d), visited \cup d.found, Tail(queue) \o Enqueue(d.found, d.hops))
        /\ d.found \subseteq R[Head(queue)[1]]
    BY <1>2, <1>3, <2>2, <2>6, <2>3, OpenStep
  <2>. QED  BY <1>1, <1>2, <2>1, <2>2, <2>5, <2>7
<1>8. d.found \subseteq MethodMap(c) /\ d.found \subseteq Methods(c) /\ d.found \subseteq Functions
  BY <1>3, <1>4, <1>7, MapFacts, ReachFacts
<1>9. /\ DOMAIN sameClass' = DOMAIN sameClass \cup d.found
      /\ \A v \in DOMAIN sameClass \ d.found : sameClass'[v] = sameClass[v]
  BY <1>2 DEF Extend
<1>10. ClassOpen(c)'
  <2>1. Seen(c)' = EntryPoints(c) \cup (DOMAIN sameClass' \cap MethodMap(c))
    BY DoneNext
  <2>2. visited' = Seen(c)'
    BY <1>2, <1>5, <1>8, <1>9, <2>1 DEF Seen
  <2>. QED  BY <1>7, <2>2, DoneNext
<1>11. \A e \in Classes : e # c => d.found \cap Methods(e) = {}
  BY <1>3, <1>4, <1>8, MapFacts
<1>12. ASSUME NEW e \in Classes, e < c PROVE ClassDone(e)'
  <2>1. d.found \cap Methods(e) = {} /\ MethodMap(e) \subseteq Methods(e)
    BY <1>3, <1>11, <1>12, MapFacts, ClassesFacts
  <2>2. /\ DOMAIN sameClass' \cap MethodMap(e) = DOMAIN sameClass \cap MethodMap(e)
        /\ \A v \in DOMAIN sameClass \cap MethodMap(e) : sameClass'[v] = sameClass[v]
    BY <1>9, <2>1
  <2>. QED  BY <1>3, <1>12, <2>2, DoneStays
<1>13. ASSUME NEW e \in Classes, e > c PROVE DOMAIN sameClass' \cap Methods(e) = {}
  <2>1. d.found \cap Methods(e) = {}
    BY <1>3, <1>11, <1>13, ClassesFacts
  <2>. QED  BY <1>3, <1>9, <1>13, <2>1
<1>. QED  BY <1>2, <1>3, <1>4, <1>6, <1>8, <1>9, <1>10, <1>12, <1>13 DEF SearchInv

LEMMA SearchStartLocals == SearchInv /\ StartLocals /\ file' = file => SearchInv'
<1>. SUFFICES ASSUME SearchInv, StartLocals, file' = file PROVE SearchInv'
  OBVIOUS
<1>1. /\ phase = "classes" /\ queue = <<>> /\ searched = Len(file.classes) /\ phase' = "locals"
      /\ queue' = Enqueue(LocalEntries, 0) /\ visited' = LocalEntries
      /\ UNCHANGED <<searched, sameClass, localCalls>>
  BY DEF StartLocals, LocalEntries
<1>2. /\ file \in Files /\ searched \in 0 .. Len(file.classes) /\ DOMAIN sameClass \subseteq Functions
      /\ localCalls = <<>>
      /\ \A c \in Classes : c = searched => ClassOpen(c)
      /\ \A c \in Classes : c < searched => ClassDone(c)
  BY <1>1 DEF SearchInv
<1>3. \A c \in Classes : c < searched \/ c = searched
  BY <1>1, <1>2, ClassesFacts
<1>4. \A c \in Classes : c = searched => ClassDone(c)
  BY <1>1, <1>2 DEF ClassDone, ClassOpen
<1>5. \A c \in Classes : ClassDone(c)'
  BY <1>1, <1>2, <1>3, <1>4, SearchedStays
<1>6. Functions' = Functions /\ Classes' = Classes
  BY SameFile
<1>7. Open(LocalEntries, LocalReach, localCalls, LocalEntries, Enqueue(LocalEntries, 0))
  <2>1. LocalEntries \in SUBSET Functions
    BY <1>2, ReachFacts
  <2>. QED  BY <1>2, <2>1, OpenStart
<1>8. LocalOpen'
  <2>1. DOMAIN localCalls' = {} /\ localCalls' = localCalls
    BY <1>1, <1>2
  <2>2. visited' = LocalSeen'
    BY <1>1, <2>1, LocalNext
  <2>. QED  BY <1>1, <1>7, <2>2, LocalNext
<1>. QED  BY <1>1, <1>2, <1>5, <1>6, <1>8 DEF SearchInv

LEMMA SearchFollowLocal == SearchInv /\ FollowLocal /\ file' = file => SearchInv'
<1>. SUFFICES ASSUME SearchInv, FollowLocal, file' = file PROVE SearchInv'
  OBVIOUS
<1>1. PICK u, d : u = Head(queue)[1] /\ d = Discover(LocalsCalled(Head(queue)[1]))
  OBVIOUS
<1>2. /\ phase = "locals" /\ queue # <<>>
      /\ visited' = visited \cup d.found /\ localCalls' = Extend(localCalls, d)
      /\ queue' = Tail(queue) \o Enqueue(d.found, d.hops)
      /\ UNCHANGED <<phase, searched, sameClass>>
  BY <1>1 DEF FollowLocal
<1>3. /\ file \in Files /\ searched \in 0 .. Len(file.classes) /\ DOMAIN sameClass \subseteq Functions
      /\ visited = LocalSeen /\ Open(LocalEntries, LocalReach, localCalls, visited, queue)
      /\ \A c \in Classes : ClassDone(c)
  BY <1>2 DEF SearchInv, LocalOpen
<1>4. Functions' = Functions /\ Classes' = Classes
  BY SameFile
<1>5. Open(LocalEntries, LocalReach, localCalls', visited', queue')
  <2>1. \A v \in Functions : LocalReach[v] \subseteq Functions /\ LocalReach[v] = LocalsCalled(v)
    BY <1>3, ReachFacts
  <2>2. queue \in Seq(Entry) /\ queue # <<>>
    BY <1>2, <1>3 DEF Open
  <2>3. u \in Functions
    BY <1>1, <2>2, TailInSeq DEF Entry
  <2>4. d = Discover(LocalReach[Head(queue)[1]])
    BY <1>1, <2>1, <2>3
  <2>5. Open(LocalEntries, LocalReach, Extend(localCalls, d), visited \cup d.found, Tail(queue) \o Enqueue(d.found, d.hops))
    BY <1>2, <1>3, <2>1, <2>4, OpenStep
  <2>. QED  BY <1>2, <2>5
<1>6. LocalOpen'
  <2>1. DOMAIN localCalls' = DOMAIN localCalls \cup d.found
    BY <1>2 DEF Extend
  <2>2. visited' = LocalSeen'
    BY <1>2, <1>3, <2>1, LocalNext DEF LocalSeen
  <2>. QED  BY <1>5, <2>2, LocalNext
<1>7. ASSUME NEW c \in Classes PROVE ClassDone(c)'
  BY <1>2, <1>3, DoneStays
<1>. QED  BY <1>2, <1>3, <1>4, <1>6, <1>7 DEF SearchInv

LEMMA SearchStartSinks == SearchInv /\ StartSinks /\ file' = file => SearchInv'
<1>. SUFFICES ASSUME SearchInv, StartSinks, file' = file PROVE SearchInv'
  OBVIOUS
<1>1. /\ phase = "locals" /\ queue = <<>> /\ phase' = "sinks"
      /\ UNCHANGED <<searched, sameClass, localCalls>>
  BY DEF StartSinks
<1>2. /\ file \in Files /\ searched \in 0 .. Len(file.classes) /\ DOMAIN sameClass \subseteq Functions
      /\ visited = LocalSeen /\ Open(LocalEntries, LocalReach, localCalls, visited, queue)
      /\ \A c \in Classes : ClassDone(c)
  BY <1>1 DEF SearchInv, LocalOpen
<1>3. LocalDone
  BY <1>1, <1>2 DEF LocalDone
<1>4. Functions' = Functions /\ Classes' = Classes
  BY SameFile
<1>5. LocalDone' /\ \A c \in Classes : ClassDone(c)'
  BY <1>1, <1>2, <1>3, SearchedStays
<1>. QED  BY <1>1, <1>2, <1>4, <1>5 DEF SearchInv

LEMMA SearchJudge ==
    SearchInv /\ file' = file /\ UNCHANGED <<searched, sameClass, localCalls>>
      /\ phase = "sinks" /\ phase' \in {"sinks", "done"} => SearchInv'
<1>. SUFFICES ASSUME SearchInv, file' = file, UNCHANGED <<searched, sameClass, localCalls>>,
                     phase = "sinks", phase' \in {"sinks", "done"}
              PROVE  SearchInv'
  OBVIOUS
<1>1. /\ file \in Files /\ searched \in 0 .. Len(file.classes) /\ DOMAIN sameClass \subseteq Functions
      /\ LocalDone /\ \A c \in Classes : ClassDone(c)
  BY DEF SearchInv
<1>2. Functions' = Functions /\ Classes' = Classes
  BY SameFile
<1>3. LocalDone' /\ \A c \in Classes : ClassDone(c)'
  BY <1>1, SearchedStays
<1>4. Searched'
  BY <1>2, <1>3 DEF Searched
<1>. QED  BY <1>1, <1>2, <1>3, <1>4 DEF SearchInv

LEMMA SearchOver == SearchInv /\ file' = file /\ UNCHANGED passVars => SearchInv'
<1>. SUFFICES ASSUME SearchInv, file' = file, UNCHANGED passVars PROVE SearchInv'
  OBVIOUS
<1>1. UNCHANGED <<phase, searched, queue, visited, sameClass, localCalls>>
  BY DEF passVars
<1>2. file \in Files
  BY DEF SearchInv
<1>3. /\ Functions' = Functions /\ Classes' = Classes /\ Marked' = Marked /\ SinkFunctions' = SinkFunctions
      /\ \A e : Methods(e)' = Methods(e)
  BY SameFile
<1>4. /\ \A c \in Classes : ClassDone(c) => ClassDone(c)'
      /\ LocalDone => LocalDone'
      /\ Searched => Searched'
  BY <1>1, <1>2, SearchedStays
<1>5. ASSUME NEW c, ClassOpen(c) PROVE ClassOpen(c)'
  <2>1. Seen(c)' = Seen(c)
    BY <1>1, DoneNext DEF Seen
  <2>2. visited' = Seen(c)' /\ Open(EntryPoints(c), MethodReach(c), sameClass', visited', queue')
    BY <1>1, <1>5, <2>1 DEF ClassOpen
  <2>. QED  BY <2>2, DoneNext
<1>6. LocalOpen => LocalOpen'
  <2>1. LocalSeen' = LocalSeen
    BY <1>1, LocalNext DEF LocalSeen
  <2>2. LocalOpen => visited' = LocalSeen' /\ Open(LocalEntries, LocalReach, localCalls', visited', queue')
    BY <1>1, <2>1 DEF LocalOpen
  <2>. QED  BY <2>2, LocalNext
<1>. QED  BY <1>1, <1>3, <1>4, <1>5, <1>6 DEF SearchInv

-----------------------------------------------------------------------------
(* The steps of the pass, and of the agent once it is over.                *)
LEMMA Steps ==
    ASSUME Next
    PROVE  /\ file' = file
           /\ \/ ~Over /\ Scan /\ UNCHANGED runVars
              \/ Over /\ Run /\ UNCHANGED passVars
<1>1. Scan => ~Over
  BY DEF Scan, Over, Read, NextClass, FollowMethod, StartLocals, FollowLocal, StartSinks, JudgeSink, JudgeModule
<1>2. Run => file' = file
  BY DEF Run
<1>. QED  BY <1>1, <1>2 DEF Next

LEMMA SearchStep == SearchInv /\ [Next]_vars => SearchInv'
<1>. SUFFICES ASSUME SearchInv, [Next]_vars PROVE SearchInv'
  OBVIOUS
<1>1. CASE UNCHANGED vars
  BY <1>1, SearchOver DEF vars
<1>2. CASE Over /\ Run /\ UNCHANGED passVars /\ file' = file
  BY <1>2, SearchOver
<1>3. CASE Scan /\ file' = file
  <2>1. CASE Read
    BY <1>3, <2>1, SearchRead
  <2>2. CASE NextClass
    BY <1>3, <2>2, SearchNextClass
  <2>3. CASE FollowMethod
    BY <1>3, <2>3, SearchFollowMethod
  <2>4. CASE StartLocals
    BY <1>3, <2>4, SearchStartLocals
  <2>5. CASE FollowLocal
    BY <1>3, <2>5, SearchFollowLocal
  <2>6. CASE StartSinks
    BY <1>3, <2>6, SearchStartSinks
  <2>7. CASE JudgeSink
    BY <1>3, <2>7, SearchJudge DEF JudgeSink
  <2>8. CASE JudgeModule
    BY <1>3, <2>8, SearchJudge DEF JudgeModule
  <2>. QED  BY <1>3, <2>1, <2>2, <2>3, <2>4, <2>5, <2>6, <2>7, <2>8 DEF Scan
<1>. QED  BY <1>1, <1>2, <1>3, Steps

-----------------------------------------------------------------------------
(* What was found is called as often as it is said to be.                  *)
IsCalled(map) == \A v \in DOMAIN map : map[v] \in 0 .. MaxHops /\ v \in RunsWithin(map[v])
RealInv ==
    Plain /\ ListsAreAssigned =>
      /\ IsCalled(sameClass) /\ IsCalled(localCalls)
      /\ \A x \in capabilities : x.function # 0 => x.function \in RunsWithin(x.hops)

LEMMA CalledNext ==
    ASSUME file \in Files, Plain,
           NEW u \in Functions, NEW h \in 0 .. MaxHops - 1, u \in RunsWithin(h),
           NEW v, \/ \E c \in Classes : u \in Callers(c) /\ v \in MethodsCalled(c, u)
                  \/ v \in LocalsCalled(u)
    PROVE  v \in RunsWithin(h + 1)
<1>1. \E k \in Family(u) : \E call \in Fn(k).calls : Target(k, call) = v /\ k \in Functions
  BY MethodIsCalled, LocalIsCalled
<1>2. PICK k \in Family(u) : \E call \in Fn(k).calls : Target(k, call) = v /\ k \in Functions
  BY <1>1
<1>3. PICK call \in Fn(k).calls : Target(k, call) = v
  BY <1>2
<1>4. h \in 0 .. MaxDepth /\ h \in 0 .. MaxDepth - 1
  BY DEF MaxDepth, MaxHops
<1>5. k \in RunsWithin(h)
  BY <1>2, <1>4, RunsFacts
<1>6. v # 0
  <2>1. \A c \in Classes : v \in MethodsCalled(c, u) => v \in Functions
    BY ReachFacts
  <2>2. v \in LocalsCalled(u) => v \in Functions
    BY MapFacts
  <2>3. v \in Functions
    BY <2>1, <2>2
  <2>4. Size \in Nat /\ Functions = 1 .. Size
    BY OuterFacts
  <2>. QED  BY <2>3, <2>4
<1>. QED  BY <1>3, <1>4, <1>5, <1>6, RunsFacts

(* One step of a search.                                                   *)
LEMMA CalledStep ==
    ASSUME file \in Files, Plain, ListsAreAssigned,
           NEW E, NEW R, NEW map, IsCalled(map), Open(E, R, map, visited, queue), queue # <<>>,
           \A v \in Functions : R[v] \subseteq Functions,
           \A v \in E : Announced(v),
           \A u \in visited : \A v \in R[u] : \/ \E c \in Classes : u \in Callers(c) /\ v \in MethodsCalled(c, u)
                                              \/ v \in LocalsCalled(u),
           NEW d, d = Discover(R[Head(queue)[1]])
    PROVE  IsCalled(Extend(map, d))
<1>1. PICK u : u = Head(queue)[1]
  OBVIOUS
<1>2. /\ d.found \subseteq R[u] /\ u \in visited
      /\ d.found # {} => d.hops = At(E, map, u) + 1 /\ At(E, map, u) \in 0 .. MaxHops - 1
  BY <1>1, OpenStep
<1>3. visited \subseteq Functions /\ visited \ E \subseteq DOMAIN map
  BY DEF Open
<1>4. PICK h : h = At(E, map, u)
  OBVIOUS
<1>5. ASSUME NEW v \in d.found PROVE d.hops \in 0 .. MaxHops /\ v \in RunsWithin(d.hops)
  <2>1. d.hops = h + 1 /\ h \in 0 .. MaxHops - 1 /\ v \in R[u]
    BY <1>2, <1>4
  <2>2. u \in RunsWithin(h)
    <3>1. CASE u \in E
      <4>1. h = 0
        BY <1>4, <3>1 DEF At
      <4>2. Registered(u)
        BY <1>2, <1>3, <3>1, AnnouncedIsOffered DEF Registered
      <4>. QED  BY <1>2, <1>3, <4>1, <4>2, RunsFacts
    <3>2. CASE u \notin E
      BY <1>2, <1>3, <1>4, <3>2 DEF At, IsCalled
    <3>. QED  BY <3>1, <3>2
  <2>3. v \in RunsWithin(h + 1)
    BY <1>2, <1>3, <2>1, <2>2, CalledNext
  <2>. QED  BY <2>1, <2>3 DEF MaxHops
<1>. QED  BY <1>5 DEF IsCalled, Extend

(* A sink in a function that is found runs when that function does.        *)
LEMMA JudgedIsCalled ==
    ASSUME file \in Files, Plain, ListsAreAssigned, IsCalled(sameClass), IsCalled(localCalls),
           NEW i \in Functions, Verdict(i).confidence # "none"
    PROVE  i \in RunsWithin(Verdict(i).hops)
<1>1. PICK o : o = Outermost(i)
  OBVIOUS
<1>2. o \in Functions /\ i \in Family(o)
  BY <1>1, FamilyFacts
<1>3. 0 \in 0 .. MaxDepth
  BY DEF MaxDepth
<1>4. CASE High(i)
  <2>1. Verdict(i).hops = 0
    BY <1>4 DEF Verdict
  <2>2. i \in RunsWithin(0)
    <3>1. CASE Announced(o)
      <4>1. o \in RunsWithin(0)
        BY <1>2, <3>1, AnnouncedIsOffered, RunsFacts DEF Registered
      <4>. QED  BY <1>2, <1>3, <4>1, RunsFacts
    <3>2. CASE SchemaDispatch(i)
      BY <3>2, RunsFacts DEF SchemaDispatch, Registered, Dispatcher
    <3>3. CASE ActionDispatch(i)
      <4>1. Registered(o)
        BY <1>1, <1>2, <3>3 DEF ActionDispatch, Registered, Dispatcher, Family
      <4>2. o \in RunsWithin(0)
        BY <1>2, <4>1, RunsFacts
      <4>. QED  BY <1>2, <1>3, <4>2, RunsFacts
    <3>. QED  BY <1>1, <1>4, <3>1, <3>2, <3>3 DEF High
  <2>. QED  BY <2>1, <2>2
<1>5. ASSUME NEW map, IsCalled(map), o \in DOMAIN map, Verdict(i).hops = map[o] PROVE i \in RunsWithin(Verdict(i).hops)
  <2>1. map[o] \in 0 .. MaxDepth /\ o \in RunsWithin(map[o])
    BY <1>5 DEF IsCalled, MaxDepth, MaxHops
  <2>. QED  BY <1>2, <1>5, <2>1, RunsFacts
<1>6. CASE ~High(i) /\ o \in DOMAIN sameClass
  <2>1. Verdict(i).hops = sameClass[o]
    BY <1>1, <1>6 DEF Verdict
  <2>. QED  BY <1>5, <1>6, <2>1
<1>7. CASE ~High(i) /\ o \in DOMAIN localCalls \ DOMAIN sameClass
  <2>1. Verdict(i).hops = localCalls[o]
    BY <1>1, <1>7 DEF Verdict
  <2>. QED  BY <1>5, <1>7, <2>1
<1>8. CASE ~High(i) /\ o \notin DOMAIN localCalls \cup DOMAIN sameClass
  BY <1>1, <1>8 DEF Verdict
<1>. QED  BY <1>4, <1>6, <1>7, <1>8

LEMMA RealAtStart == Init => RealInv
<1>. SUFFICES ASSUME Init PROVE RealInv
  OBVIOUS
<1>1. sameClass = <<>> /\ localCalls = <<>> /\ capabilities = {}
  BY DEF Init, PassInit
<1>2. DOMAIN sameClass = {} /\ DOMAIN localCalls = {}
  BY <1>1
<1>. QED  BY <1>1, <1>2 DEF RealInv, IsCalled

LEMMA CalledSame ==
    ASSUME file' = file
    PROVE  /\ IsCalled(sameClass') => IsCalled(sameClass)'
           /\ IsCalled(localCalls') => IsCalled(localCalls)'
           /\ (\A x \in capabilities' : x.function # 0 => x.function \in RunsWithin(x.hops)) =>
                (\A x \in capabilities : x.function # 0 => x.function \in RunsWithin(x.hops))'
<1>1. \A k : RunsWithin(k)' = RunsWithin(k)
  BY SameFile
<1>2. IsCalled(sameClass') => IsCalled(sameClass)'
  BY <1>1 DEF IsCalled
<1>3. IsCalled(localCalls') => IsCalled(localCalls)'
  BY <1>1 DEF IsCalled
<1>4. (\A x \in capabilities' : x.function # 0 => x.function \in RunsWithin(x.hops)) =>
        (\A x \in capabilities : x.function # 0 => x.function \in RunsWithin(x.hops))'
  BY <1>1
<1>. QED  BY <1>2, <1>3, <1>4

LEMMA RealStep == SearchInv /\ RealInv /\ [Next]_vars => RealInv'
<1>. SUFFICES ASSUME SearchInv, RealInv, [Next]_vars, file' = file, Plain, ListsAreAssigned
              PROVE  /\ IsCalled(sameClass')
                     /\ IsCalled(localCalls')
                     /\ \A x \in capabilities' : x.function # 0 => x.function \in RunsWithin(x.hops)
  <2>1. [Next]_vars => file' = file
    BY Steps DEF vars
  <2>2. file' = file => Plain' = Plain /\ ListsAreAssigned' = ListsAreAssigned
    BY SameFile
  <2>. QED  BY <2>1, <2>2, CalledSame DEF RealInv
<1>1. /\ IsCalled(sameClass) /\ IsCalled(localCalls) /\ file \in Files
      /\ \A x \in capabilities : x.function # 0 => x.function \in RunsWithin(x.hops)
  BY DEF RealInv, SearchInv
<1>2. CASE UNCHANGED <<sameClass, localCalls, capabilities>>
  BY <1>1, <1>2
<1>3. CASE FollowMethod
  <2>1. PICK c, d : c = searched /\ d = Discover(MethodsCalled(searched, Head(queue)[1]))
    OBVIOUS
  <2>2. /\ phase = "classes" /\ queue # <<>>
        /\ sameClass' = Extend(sameClass, d) /\ UNCHANGED <<localCalls, capabilities>>
    BY <1>3, <2>1 DEF FollowMethod
  <2>3. c \in Classes /\ ClassOpen(c)
    <3>1. c \in 0 .. Len(file.classes) /\ c # 0 /\ \A e \in Classes : e = c => ClassOpen(e)
      BY <2>1, <2>2 DEF SearchInv
    <3>. QED  BY <1>1, <3>1, ClassesFacts
  <2>4. PICK E, R : E = EntryPoints(c) /\ R = MethodReach(c)
    OBVIOUS
  <2>5. Open(E, R, sameClass, visited, queue) /\ visited = Seen(c)
    BY <2>3, <2>4 DEF ClassOpen
  <2>6. \A v \in Functions : R[v] \subseteq Functions /\ R[v] = MethodsCalled(c, v)
    BY <1>1, <2>3, <2>4, ReachFacts
  <2>7. visited \subseteq Callers(c) /\ visited \subseteq Functions
    <3>1. visited \subseteq Callers(c)
      BY <1>1, <2>3, <2>5, MapFacts DEF Seen
    <3>. QED  BY <2>5, <3>1 DEF Open
  <2>8. d = Discover(R[Head(queue)[1]])
    <3>1. queue \in Seq(Entry)
      BY <2>5 DEF Open
    <3>2. Head(queue)[1] \in Functions
      BY <2>2, <3>1, TailInSeq DEF Entry
    <3>. QED  BY <2>1, <2>6, <3>2
  <2>9. \A v \in E : Announced(v)
    BY <2>4 DEF EntryPoints
  <2>10. \A u \in visited : \A v \in R[u] : \E e \in Classes : u \in Callers(e) /\ v \in MethodsCalled(e, u)
    BY <2>3, <2>6, <2>7
  <2>11. IsCalled(Extend(sameClass, d))
    BY <1>1, <2>2, <2>5, <2>6, <2>8, <2>9, <2>10, CalledStep
  <2>. QED  BY <1>1, <2>2, <2>11
<1>4. CASE FollowLocal
  <2>1. PICK d : d = Discover(LocalsCalled(Head(queue)[1]))
    OBVIOUS
  <2>2. /\ phase = "locals" /\ queue # <<>>
        /\ localCalls' = Extend(localCalls, d) /\ UNCHANGED <<sameClass, capabilities>>
    BY <1>4, <2>1 DEF FollowLocal
  <2>3. Open(LocalEntries, LocalReach, localCalls, visited, queue)
    BY <2>2 DEF SearchInv, LocalOpen
  <2>4. \A v \in Functions : LocalReach[v] \subseteq Functions /\ LocalReach[v] = LocalsCalled(v)
    BY <1>1, ReachFacts
  <2>5. d = Discover(LocalReach[Head(queue)[1]])
    <3>1. queue \in Seq(Entry)
      BY <2>3 DEF Open
    <3>2. Head(queue)[1] \in Functions
      BY <2>2, <3>1, TailInSeq DEF Entry
    <3>. QED  BY <2>1, <2>4, <3>2
  <2>6. \A v \in LocalEntries : Announced(v)
    BY DEF LocalEntries
  <2>7. \A u \in visited : \A v \in LocalReach[u] : v \in LocalsCalled(u)
    BY <2>3, <2>4 DEF Open
  <2>8. IsCalled(Extend(localCalls, d))
    BY <1>1, <2>2, <2>3, <2>4, <2>5, <2>6, <2>7, CalledStep
  <2>. QED  BY <1>1, <2>2, <2>8
<1>5. CASE JudgeSink
  <2>1. PICK j : j = judged'
    OBVIOUS
  <2>2. PICK v : v = Verdict(j)
    OBVIOUS
  <2>3. /\ UNCHANGED <<sameClass, localCalls>>
        /\ \E i \in SinkFunctions : i > judged
        /\ j = First({i \in SinkFunctions : i > judged})
        /\ \A x \in capabilities' : \/ x \in capabilities
                                    \/ /\ v.confidence # "none"
                                       /\ x.function = j /\ x.hops = v.hops
    <3>1. /\ UNCHANGED <<sameClass, localCalls>>
          /\ \E i \in SinkFunctions : i > judged
          /\ j = First({i \in SinkFunctions : i > judged})
      BY <1>5, <2>1 DEF JudgeSink
    <3>2. Verdict(judged') = v
      BY <2>1, <2>2
    <3>3. /\ v.confidence = "none" => capabilities' = capabilities
          /\ \/ capabilities' = capabilities
             \/ capabilities' = capabilities \cup {[function |-> j, confidence |-> v.confidence,
                                                    hops |-> v.hops, guarded |-> Guarded(judged')]}
      BY <1>5, <2>1, <3>2 DEF JudgeSink
    <3>. QED  BY <3>1, <3>3
  <2>4. j \in Functions
    <3>1. SinkFunctions \subseteq Nat /\ SinkFunctions \subseteq Functions
      <4>1. Size \in Nat /\ Functions = 1 .. Size
        BY <1>1, OuterFacts
      <4>. QED  BY <4>1 DEF SinkFunctions
    <3>. QED  BY <2>3, <3>1, FirstFacts
  <2>5. v.confidence # "none" => j \in RunsWithin(v.hops)
    BY <1>1, <2>2, <2>4, JudgedIsCalled
  <2>. QED  BY <1>1, <2>3, <2>5
<1>6. CASE JudgeModule
  <2>1. /\ UNCHANGED <<sameClass, localCalls>>
        /\ \A x \in capabilities' : x \in capabilities \/ x.function = 0
    BY <1>6 DEF JudgeModule
  <2>. QED  BY <1>1, <2>1
<1>7. CASE Scan
  BY <1>2, <1>3, <1>4, <1>5, <1>6, <1>7 DEF Scan, Read, NextClass, StartLocals, StartSinks
<1>8. CASE UNCHANGED passVars
  BY <1>2, <1>8 DEF passVars
<1>9. CASE UNCHANGED vars
  BY <1>8, <1>9 DEF vars, passVars
<1>. QED  BY <1>7, <1>8, <1>9, Steps

(* What was judged, and of what.                                           *)
Found(i) == High(i) \/ Outermost(i) \in DOMAIN sameClass \cup DOMAIN localCalls
JudgeInv ==
    /\ phase \in {"read", "classes", "locals"} => judged = 0 /\ capabilities = {} /\ findings = {}
    /\ judged \in Nat
    /\ \A i \in SinkFunctions : i <= judged /\ Found(i) /\ ~CleansUp(i) => \E x \in capabilities : x.function = i
    /\ \A x \in capabilities : x.guarded => Guarded(x.function)
    /\ \A x \in findings : x.suppressed => Declared(x.function)
    /\ phase = "done" => \A i \in SinkFunctions : i <= judged

LEMMA SinkFacts ==
    ASSUME file \in Files
    PROVE  SinkFunctions \subseteq Functions /\ SinkFunctions \subseteq Nat /\ \A i \in SinkFunctions : ~(i <= 0)
<1>1. Size \in Nat /\ Functions = 1 .. Size
  BY OuterFacts
<1>. QED  BY <1>1 DEF SinkFunctions

LEMMA FoundIsJudged ==
    ASSUME NEW i
    PROVE  Found(i) <=> Verdict(i).confidence # "none"
<1>1. CASE High(i)
  BY <1>1 DEF Verdict, Found
<1>2. CASE ~High(i) /\ Outermost(i) \in DOMAIN sameClass
  BY <1>2 DEF Verdict, Found
<1>3. CASE ~High(i) /\ Outermost(i) \in DOMAIN localCalls \ DOMAIN sameClass
  BY <1>3 DEF Verdict, Found
<1>4. CASE ~High(i) /\ Outermost(i) \notin DOMAIN localCalls \cup DOMAIN sameClass
  BY <1>4 DEF Verdict, Found
<1>. QED  BY <1>1, <1>2, <1>3, <1>4

LEMMA JudgeAtStart == Init => JudgeInv
<1>. SUFFICES ASSUME Init PROVE JudgeInv
  OBVIOUS
<1>1. phase = "read" /\ judged = 0 /\ capabilities = {} /\ findings = {} /\ file \in Files
  BY DEF Init, PassInit, RunInit
<1>2. \A i \in SinkFunctions : ~(i <= 0)
  BY <1>1, SinkFacts
<1>. QED  BY <1>1, <1>2 DEF JudgeInv

LEMMA JudgeStep == SearchInv /\ JudgeInv /\ [Next]_vars => JudgeInv'
<1>. SUFFICES ASSUME SearchInv, JudgeInv, [Next]_vars PROVE JudgeInv'
  OBVIOUS
<1>1. file' = file /\ file \in Files
  BY Steps DEF vars, SearchInv
<1>2. /\ SinkFunctions' = SinkFunctions
      /\ \A i : /\ High(i)' = High(i) /\ Outermost(i)' = Outermost(i) /\ CleansUp(i)' = CleansUp(i)
                /\ Guarded(i)' = Guarded(i) /\ Declared(i)' = Declared(i)
  BY <1>1, SameFile
<1>3. SinkFunctions \subseteq Nat /\ \A i \in SinkFunctions : ~(i <= 0)
  BY <1>1, SinkFacts
<1>4. CASE UNCHANGED <<judged, capabilities, findings>> /\ judged = 0 /\ phase' # "done"
           /\ capabilities = {} /\ findings = {}
  BY <1>2, <1>3, <1>4 DEF JudgeInv
<1>5. CASE Read
  <2>1. /\ UNCHANGED <<judged, capabilities, findings>> /\ judged = 0 /\ capabilities = {} /\ findings = {}
        /\ phase' = "done" => SinkFunctions = {}
    BY <1>5 DEF Read, JudgeInv
  <2>. QED  BY <1>2, <1>3, <2>1 DEF JudgeInv
<1>6. CASE NextClass \/ FollowMethod \/ StartLocals \/ FollowLocal \/ StartSinks
  BY <1>4, <1>6 DEF NextClass, FollowMethod, StartLocals, FollowLocal, StartSinks, JudgeInv
<1>7. CASE UNCHANGED <<sameClass, localCalls, judged, capabilities, findings, phase>>
  <2>1. \A i : Found(i)' = Found(i)
    BY <1>2, <1>7 DEF Found
  <2>. QED  BY <1>2, <1>7, <2>1 DEF JudgeInv
<1>8. CASE JudgeSink
  <2>1. PICK j, v : j = judged' /\ v = Verdict(j)
    OBVIOUS
  <2>2. /\ phase = "sinks" /\ UNCHANGED <<phase, sameClass, localCalls>>
        /\ \E i \in SinkFunctions : i > judged
        /\ j = First({i \in SinkFunctions : i > judged})
    BY <1>8, <2>1 DEF JudgeSink
  <2>3. PICK D : D <=> v.confidence = "none" \/ CleansUp(j)
    OBVIOUS
  <2>4. /\ capabilities' = IF D THEN capabilities
                              ELSE capabilities \cup {[function |-> j, confidence |-> v.confidence,
                                                       hops |-> v.hops, guarded |-> Guarded(j)]}
        /\ findings' = IF D \/ Guarded(j) THEN findings
                       ELSE findings \cup {[function |-> j, confidence |-> v.confidence,
                                            suppressed |-> Declared(j)]}
    <3>1. /\ Verdict(judged') = v /\ CleansUp(judged') = CleansUp(j)
          /\ Guarded(judged') = Guarded(j) /\ Declared(judged') = Declared(j)
      BY <2>1
    <3>. QED  BY <1>8, <2>1, <2>3, <3>1 DEF JudgeSink
  <2>5. j \in SinkFunctions /\ j \in Nat /\ \A i \in SinkFunctions : i > judged => j <= i
    <3>1. PICK S : S = {i \in SinkFunctions : i > judged}
      OBVIOUS
    <3>2. S \in SUBSET Nat /\ S # {} /\ j = First(S)
      BY <1>3, <2>2, <3>1
    <3>3. j \in S /\ \A i \in S : j <= i
      BY <3>2, FirstFacts
    <3>. QED  BY <1>3, <3>1, <3>3
  <2>6. \A i \in SinkFunctions : i <= j => i <= judged \/ i = j
    <3>1. judged \in Nat
      BY DEF JudgeInv
    <3>. QED  BY <1>3, <2>5, <3>1
  <2>7. \A i : Found(i)' = Found(i)
    BY <1>2, <2>2 DEF Found
  <2>8. ASSUME NEW i \in SinkFunctions, i <= j, Found(i), ~CleansUp(i)
        PROVE  \E x \in capabilities' : x.function = i
    <3>1. CASE i <= judged
      <4>1. \E x \in capabilities : x.function = i
        BY <2>8, <3>1 DEF JudgeInv
      <4>. QED  BY <2>4, <4>1
    <3>2. CASE i = j
      <4>1. ~D
        BY <2>1, <2>3, <2>8, <3>2, FoundIsJudged
      <4>2. PICK x : x = [function |-> j, confidence |-> v.confidence, hops |-> v.hops, guarded |-> Guarded(j)]
        OBVIOUS
      <4>3. x \in capabilities' /\ x.function = j
        BY <2>4, <4>1, <4>2
      <4>. QED  BY <3>2, <4>3
    <3>. QED  BY <2>6, <2>8, <3>1, <3>2
  <2>9. ASSUME NEW x \in capabilities', x.guarded PROVE Guarded(x.function)
    <3>1. x \in capabilities \/ (x.function = j /\ x.guarded = Guarded(j))
      BY <2>4
    <3>. QED  BY <2>9, <3>1 DEF JudgeInv
  <2>10. ASSUME NEW x \in findings', x.suppressed PROVE Declared(x.function)
    <3>1. x \in findings \/ (x.function = j /\ x.suppressed = Declared(j))
      BY <2>4
    <3>. QED  BY <2>10, <3>1 DEF JudgeInv
  <2>. QED  BY <1>2, <2>1, <2>2, <2>5, <2>7, <2>8, <2>9, <2>10 DEF JudgeInv
<1>9. CASE JudgeModule
  <2>1. /\ phase = "sinks" /\ \A i \in SinkFunctions : i <= judged
        /\ UNCHANGED <<sameClass, localCalls, judged>>
        /\ capabilities \subseteq capabilities' /\ phase' = "done"
        /\ \A x \in capabilities' : x \in capabilities \/ x.guarded = FALSE
        /\ \A x \in findings' : x \in findings \/ x.suppressed = FALSE
    BY <1>9 DEF JudgeModule
  <2>2. \A i : Found(i)' = Found(i)
    BY <1>2, <2>1 DEF Found
  <2>. QED  BY <1>2, <2>1, <2>2 DEF JudgeInv
<1>10. CASE UNCHANGED vars
  BY <1>7, <1>10 DEF vars, passVars
<1>11. CASE UNCHANGED passVars
  BY <1>7, <1>11 DEF passVars
<1>. QED  BY <1>5, <1>6, <1>8, <1>9, <1>10, <1>11, Steps DEF Scan

-----------------------------------------------------------------------------
(* Runs along calls the searches follow: the running function is in one of *)
(* those seen, found with no more hops than there were calls.              *)
Near(E, map, v, e) == At(E, map, v) <= hops /\ at \in Family(v) /\ (Fn(v).outer = 0 \/ v = e)
MethodRun(e, c) ==
    /\ SelfClass(e) = c /\ ways \subseteq {"nested", "method"} /\ (Fn(e).outer # 0 => "nested" \notin ways)
    => \E v \in Seen(c) : Near(EntryPoints(c), sameClass, v, e)
LocalRun(e) ==
    e \in TopLevel /\ file.followLocal /\ ways \subseteq {"nested", "local"}
    => \E v \in LocalSeen : Near(LocalEntries, localCalls, v, e)

RunInv ==
    /\ ~Over => at = 0
    /\ at # 0 => at \in Functions /\ entry \in Functions /\ hops \in Nat
    /\ at # 0 /\ Searched /\ Plain /\ ListsAreClear /\ hops <= MaxHops =>
         \A e \in Functions : e = entry /\ Offered(e) =>
           /\ \A c \in Classes : MethodRun(e, c)
           /\ LocalRun(e)

(* A call out of a function near one that was seen: into the same one, or  *)
(* to one the search found from there.                                     *)
LEMMA NearCall ==
    ASSUME file \in Files, at \in Functions, hops \in Nat,
           NEW E, NEW R, NEW map, NEW V, Open(E, R, map, V, <<>>),
           NEW e, NEW v \in V, Near(E, map, v, e),
           NEW call \in Fn(at).calls, NEW t, t = Target(at, call), t # 0,
           NEW h, h = hops + (IF Way(at, call) = "nested" THEN 0 ELSE 1), h <= MaxHops,
           Way(at, call) = "nested" => Fn(e).outer = 0,
           Way(at, call) # "nested" => t \in R[v]
    PROVE  \E w \in V : At(E, map, w) <= h /\ t \in Family(w) /\ (Fn(w).outer = 0 \/ w = e)
<1>1. t \in Functions /\ (Fn(t).outer # 0 => Fn(t).outer \in Enclosing(at))
  BY TargetFacts
<1>2. At(E, map, v) \in 0 .. MaxHops /\ v \in Functions
  BY DEF Open
<1>3. CASE Way(at, call) = "nested"
  <2>1. Fn(t).outer # 0
    BY <1>3 DEF Way
  <2>2. Outermost(t) = Outermost(at)
    BY <1>1, <2>1, FamilyFacts
  <2>3. Fn(v).outer = 0
    BY <1>3 DEF Near
  <2>4. Outermost(at) = v
    BY <1>2, <2>3, FamilyFacts DEF Near
  <2>5. t \in Family(v)
    BY <1>1, <2>2, <2>4, FamilyFacts
  <2>. QED  BY <1>3, <2>3, <2>5 DEF Near
<1>4. CASE Way(at, call) # "nested"
  <2>1. Fn(t).outer = 0
    BY <1>4 DEF Way
  <2>2. h = hops + 1 /\ At(E, map, v) <= hops /\ At(E, map, v) # MaxHops
    BY <1>2, <1>4 DEF Near, MaxHops
  <2>3. \A i \in 1 .. Len(<<>>) : FALSE
    OBVIOUS
  <2>4. R[v] \subseteq V /\ \A w \in R[v] : At(E, map, w) <= At(E, map, v) + 1
    BY <2>2, <2>3 DEF Open
  <2>5. t \in V /\ At(E, map, t) <= At(E, map, v) + 1
    BY <1>4, <2>4
  <2>6. At(E, map, t) \in 0 .. MaxHops
    BY <2>5 DEF Open
  <2>7. At(E, map, t) <= h
    BY <1>2, <2>2, <2>5, <2>6 DEF MaxHops
  <2>8. t \in Family(t)
    BY DEF Family
  <2>. QED  BY <2>1, <2>5, <2>7, <2>8
<1>. QED  BY <1>3, <1>4

LEMMA RunAtStart == Init => RunInv
<1>. SUFFICES ASSUME Init PROVE RunInv
  OBVIOUS
<1>1. at = 0
  BY DEF Init, RunInit
<1>. QED  BY <1>1 DEF RunInv

(* The agent's call of a registered function.                              *)
LEMMA InvokedIsSeen ==
    ASSUME file \in Files, Plain, ListsAreClear, NEW i \in Functions, Offered(i)
    PROVE  /\ \A c \in Classes : SelfClass(i) = c => i \in EntryPoints(c)
           /\ i \in TopLevel /\ file.followLocal => i \in LocalEntries
<1>1. Announced(i)
  BY OfferedIsAnnounced
<1>2. ASSUME NEW c \in Classes, SelfClass(i) = c PROVE i \in EntryPoints(c)
  <2>1. PICK o : o = Outermost(i)
    OBVIOUS
  <2>2. c # 0
    BY ClassesFacts
  <2>3. o \in Methods(c)
    BY <1>2, <2>1, <2>2, SelfClassFacts
  <2>4. o \in MethodMap(c)
    BY <2>3, PlainNames
  <2>5. i = o \/ i \in Nested(o)
    BY <2>1, FamilyFacts DEF Family
  <2>. QED  BY <1>1, <2>4, <2>5 DEF EntryPoints, Callers
<1>3. i \in TopLevel => i \in TopLevelMap
  BY PlainNames
<1>. QED  BY <1>1, <1>2, <1>3 DEF LocalEntries

LEMMA InFamily ==
    ASSUME NEW i
    PROVE  i \in Family(i)
BY DEF Family

(* Later, of the values there are now.                                     *)
LEMMA RunNext ==
    ASSUME file' = file, UNCHANGED <<sameClass, localCalls>>
    PROVE  /\ \A e, c : (SelfClass(e) = c /\ ways' \subseteq {"nested", "method"} /\ (Fn(e).outer # 0 => "nested" \notin ways')
                           => \E v \in Seen(c) : /\ At(EntryPoints(c), sameClass, v) <= hops' /\ at' \in Family(v)
                                                 /\ Fn(v).outer = 0 \/ v = e)
                        => MethodRun(e, c)'
           /\ \A e : (e \in TopLevel /\ file.followLocal /\ ways' \subseteq {"nested", "local"}
                        => \E v \in LocalSeen : /\ At(LocalEntries, localCalls, v) <= hops' /\ at' \in Family(v)
                                                /\ Fn(v).outer = 0 \/ v = e)
                     => LocalRun(e)'
<1>1. /\ \A c : EntryPoints(c)' = EntryPoints(c) /\ MethodMap(c)' = MethodMap(c)
      /\ LocalEntries' = LocalEntries /\ TopLevel' = TopLevel
      /\ \A i : Fn(i)' = Fn(i) /\ Family(i)' = Family(i) /\ SelfClass(i)' = SelfClass(i)
  BY SameFile, SameReach
<1>2. /\ \A c : Seen(c)' = Seen(c)
      /\ LocalSeen' = LocalSeen
  BY <1>1 DEF Seen, LocalSeen
<1>3. /\ \A c, v : At(EntryPoints(c), sameClass, v)' = At(EntryPoints(c), sameClass, v)
      /\ \A v : At(LocalEntries, localCalls, v)' = At(LocalEntries, localCalls, v)
  BY <1>1 DEF At
<1>4. ASSUME NEW e, NEW c,
             SelfClass(e) = c /\ ways' \subseteq {"nested", "method"} /\ (Fn(e).outer # 0 => "nested" \notin ways')
               => \E v \in Seen(c) : /\ At(EntryPoints(c), sameClass, v) <= hops' /\ at' \in Family(v)
                                     /\ Fn(v).outer = 0 \/ v = e
      PROVE  MethodRun(e, c)'
  BY <1>1, <1>2, <1>3, <1>4 DEF MethodRun, Near
<1>5. ASSUME NEW e,
             e \in TopLevel /\ file.followLocal /\ ways' \subseteq {"nested", "local"}
               => \E v \in LocalSeen : /\ At(LocalEntries, localCalls, v) <= hops' /\ at' \in Family(v)
                                       /\ Fn(v).outer = 0 \/ v = e
      PROVE  LocalRun(e)'
  BY <1>1, <1>2, <1>3, <1>5 DEF LocalRun, Near
<1>. QED  BY <1>4, <1>5

LEMMA RunCall ==
    ASSUME SearchInv, RunInv, Searched, Plain, ListsAreClear, file' = file, UNCHANGED <<sameClass, localCalls>>,
           NEW call, CallOut(call), hops' <= MaxHops,
           NEW e \in Functions, e = entry, Offered(e)
    PROVE  (\A c \in Classes : MethodRun(e, c)') /\ LocalRun(e)'
<1>1. PICK t, h : t = Target(at, call) /\ h = hops + (IF Way(at, call) = "nested" THEN 0 ELSE 1)
  OBVIOUS
<1>2. /\ at # 0 /\ call \in Fn(at).calls /\ t # 0 /\ at' = t /\ hops' = h
      /\ ways' = ways \cup {Way(at, call)} /\ h <= MaxHops
  BY <1>1 DEF CallOut
<1>3. at \in Functions /\ hops \in Nat /\ file \in Files
  BY <1>2 DEF RunInv, SearchInv
<1>4. hops <= MaxHops
  BY <1>1, <1>2, <1>3 DEF MaxHops
<1>5. (\A c \in Classes : MethodRun(e, c)) /\ LocalRun(e)
  BY <1>2, <1>4 DEF RunInv
<1>6. ASSUME NEW c \in Classes, SelfClass(e) = c, ways' \subseteq {"nested", "method"},
             Fn(e).outer # 0 => "nested" \notin ways'
      PROVE  \E v \in Seen(c) : /\ At(EntryPoints(c), sameClass, v) <= h /\ t \in Family(v)
                                /\ Fn(v).outer = 0 \/ v = e
  <2>1. PICK E, R, V : E = EntryPoints(c) /\ R = MethodReach(c) /\ V = Seen(c)
    OBVIOUS
  <2>2. Open(E, R, sameClass, V, <<>>)
    BY <2>1 DEF Searched, ClassDone
  <2>3. PICK v \in V : Near(E, sameClass, v, e)
    BY <1>2, <1>5, <1>6, <2>1 DEF MethodRun
  <2>4. Way(at, call) = "nested" => Fn(e).outer = 0
    BY <1>2, <1>6
  <2>5. Way(at, call) # "nested" => t \in R[v]
    <3>1. v \in Callers(c) /\ v \in Functions
      <4>1. v \in Callers(c)
        BY <1>3, <2>1, <2>3, MapFacts DEF Seen
      <4>. QED  BY <2>2, <2>3, <4>1 DEF Open
    <3>2. at \in Family(v)
      BY <2>3 DEF Near
    <3>3. SelfClass(at) = c
      BY <1>3, <3>1, <3>2, CallersFacts
    <3>4. Way(at, call) # "nested" => Way(at, call) = "method"
      BY <1>2, <1>6
    <3>5. Way(at, call) = "method" => t \in MethodsCalled(c, v)
      BY <1>1, <1>2, <1>3, <3>1, <3>2, <3>3, CalledIsMethod
    <3>. QED  BY <1>3, <2>1, <3>1, <3>4, <3>5, ReachFacts
  <2>6. \E w \in V : At(E, sameClass, w) <= h /\ t \in Family(w) /\ (Fn(w).outer = 0 \/ w = e)
    BY <1>1, <1>2, <1>3, <2>2, <2>3, <2>4, <2>5, NearCall
  <2>. QED  BY <2>1, <2>6
<1>7. ASSUME e \in TopLevel, file.followLocal, ways' \subseteq {"nested", "local"}
      PROVE  \E v \in LocalSeen : /\ At(LocalEntries, localCalls, v) <= h /\ t \in Family(v)
                                  /\ Fn(v).outer = 0 \/ v = e
  <2>1. PICK E, R, V : E = LocalEntries /\ R = LocalReach /\ V = LocalSeen
    OBVIOUS
  <2>2. Open(E, R, localCalls, V, <<>>)
    BY <2>1 DEF Searched, LocalDone
  <2>3. PICK v \in V : Near(E, localCalls, v, e)
    BY <1>2, <1>5, <1>7, <2>1 DEF LocalRun
  <2>4. Fn(e).outer = 0
    BY <1>7 DEF TopLevel
  <2>5. Way(at, call) # "nested" => t \in R[v]
    <3>1. v \in Functions
      BY <2>2, <2>3 DEF Open
    <3>2. at \in Family(v)
      BY <2>3 DEF Near
    <3>3. Way(at, call) # "nested" => Way(at, call) = "local"
      BY <1>2, <1>7
    <3>4. Way(at, call) = "local" => t \in LocalsCalled(v)
      BY <1>1, <1>2, <1>3, <3>1, <3>2, CalledIsLocal
    <3>. QED  BY <1>3, <2>1, <3>1, <3>3, <3>4, ReachFacts
  <2>6. \E w \in V : At(E, localCalls, w) <= h /\ t \in Family(w) /\ (Fn(w).outer = 0 \/ w = e)
    BY <1>1, <1>2, <1>3, <2>2, <2>3, <2>4, <2>5, NearCall
  <2>. QED  BY <2>1, <2>6
<1>. QED  BY <1>2, <1>6, <1>7, RunNext

LEMMA RunInvoke ==
    ASSUME SearchInv, Plain, ListsAreClear, file' = file, UNCHANGED <<sameClass, localCalls>>,
           NEW i \in Functions, Invoke(i), Offered(i)
    PROVE  (\A c \in Classes : MethodRun(i, c)') /\ LocalRun(i)'
<1>1. at' = i /\ hops' = 0 /\ file \in Files
  BY DEF Invoke, SearchInv
<1>2. /\ \A c \in Classes : SelfClass(i) = c => i \in EntryPoints(c)
      /\ i \in TopLevel /\ file.followLocal => i \in LocalEntries
      /\ i \in Family(i)
  BY <1>1, InvokedIsSeen, InFamily
<1>3. /\ \A c \in Classes : SelfClass(i) = c => i \in Seen(c) /\ At(EntryPoints(c), sameClass, i) <= 0
      /\ i \in TopLevel /\ file.followLocal => i \in LocalSeen /\ At(LocalEntries, localCalls, i) <= 0
  BY <1>2 DEF Seen, LocalSeen, At
<1>. QED  BY <1>1, <1>2, <1>3, RunNext

LEMMA RunHandOver ==
    ASSUME SearchInv, RunInv, Searched, Plain, ListsAreClear, file' = file, UNCHANGED <<sameClass, localCalls>>,
           NEW i \in Functions, NEW r, NEW is, HandOver(i, r, is), hops' <= MaxHops,
           NEW e \in Functions, e = entry, Offered(e)
    PROVE  (\A c \in Classes : MethodRun(e, c)') /\ LocalRun(e)'
<1>1. at # 0 /\ Fn(i).outer = at /\ at' = i /\ ways' = ways \cup {"nested"} /\ hops' = hops
  BY DEF HandOver
<1>2. (\A c \in Classes : MethodRun(e, c)) /\ LocalRun(e) /\ at \in Functions /\ file \in Files
  BY <1>1 DEF RunInv, SearchInv
<1>3. i \in Family(at)
  BY <1>1, <1>2, FamilyFacts
<1>4. ASSUME NEW v \in Functions, at \in Family(v) PROVE i \in Family(v)
  BY <1>2, <1>3, <1>4, FamilyFacts
<1>5. ASSUME NEW c \in Classes, SelfClass(e) = c, ways' \subseteq {"nested", "method"},
             Fn(e).outer # 0 => "nested" \notin ways'
      PROVE  \E v \in Seen(c) : /\ At(EntryPoints(c), sameClass, v) <= hops' /\ at' \in Family(v)
                                /\ Fn(v).outer = 0 \/ v = e
  <2>1. PICK v \in Seen(c) : Near(EntryPoints(c), sameClass, v, e)
    BY <1>1, <1>2, <1>5 DEF MethodRun
  <2>2. Seen(c) \subseteq Functions
    BY <1>2, ReachFacts DEF Seen
  <2>. QED  BY <1>1, <1>4, <2>1, <2>2 DEF Near
<1>6. ASSUME e \in TopLevel, file.followLocal, ways' \subseteq {"nested", "local"}
      PROVE  \E v \in LocalSeen : /\ At(LocalEntries, localCalls, v) <= hops' /\ at' \in Family(v)
                                  /\ Fn(v).outer = 0 \/ v = e
  <2>1. PICK v \in LocalSeen : Near(LocalEntries, localCalls, v, e)
    BY <1>1, <1>2, <1>6 DEF LocalRun
  <2>2. LocalSeen \subseteq Functions
    BY DEF Searched, LocalDone, Open
  <2>. QED  BY <1>1, <1>4, <2>1, <2>2 DEF Near
<1>. QED  BY <1>5, <1>6, RunNext

LEMMA RunTypes ==
    ASSUME SearchInv, RunInv, Run
    PROVE  (at # 0 => at \in Functions /\ entry \in Functions /\ hops \in Nat)'
<1>1. file \in Files /\ Functions' = Functions
  BY SameFile DEF SearchInv, Run
<1>2. ASSUME NEW i \in Functions, Invoke(i) PROVE (at # 0 => at \in Functions /\ entry \in Functions /\ hops \in Nat)'
  BY <1>1, <1>2 DEF Invoke
<1>3. ASSUME at # 0, NEW call \in Fn(at).calls, CallOut(call)
      PROVE  (at # 0 => at \in Functions /\ entry \in Functions /\ hops \in Nat)'
  <2>1. PICK t : t = Target(at, call)
    OBVIOUS
  <2>2. at' = t /\ entry' = entry /\ hops' = hops + (IF Way(at, call) = "nested" THEN 0 ELSE 1) /\ t # 0
    BY <1>3, <2>1 DEF CallOut
  <2>3. at \in Functions /\ entry \in Functions /\ hops \in Nat
    BY <1>3 DEF RunInv
  <2>4. t \in Functions
    BY <1>1, <1>3, <2>1, <2>2, <2>3, TargetFacts
  <2>. QED  BY <1>1, <2>2, <2>3, <2>4
<1>4. ASSUME NEW i \in Functions, NEW r, NEW is, HandOver(i, r, is)
      PROVE  (at # 0 => at \in Functions /\ entry \in Functions /\ hops \in Nat)'
  BY <1>1, <1>4 DEF HandOver, RunInv
<1>5. CASE Finish
  BY <1>5 DEF Finish
<1>. QED  BY <1>2, <1>3, <1>4, <1>5 DEF Run

LEMMA SearchedBefore ==
    ASSUME file' = file, UNCHANGED <<sameClass, localCalls>>, Searched'
    PROVE  Searched
<1>1. Functions' = Functions /\ Classes' = Classes
  BY SameFile
<1>2. ASSUME NEW c \in Classes PROVE ClassDone(c)
  <2>1. ClassDone(c)'
    BY <1>1 DEF Searched
  <2>2. EntryPoints(c)' = EntryPoints(c) /\ MethodReach(c)' = MethodReach(c) /\ Seen(c)' = Seen(c)
    BY SameFile, SameReach DEF Seen
  <2>. QED  BY <1>1, <2>1, <2>2 DEF ClassDone, Open, At, Entry
<1>3. LocalDone
  <2>1. LocalDone'
    BY DEF Searched
  <2>2. LocalEntries' = LocalEntries /\ LocalReach' = LocalReach /\ LocalSeen' = LocalSeen
    BY SameFile, SameReach DEF LocalSeen
  <2>. QED  BY <1>1, <2>1, <2>2 DEF LocalDone, Open, At, Entry
<1>. QED  BY <1>2, <1>3 DEF Searched

LEMMA RunStep == SearchInv /\ RunInv /\ [Next]_vars => RunInv'
<1>. SUFFICES ASSUME SearchInv, RunInv, [Next]_vars PROVE RunInv'
  OBVIOUS
<1>1. file' = file /\ file \in Files
  BY Steps DEF vars, SearchInv
<1>2. /\ Functions' = Functions /\ Classes' = Classes /\ Plain' = Plain /\ ListsAreClear' = ListsAreClear
      /\ \A i : Offered(i)' = Offered(i)
  BY <1>1, SameFile
<1>3. CASE ~Over /\ Scan /\ UNCHANGED runVars
  <2>1. at' = 0
    BY <1>3 DEF RunInv, runVars
  <2>. QED  BY <2>1 DEF RunInv
<1>4. CASE UNCHANGED passVars /\ Over /\ Run
  <2>1. UNCHANGED <<sameClass, localCalls, phase>>
    BY <1>4 DEF passVars
  <2>2. Over'
    BY <1>4, <2>1 DEF Over
  <2>3. (at # 0 => at \in Functions /\ entry \in Functions /\ hops \in Nat)'
    BY <1>4, RunTypes
  <2>4. Searched' => Searched
    BY <1>1, <2>1, SearchedBefore
  <2>5. ASSUME at' # 0, Searched, Plain, ListsAreClear, hops' <= MaxHops,
               NEW e \in Functions, e = entry', Offered(e)
        PROVE  (\A c \in Classes : MethodRun(e, c)') /\ LocalRun(e)'
    <3>1. ASSUME NEW i \in Functions, Invoke(i) PROVE (\A c \in Classes : MethodRun(e, c)') /\ LocalRun(e)'
      <4>1. i = e
        BY <2>5, <3>1 DEF Invoke
      <4>. QED  BY <1>1, <2>1, <2>5, <3>1, <4>1, RunInvoke
    <3>2. ASSUME NEW call, CallOut(call) PROVE (\A c \in Classes : MethodRun(e, c)') /\ LocalRun(e)'
      <4>1. e = entry
        BY <2>5, <3>2 DEF CallOut
      <4>. QED  BY <1>1, <2>1, <2>5, <3>2, <4>1, RunCall
    <3>3. ASSUME NEW i \in Functions, NEW r, NEW is, HandOver(i, r, is)
          PROVE  (\A c \in Classes : MethodRun(e, c)') /\ LocalRun(e)'
      <4>1. e = entry
        BY <2>5, <3>3 DEF HandOver
      <4>. QED  BY <1>1, <2>1, <2>5, <3>3, <4>1, RunHandOver
    <3>4. ~Finish
      BY <2>5 DEF Finish
    <3>. QED  BY <1>4, <3>1, <3>2, <3>3, <3>4 DEF Run
  <2>. QED  BY <1>2, <2>2, <2>3, <2>4, <2>5 DEF RunInv
<1>5. CASE UNCHANGED vars
  <2>1. UNCHANGED <<at, entry, hops, ways, sameClass, localCalls, phase>>
    BY <1>5 DEF vars, runVars, passVars
  <2>2. Searched' => Searched
    BY <1>1, <2>1, SearchedBefore
  <2>3. ASSUME NEW e, NEW c, MethodRun(e, c) PROVE MethodRun(e, c)'
    BY <1>1, <2>1, <2>3, RunNext DEF MethodRun, Near
  <2>4. ASSUME NEW e, LocalRun(e) PROVE LocalRun(e)'
    BY <1>1, <2>1, <2>4, RunNext DEF LocalRun, Near
  <2>5. Over' = Over
    BY <2>1 DEF Over
  <2>. QED  BY <1>2, <2>1, <2>2, <2>3, <2>4, <2>5 DEF RunInv
<1>. QED  BY <1>3, <1>4, <1>5, Steps

(* What runs is found, and what is found is reported.                      *)
LEMMA RunIsFound ==
    ASSUME SearchInv, RunInv, Searched, at \in Functions, Plain, ListsAreClear, Offered(entry), Followed
    PROVE  Found(at)
<1>1. file \in Files /\ at # 0
  <2>1. file \in Files
    BY DEF SearchInv
  <2>. QED  BY <2>1, OuterFacts
<1>2. PICK e : e = entry
  OBVIOUS
<1>3. e \in Functions /\ hops <= MaxHops
  BY <1>1, <1>2 DEF RunInv, Followed
<1>4. (\A c \in Classes : MethodRun(e, c)) /\ LocalRun(e)
  BY <1>1, <1>2, <1>3 DEF RunInv
<1>5. ASSUME NEW E, NEW map, NEW v \in Functions, v \in E \/ v \in DOMAIN map,
             \A k \in E : Announced(k), map \in {sameClass, localCalls}, Near(E, map, v, e)
      PROVE  Found(at)
  <2>1. at \in Family(v) /\ (Fn(v).outer = 0 \/ v = e)
    BY <1>5 DEF Near
  <2>2. Outermost(at) = Outermost(v)
    BY <1>1, <2>1, FamilyFacts
  <2>3. Fn(v).outer = 0
    BY <1>2, <2>1, <2>2 DEF Followed
  <2>4. Outermost(at) = v
    BY <1>1, <2>2, <2>3, FamilyFacts
  <2>. QED  BY <1>5, <2>4 DEF Found, High
<1>6. CASE SelfClass(entry) # 0 /\ ways \subseteq {"nested", "method"}
  <2>1. PICK c \in Classes : SelfClass(e) = c
    BY <1>1, <1>2, <1>3, <1>6, SelfClassFacts
  <2>2. Fn(e).outer # 0 => "nested" \notin ways
    BY <1>2 DEF Followed
  <2>3. PICK v \in Seen(c) : Near(EntryPoints(c), sameClass, v, e)
    BY <1>4, <1>6, <2>1, <2>2 DEF MethodRun
  <2>4. v \in Functions /\ (v \in EntryPoints(c) \/ v \in DOMAIN sameClass)
    BY <1>1, ReachFacts DEF Seen
  <2>5. \A k \in EntryPoints(c) : Announced(k)
    BY DEF EntryPoints
  <2>6. PICK E, map : E = EntryPoints(c) /\ map = sameClass
    OBVIOUS
  <2>. QED  BY <1>5, <2>3, <2>4, <2>5, <2>6
<1>7. CASE entry \in TopLevel /\ file.followLocal /\ ways \subseteq {"nested", "local"}
  <2>1. PICK v \in LocalSeen : Near(LocalEntries, localCalls, v, e)
    BY <1>2, <1>4, <1>7 DEF LocalRun
  <2>2. v \in Functions
    BY DEF Searched, LocalDone, Open
  <2>3. v \in LocalEntries \/ v \in DOMAIN localCalls
    BY DEF LocalSeen
  <2>4. \A k \in LocalEntries : Announced(k)
    BY DEF LocalEntries
  <2>5. PICK E, map : E = LocalEntries /\ map = localCalls
    OBVIOUS
  <2>. QED  BY <1>5, <2>1, <2>2, <2>3, <2>4, <2>5
<1>. QED  BY <1>6, <1>7 DEF Followed

LEMMA FoundIsReported == SearchInv /\ JudgeInv /\ RunInv => RunIsReported
<1>. SUFFICES ASSUME SearchInv, JudgeInv, RunInv,
                     Over, at \in SinkFunctions, Offered(entry), Followed,
                     Plain, ListsAreClear, ~CleansUp(at)
              PROVE  \E x \in capabilities : x.function = at
  BY DEF RunIsReported
<1>1. file \in Files
  BY DEF SearchInv
<1>2. at \in Functions /\ at # 0
  BY <1>1, SinkFacts, OuterFacts
<1>3. entry \in Functions
  BY <1>2 DEF RunInv
<1>4. Marked
  BY <1>1, <1>3, OfferedIsMarked
<1>5. phase = "done"
  BY <1>4 DEF Over, SearchInv
<1>6. Searched
  BY <1>5 DEF SearchInv
<1>7. Found(at)
  BY <1>2, <1>6, RunIsFound
<1>. QED  BY <1>5, <1>7 DEF JudgeInv

(* A class the pass takes for one with a declared guard has an ancestor    *)
(* that declares one, or is constructed with permissions.                  *)
Declares(a) == ClassOf(a).declares \/ ClassOf(a).name \in file.permitted
Inherits(x) == \/ x \in file.permitted
               \/ \E d \in Classes : ClassOf(d).name = x /\ \E a \in Ancestors(d) \ {0} : Declares(a)

LEMMA NamesFacts ==
    ASSUME file \in Files
    PROVE  /\ \A c \in Classes : ClassOf(c).name \in STRING /\ ClassOf(c).bases \in SUBSET STRING
           /\ file.permitted \in SUBSET STRING
<1>1. \A c \in Classes : ClassOf(c) \in Class
  BY FileFacts
<1>2. file \in File
  BY FilesAssumption DEF WellFormed
<1>. QED  BY <1>1, <1>2 DEF Class, File

LEMMA DeclaredFacts ==
    ASSUME file \in Files, Plain
    PROVE  \A x \in DeclaredClasses : Inherits(x)
<1>. DEFINE n == Len(file.classes)
            direct == {ClassOf(c).name : c \in {d \in Classes : ClassOf(d).declares}} \cup file.permitted
            more(S) == S \cup {ClassOf(c).name : c \in {d \in Classes : ClassOf(d).bases \cap S # {}}}
            T == SUBSET STRING
            step == [y \in (1 .. n) \X T |-> more(y[2])]
            grown == CHOOSE g : g = [k \in 0 .. n |-> IF k = 0 THEN direct ELSE more(g[k - 1])]
<1>1. n \in Nat
  BY ClassesFacts
<1>2. direct \in T
  BY NamesFacts
<1>3. \A S \in T : more(S) \in T
  BY NamesFacts
<1>4. step \in [(1 .. n) \X T -> T]
  BY <1>3
<1>. HIDE DEF direct, more, T, n
<1>5. PICK f \in [0 .. n -> T] : Recursion(f, direct, step, n)
  <2>. HIDE DEF step
  <2>. QED  BY <1>1, <1>2, <1>4, RecursionExists
<1>6. f[0] = direct /\ \A k \in 1 .. n : f[k] = more(f[k - 1])
  <2>1. \A k \in 1 .. n : <<k, f[k - 1]>> \in (1 .. n) \X T
    BY <1>1, <1>5
  <2>2. \A k \in 1 .. n : step[<<k, f[k - 1]>>] = more(f[k - 1])
    BY <2>1
  <2>. HIDE DEF step
  <2>. QED  BY <1>5, <2>2 DEF Recursion
<1>7. f = [k \in 0 .. n |-> IF k = 0 THEN direct ELSE more(f[k - 1])]
  <2>1. DOMAIN f = 0 .. n /\ f = [k \in 0 .. n |-> f[k]]
    BY <1>5
  <2>2. \A k \in 0 .. n : f[k] = IF k = 0 THEN direct ELSE more(f[k - 1])
    BY <1>1, <1>6
  <2>. QED  BY <2>1, <2>2
<1>8. grown = [k \in 0 .. n |-> IF k = 0 THEN direct ELSE more(grown[k - 1])]
  BY <1>7
<1>9. DeclaredClasses = grown[n]
  BY DEF DeclaredClasses, direct, more, n
<1>. HIDE DEF grown, step
<1>10. grown[0] = direct /\ \A k \in 0 .. n - 1 : grown[k + 1] = more(grown[k])
  <2>1. \A k \in 0 .. n : grown[k] = IF k = 0 THEN direct ELSE more(grown[k - 1])
    BY <1>8
  <2>2. \A k \in 0 .. n - 1 : k + 1 \in 0 .. n /\ k + 1 # 0 /\ (k + 1) - 1 = k
    BY <1>1
  <2>. QED  BY <1>1, <2>1, <2>2
<1>. DEFINE Good == {k \in 0 .. n : \A x \in grown[k] : Inherits(x)}
<1>11. 0 \in Good
  <2>1. ASSUME NEW c \in Classes, ClassOf(c).declares PROVE Inherits(ClassOf(c).name)
    <3>1. c \in Ancestors(c) /\ c # 0
      BY AncestorsFacts, ClassesFacts
    <3>. QED  BY <2>1, <3>1 DEF Inherits, Declares
  <2>2. \A x \in direct : Inherits(x)
    BY <2>1 DEF direct, Inherits
  <2>. QED  BY <1>1, <1>10, <2>2
<1>12. ASSUME NEW k \in 0 .. n - 1, k \in Good PROVE k + 1 \in Good
  <2>1. PICK S : S = grown[k]
    OBVIOUS
  <2>2. \A x \in S : Inherits(x)
    BY <1>12, <2>1
  <2>3. ASSUME NEW c \in Classes, ClassOf(c).bases \cap S # {} PROVE Inherits(ClassOf(c).name)
    <3>1. PICK x \in S : x \in ClassOf(c).bases
      BY <2>3
    <3>2. x \notin file.permitted
      BY <3>1 DEF Plain
    <3>3. PICK d \in Classes : ClassOf(d).name = x /\ \E a \in Ancestors(d) \ {0} : Declares(a)
      BY <2>2, <3>1, <3>2 DEF Inherits
    <3>4. d < c
      BY <3>1, <3>3 DEF Plain
    <3>5. d \in Bases(c)
      <4>1. c \in Nat /\ d \in Nat /\ d # 0
        BY ClassesFacts
      <4>2. d \in 1 .. c - 1
        BY <3>4, <4>1
      <4>. QED  BY <3>1, <3>3, <4>2 DEF Bases
    <3>6. Ancestors(d) \subseteq Ancestors(c)
      BY <3>5, AncestorsFacts
    <3>. QED  BY <3>3, <3>6 DEF Inherits
  <2>4. \A x \in more(S) : Inherits(x)
    BY <2>2, <2>3 DEF more
  <2>5. grown[k + 1] = more(S) /\ k + 1 \in 0 .. n
    BY <1>1, <1>10, <2>1
  <2>. QED  BY <2>4, <2>5
<1>13. n \in Good
  <2>. HIDE DEF Good
  <2>1. 0 .. n \subseteq Good
    BY <1>1, <1>11, <1>12, IntervalInduction
  <2>. QED  BY <1>1, <2>1
<1>. QED  BY <1>9, <1>13

LEMMA DeclaredAuthorizes ==
    ASSUME file \in Files, Plain, NEW i \in Functions, Declared(i)
    PROVE  \E k \in Enclosing(i) : Authorizes(k)
<1>1. CASE \E k \in Enclosing(i) \ {0} : "declared" \in Fn(k).decorators
  BY <1>1 DEF Authorizes
<1>2. CASE /\ SelfClass(i) # 0
           /\ ({ClassOf(SelfClass(i)).name} \cup ClassOf(SelfClass(i)).bases) \cap DeclaredClasses # {}
  <2>1. PICK c \in Classes : c = SelfClass(i)
    BY <1>2, SelfClassFacts
  <2>2. PICK x \in DeclaredClasses : x = ClassOf(c).name \/ x \in ClassOf(c).bases
    BY <1>2, <2>1
  <2>3. Inherits(x)
    BY <2>2, DeclaredFacts
  <2>4. c \in Nat /\ c # 0 /\ c \in Ancestors(c)
    BY ClassesFacts, AncestorsFacts
  <2>5. \E a \in Ancestors(c) \ {0} : Declares(a)
    <3>1. CASE x \in file.permitted
      <4>1. x = ClassOf(c).name
        BY <2>2, <3>1 DEF Plain
      <4>. QED  BY <2>4, <3>1, <4>1 DEF Declares
    <3>2. CASE x \notin file.permitted
      <4>1. PICK d \in Classes : ClassOf(d).name = x /\ \E a \in Ancestors(d) \ {0} : Declares(a)
        BY <2>3, <3>2 DEF Inherits
      <4>2. CASE x = ClassOf(c).name
        <5>1. d = c
          BY <4>1, <4>2 DEF Plain
        <5>. QED  BY <4>1, <5>1
      <4>3. CASE x \in ClassOf(c).bases
        <5>1. d < c
          BY <4>1, <4>3 DEF Plain
        <5>2. d \in Nat /\ d # 0
          BY ClassesFacts
        <5>3. d \in 1 .. c - 1
          BY <2>4, <5>1, <5>2
        <5>4. d \in Bases(c)
          BY <4>1, <4>3, <5>3 DEF Bases
        <5>5. Ancestors(d) \subseteq Ancestors(c)
          BY <5>4, AncestorsFacts
        <5>. QED  BY <4>1, <5>5
      <4>. QED  BY <2>2, <4>2, <4>3
    <3>. QED  BY <3>1, <3>2
  <2>6. Outermost(i) \in Enclosing(i) /\ Fn(Outermost(i)).class = c
    BY <2>1, EnclosingFacts DEF SelfClass
  <2>7. Authorizes(Outermost(i))
    BY <2>4, <2>5, <2>6 DEF Authorizes, Declares
  <2>. QED  BY <2>6, <2>7
<1>. QED  BY <1>1, <1>2 DEF Declared

-----------------------------------------------------------------------------
(* What has asked in a run that began outside of every other function: all *)
(* that authorizes around the running function, and what protects it.      *)
Told(i) == \A r \in Fn(i).handed : Cardinality(r) # 1 => "?" \notin r
AskedAt(i) == /\ \A k \in Enclosing(i) : Authorizes(k) => asked
              /\ Protected(i) /\ Told(i) => asked
AskedInv ==
    /\ at # 0 => at \in Functions
    /\ \A e, i \in Functions : at = i /\ entry = e /\ Fn(e).outer = 0 => AskedAt(i)

LEMMA AskedAtStart == Init => AskedInv
<1>. SUFFICES ASSUME Init PROVE AskedInv
  OBVIOUS
<1>1. at = 0 /\ file \in Files
  BY DEF Init, RunInit
<1>2. 0 \notin Functions
  BY <1>1, OuterFacts
<1>. QED  BY <1>1, <1>2 DEF AskedInv

(* A callback told of its one protector is handed to that.                 *)
LEMMA HandedToProtector ==
    ASSUME NEW i, Protected(i), Told(i), NEW r \in Fn(i).handed,
           NEW is \in IF r = {} THEN {"?"} ELSE r
    PROVE  is = Protector
<1>1. r \ {"?"} = {Protector}
  BY DEF Protected, RecordedClass
<1>2. Protector \in r /\ Protector # "?" /\ is \in r
  BY <1>1
<1>3. CASE "?" \in r
  <2>1. r = {Protector, "?"}
    BY <1>1, <1>3
  <2>2. Cardinality(r) # 1
    <3>1. IsFiniteSet({Protector}) /\ Cardinality({Protector}) = 1
      BY FS_Singleton
    <3>2. "?" \notin {Protector}
      BY <1>2
    <3>3. Cardinality({Protector} \cup {"?"}) = Cardinality({Protector}) + 1
      BY <3>1, <3>2, FS_AddElement
    <3>4. r = {Protector} \cup {"?"}
      BY <2>1
    <3>. QED  BY <3>1, <3>3, <3>4
  <2>. QED  BY <1>3, <2>2 DEF Told
<1>. QED  BY <1>1, <1>2, <1>3

LEMMA AskedNext ==
    ASSUME file' = file, NEW i,
           \A k \in Enclosing(i) : Authorizes(k) => asked',
           Protected(i) /\ Told(i) => asked'
    PROVE  AskedAt(i)'
<1>1. \A k : Enclosing(k)' = Enclosing(k) /\ Authorizes(k)' = Authorizes(k) /\ Protected(k)' = Protected(k)
               /\ Fn(k)' = Fn(k)
  BY SameFile
<1>2. Told(i)' = Told(i)
  BY <1>1 DEF Told
<1>. QED  BY <1>1, <1>2 DEF AskedAt

LEMMA AskedCall ==
    ASSUME file \in Files, file' = file, at \in Functions, AskedAt(at),
           NEW call, CallOut(call), NEW t, t = Target(at, call)
    PROVE  t \in Functions /\ AskedAt(t)'
<1>1. /\ call \in Fn(at).calls /\ t # 0 /\ asked' = (asked \/ Authorizes(t))
  BY DEF CallOut
<1>2. /\ t \in Functions /\ Fn(t).name = call.name
      /\ Fn(t).outer # 0 => call.how = "bare" /\ Fn(t).outer \in Enclosing(at)
  BY <1>1, TargetFacts
<1>3. CASE Fn(t).outer = 0
  <2>1. Enclosing(t) = {t}
    BY <1>2, <1>3, FamilyFacts
  <2>2. ~Protected(t)
    BY <1>3 DEF Protected
  <2>. QED  BY <1>1, <1>2, <2>1, <2>2, AskedNext
<1>4. CASE Fn(t).outer # 0
  <2>1. PICK o \in Enclosing(at) : o = Fn(t).outer
    BY <1>2, <1>4
  <2>2. Enclosing(o) \subseteq Enclosing(at) /\ Outermost(o) = Outermost(at)
    BY <2>1, EnclosingFacts, FamilyFacts
  <2>3. Enclosing(t) = {t} \cup Enclosing(o) /\ Outermost(t) = Outermost(o)
    BY <1>2, <1>4, <2>1, FamilyFacts
  <2>4. \A k \in Enclosing(t) : Authorizes(k) => asked'
    BY <1>1, <2>2, <2>3 DEF AskedAt
  <2>5. ~Protected(t)
    <3>1. at \in {Outermost(t)} \cup Nested(Outermost(t))
      BY <2>2, <2>3, FamilyFacts DEF Family
    <3>. QED  BY <1>1, <1>2, <1>4, <3>1 DEF Protected
  <2>. QED  BY <1>2, <2>4, <2>5, AskedNext
<1>. QED  BY <1>3, <1>4

LEMMA AskedHandOver ==
    ASSUME file \in Files, file' = file, at \in Functions, AskedAt(at),
           NEW i \in Functions, NEW r, NEW is, HandOver(i, r, is)
    PROVE  AskedAt(i)'
<1>1. /\ Fn(i).outer = at /\ at # 0 /\ r \in Fn(i).handed /\ is \in IF r = {} THEN {"?"} ELSE r
      /\ asked' = (asked \/ is = Protector \/ Authorizes(i))
  BY DEF HandOver
<1>2. Enclosing(i) = {i} \cup Enclosing(at)
  BY <1>1, FamilyFacts
<1>3. \A k \in Enclosing(i) : Authorizes(k) => asked'
  BY <1>1, <1>2 DEF AskedAt
<1>4. Protected(i) /\ Told(i) => is = Protector
  BY <1>1, HandedToProtector
<1>. QED  BY <1>1, <1>3, <1>4, AskedNext

LEMMA AskedInvoke ==
    ASSUME file \in Files, file' = file, NEW i \in Functions, Fn(i).outer = 0, Invoke(i)
    PROVE  AskedAt(i)'
<1>1. Enclosing(i) = {i} /\ asked' = Authorizes(i)
  BY FamilyFacts DEF Invoke
<1>2. ~Protected(i)
  BY DEF Protected
<1>. QED  BY <1>1, <1>2, AskedNext

LEMMA AskedStep == file \in Files /\ AskedInv /\ [Next]_vars => AskedInv'
<1>. SUFFICES ASSUME file \in Files, AskedInv, [Next]_vars PROVE AskedInv'
  OBVIOUS
<1>1. file' = file
  BY Steps DEF vars
<1>2. Functions' = Functions /\ \A i : Fn(i)' = Fn(i)
  BY <1>1, SameFile
<1>3. CASE UNCHANGED <<at, entry, asked>>
  <2>1. ASSUME NEW i, AskedAt(i) PROVE AskedAt(i)'
    BY <1>1, <1>3, <2>1, AskedNext DEF AskedAt
  <2>. QED  BY <1>2, <1>3, <2>1 DEF AskedInv
<1>4. ASSUME NEW i \in Functions, Invoke(i) PROVE AskedInv'
  <2>1. at' = i /\ entry' = i
    BY <1>4 DEF Invoke
  <2>2. Fn(i).outer = 0 => AskedAt(i)'
    BY <1>1, <1>4, AskedInvoke
  <2>. QED  BY <1>2, <2>1, <2>2 DEF AskedInv
<1>5. ASSUME NEW call, CallOut(call) PROVE AskedInv'
  <2>1. PICK t, a : t = Target(at, call) /\ a = at
    OBVIOUS
  <2>2. at' = t /\ entry' = entry /\ at \in Functions
    BY <1>5, <2>1 DEF CallOut, AskedInv
  <2>3. t \in Functions
    BY <1>5, <2>1, <2>2, TargetFacts DEF CallOut
  <2>4. ASSUME NEW e \in Functions, entry = e, Fn(e).outer = 0 PROVE AskedAt(t)'
    <3>1. AskedAt(a)
      BY <2>1, <2>2, <2>4 DEF AskedInv
    <3>2. AskedAt(at)
      BY <2>1, <3>1 DEF AskedAt
    <3>. QED  BY <1>1, <1>5, <2>1, <2>2, <3>2, AskedCall
  <2>. QED  BY <1>2, <2>2, <2>3, <2>4 DEF AskedInv
<1>6. ASSUME NEW i \in Functions, NEW r, NEW is, HandOver(i, r, is) PROVE AskedInv'
  <2>1. PICK a : a = at
    OBVIOUS
  <2>2. at' = i /\ entry' = entry /\ at \in Functions
    BY <1>6 DEF HandOver, AskedInv
  <2>3. ASSUME NEW e \in Functions, entry = e, Fn(e).outer = 0 PROVE AskedAt(i)'
    <3>1. AskedAt(a)
      BY <2>1, <2>2, <2>3 DEF AskedInv
    <3>2. AskedAt(at)
      BY <2>1, <3>1 DEF AskedAt
    <3>. QED  BY <1>1, <1>6, <2>2, <3>2, AskedHandOver
  <2>. QED  BY <1>2, <2>2, <2>3 DEF AskedInv
<1>7. CASE Finish
  <2>1. at' = 0 /\ 0 \notin Functions
    BY <1>7, OuterFacts DEF Finish
  <2>. QED  BY <1>2, <2>1 DEF AskedInv
<1>8. CASE Run
  BY <1>4, <1>5, <1>6, <1>7, <1>8 DEF Run
<1>9. CASE UNCHANGED vars \/ UNCHANGED runVars
  BY <1>3, <1>9 DEF vars, runVars
<1>. QED  BY <1>8, <1>9, Steps

LEMMA AskedIsEnough == SearchInv /\ JudgeInv /\ RunInv /\ AskedInv => GuardedRunsAsked
<1>. SUFFICES ASSUME SearchInv, JudgeInv, RunInv, AskedInv,
                     at \in SinkFunctions, Plain, Fn(entry).outer = 0, Told(at),
                     \/ \E x \in capabilities : x.function = at /\ x.guarded
                     \/ \E x \in findings : x.function = at /\ x.suppressed
              PROVE  asked
  BY DEF GuardedRunsAsked, Told
<1>1. file \in Files
  BY DEF SearchInv
<1>2. at \in Functions /\ at # 0
  BY <1>1, SinkFacts, OuterFacts
<1>3. AskedAt(at)
  <2>1. PICK e, i \in Functions : e = entry /\ i = at
    BY <1>2 DEF RunInv
  <2>2. AskedAt(i)
    BY <2>1 DEF AskedInv
  <2>. QED  BY <2>1, <2>2
<1>4. Outermost(at) \in Enclosing(at)
  BY <1>1, <1>2, EnclosingFacts
<1>5. CASE Guarded(at)
  <2>1. GuardDecorated(Outermost(at)) \/ ApprovalFlagged(Outermost(at)) => Authorizes(Outermost(at))
    BY DEF GuardDecorated, ApprovalFlagged, Authorizes
  <2>. QED  BY <1>3, <1>4, <1>5, <2>1 DEF Guarded, AskedAt
<1>6. CASE Declared(at)
  BY <1>1, <1>2, <1>3, <1>6, DeclaredAuthorizes DEF AskedAt
<1>. QED  BY <1>5, <1>6 DEF JudgeInv

-----------------------------------------------------------------------------
(* No sink an agent can run along the calls the searches follow goes       *)
(* unreported (reachability.py: detect_same_class_method_reachability,     *)
(* detect_module_level_reachability; engine.py: _reachability_markers).    *)
THEOREM RunsAreReported == Spec => []RunIsReported
<1>1. Init => SearchInv /\ JudgeInv /\ RunInv
  BY SearchAtStart, JudgeAtStart, RunAtStart
<1>2. SearchInv /\ JudgeInv /\ RunInv /\ [Next]_vars => SearchInv' /\ JudgeInv' /\ RunInv'
  BY SearchStep, JudgeStep, RunStep
<1>3. SearchInv /\ JudgeInv /\ RunInv => RunIsReported
  BY FoundIsReported
<1>. QED  BY <1>1, <1>2, <1>3, PTL DEF Spec

(* What is reported at some number of hops runs with that many calls: no   *)
(* chain is made up (reachability.py: ReachabilityResult, hops).           *)
THEOREM ReportsAreCalled == Spec => []ReportedIsCalled
<1>1. Init => SearchInv /\ RealInv
  BY SearchAtStart, RealAtStart
<1>2. SearchInv /\ RealInv /\ [Next]_vars => SearchInv' /\ RealInv'
  BY SearchStep, RealStep
<1>3. RealInv => ReportedIsCalled
  BY DEF RealInv, ReportedIsCalled
<1>. QED  BY <1>1, <1>2, <1>3, PTL DEF Spec

(* Where a sink said to be guarded, or suppressed for a declared guard,    *)
(* runs, an authorization was passed before (guards.py: check_guard;       *)
(* engine.py: _is_in_declarative_guarded_class).                           *)
THEOREM GuardsAreAsked == Spec => []GuardedRunsAsked
<1>1. Init => SearchInv /\ JudgeInv /\ RunInv /\ AskedInv
  BY SearchAtStart, JudgeAtStart, RunAtStart, AskedAtStart
<1>2. SearchInv /\ JudgeInv /\ RunInv /\ AskedInv /\ [Next]_vars
        => SearchInv' /\ JudgeInv' /\ RunInv' /\ AskedInv'
  <2>1. SearchInv => file \in Files
    BY DEF SearchInv
  <2>. QED  BY <2>1, SearchStep, JudgeStep, RunStep, AskedStep
<1>3. SearchInv /\ JudgeInv /\ RunInv /\ AskedInv => GuardedRunsAsked
  BY AskedIsEnough
<1>. QED  BY <1>1, <1>2, <1>3, PTL DEF Spec
=============================================================================
