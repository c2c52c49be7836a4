-------------------------- MODULE ScanCoverageProofs --------------------------
(***************************************************************************)
(* What ScanCoverage guarantees for every set of files, every command line *)
(* and every number of workers, whichever of them fail and whatever is     *)
(* deleted meanwhile: each Python file is scanned once, the layers miss no *)
(* chain of calls without saying so, no file has two verdicts, nothing is  *)
(* reported that was not asked for, and a clean exit code is earned.       *)
(***************************************************************************)
EXTENDS ScanCoverage, FiniteSetTheorems, TLAPS, WellFoundedInduction

-----------------------------------------------------------------------------
(* Numbers and sequences.                                                  *)

(* A set of natural numbers that is not empty has a least element.         *)
LEMMA LeastNat ==
    ASSUME NEW S \in SUBSET Nat, S # {}
    PROVE  \E m \in S : \A k \in S : m <= k
<1>. DEFINE R == {ss \in Nat \X Nat : ss[1] < ss[2]}
<1>1. IsWellFoundedOn(R, Nat)
  <2>1. R = OpToRel(<, Nat)
    BY DEF OpToRel
  <2>. QED  BY <2>1, NatLessThanWellFounded, Zenon
<1>2. PICK m \in S : \A k \in S : <<k, m>> \notin R
  <2>. HIDE DEF R
  <2>. QED  BY <1>1, WFMin, Zenon
<1>3. ASSUME NEW k \in S PROVE m <= k
  <2>1. <<k, m>> \notin R /\ k \in Nat /\ m \in Nat
    BY <1>2
  <2>. QED  BY <2>1
<1>. QED  BY <1>3

(* A set with 0, and with the successor of each of its numbers below n,    *)
(* has all numbers up to n.                                                *)
LEMMA IntervalInduction ==
    ASSUME NEW n \in Nat, NEW S, 0 \in S, \A k \in 0 .. n - 1 : k \in S => k + 1 \in S
    PROVE  0 .. n \subseteq S
<1>. SUFFICES ASSUME (0 .. n) \ S # {} PROVE FALSE
  OBVIOUS
<1>. DEFINE missing == (0 .. n) \ S
<1>1. missing \in SUBSET Nat /\ missing # {}
  OBVIOUS
<1>2. PICK m \in missing : \A k \in missing : m <= k
  <2>. HIDE DEF missing
  <2>. QED  BY <1>1, LeastNat
<1>3. m \in 0 .. n /\ m # 0 /\ m - 1 \in 0 .. n - 1 /\ (m - 1) + 1 = m
  BY <1>2
<1>4. m - 1 \in S
  BY <1>2, <1>3
<1>. QED  BY <1>2, <1>3, <1>4

(* A function of 0 .. n that is given by its first value and by how each   *)
(* value follows from the one before exists: recursive functions are       *)
(* defined by CHOOSE, and this is what there is to choose.                 *)
Recursion(f, a, step, n) ==
    f[0] = a /\ \A k \in 1 .. n : f[k] = step[<<k, f[k - 1]>>]

LEMMA RecursionExists ==
    ASSUME NEW n \in Nat, NEW T, NEW a \in T, NEW step \in [(1 .. n) \X T -> T]
    PROVE  \E f \in [0 .. n -> T] : Recursion(f, a, step, n)
<1>. DEFINE Starts(f) == f[0] = a
            Goes(f, m) == \A k \in 1 .. m : f[k] = step[<<k, f[k - 1]>>]
            Defined == {m \in 0 .. n : \E f \in [0 .. m -> T] : Starts(f) /\ Goes(f, m)}
<1>1. 0 \in Defined
  <2>. DEFINE g == [k \in 0 .. 0 |-> a]
  <2>1. g \in [0 .. 0 -> T] /\ Starts(g) /\ Goes(g, 0)
    OBVIOUS
  <2>2. 0 \in 0 .. n
    OBVIOUS
  <2>. HIDE DEF g, Starts, Goes
  <2>. QED  BY <2>1, <2>2
<1>2. ASSUME NEW m \in 0 .. n - 1, m \in Defined PROVE m + 1 \in Defined
  <2>1. PICK f \in [0 .. m -> T] : Starts(f) /\ Goes(f, m)
    BY <1>2
  <2>. DEFINE x == step[<<m + 1, f[m]>>]
              g == [k \in 0 .. m + 1 |-> IF k = m + 1 THEN x ELSE f[k]]
  <2>2. x \in T
    <3>1. m + 1 \in 1 .. n /\ f[m] \in T
      OBVIOUS
    <3>2. <<m + 1, f[m]>> \in (1 .. n) \X T
      BY <3>1
    <3>. QED  BY <3>2
  <2>. HIDE DEF x
  <2>3. \A k \in 0 .. m : g[k] = f[k]
    OBVIOUS
  <2>4. g[m + 1] = x
    OBVIOUS
  <2>5. g \in [0 .. m + 1 -> T]
    BY <2>2
  <2>. HIDE DEF g
  <2>6. Starts(g)
    BY <2>1, <2>3
  <2>7. ASSUME NEW k \in 1 .. m + 1 PROVE g[k] = step[<<k, g[k - 1]>>]
    <3>1. CASE k = m + 1
      <4>1. k - 1 = m /\ g[m] = f[m]
        BY <3>1, <2>3
      <4>. QED  BY <3>1, <4>1, <2>4 DEF x
    <3>2. CASE k # m + 1
      <4>1. k \in 1 .. m /\ k - 1 \in 0 .. m /\ k \in 0 .. m
        BY <3>2
      <4>. QED  BY <4>1, <2>1, <2>3
    <3>. QED  BY <3>1, <3>2
  <2>8. m + 1 \in 0 .. n
    OBVIOUS
  <2>. QED  BY <2>5, <2>6, <2>7, <2>8
<1>3. 0 .. n \subseteq Defined
  <2>. HIDE DEF Defined
  <2>. QED  BY <1>1, <1>2, IntervalInduction, Zenon
<1>4. n \in Defined
  BY <1>3
<1>5. PICK f \in [0 .. n -> T] : Starts(f) /\ Goes(f, n)
  BY <1>4
<1>. QED  BY <1>5 DEF Recursion

(* What is left of a sequence when its head is taken.                       *)
LEMMA TailInSeq ==
    ASSUME NEW S, NEW s \in Seq(S), s # <<>>
    PROVE  /\ Head(s) \in S
           /\ Tail(s) \in Seq(S)
           /\ Len(Tail(s)) = Len(s) - 1
           /\ Len(s) > 0
           /\ Head(s) = s[1]
           /\ \A i \in 1 .. Len(Tail(s)) : Tail(s)[i] = s[i + 1]
OBVIOUS

(* A sequence with one more element.                                       *)
LEMMA AppendInSeq ==
    ASSUME NEW S, NEW s \in Seq(S), NEW x \in S
    PROVE  /\ Append(s, x) \in Seq(S)
           /\ Len(Append(s, x)) = Len(s) + 1
           /\ \A i \in 1 .. Len(s) : Append(s, x)[i] = s[i]
           /\ Append(s, x)[Len(s) + 1] = x
OBVIOUS

(* Counting by rows of n: the number in column i of row k, and the rows    *)
(* that there are up to the number a.                                      *)
Slot(k, n, i) == (k - 1) * n + i

Rows(a, n) == 1 .. (a \div n) + 1

LEMMA RowInRange ==
    ASSUME NEW n \in Nat \ {0}, NEW i \in Nat \ {0}, NEW L \in Nat, i <= L,
           NEW k \in Rows(L - i, n)
    PROVE  Slot(k, n, i) \in 1 .. L /\ k \in Nat \ {0}
<1>. DEFINE a == L - i
<1>0. a \in Nat /\ L = a + i
  OBVIOUS
<1>. HIDE DEF a
<1>9. k \in 1 .. (a \div n) + 1
  BY DEF Rows, a
<1>1. n * (a \div n) <= a /\ a \div n \in Nat
  BY <1>0
<1>. DEFINE d == a \div n
            r == k - 1
<1>2. d \in Nat /\ r \in Nat /\ r <= d /\ n * d <= a /\ k = r + 1
  BY <1>1, <1>9
<1>. HIDE DEF d, r
<1>3. r * n <= n * d /\ r * n \in Nat
  BY <1>2
<1>4. (k - 1) * n = r * n
  BY <1>2
<1>5. (k - 1) * n + i \in 1 .. L /\ k \in Nat \ {0}
  BY <1>0, <1>2, <1>3, <1>4
<1>. QED  BY <1>5 DEF Slot

LEMMA RowsDiffer ==
    ASSUME NEW n \in Nat \ {0}, NEW i \in 1 .. n, NEW j \in 1 .. n,
           NEW k \in Nat \ {0}, NEW h \in Nat \ {0}, Slot(k, n, i) = Slot(h, n, j)
    PROVE  i = j /\ k = h
<1>. DEFINE a == k - 1
            b == h - 1
            c == i - 1
            d == j - 1
<1>1. a \in Nat /\ b \in Nat /\ c \in Nat /\ d \in Nat /\ c < n /\ d < n
  OBVIOUS
<1>2. i = c + 1 /\ j = d + 1 /\ k = a + 1 /\ h = b + 1
  OBVIOUS
<1>3. a * n + (c + 1) = b * n + (d + 1)
  BY <1>2 DEF Slot
<1>. HIDE DEF a, b, c, d
<1>4. a * n \in Nat /\ b * n \in Nat
  BY <1>1
<1>5. a * n + c = b * n + d
  BY <1>1, <1>3, <1>4
<1>6. c = d /\ a = b
  BY <1>1, <1>5
<1>. QED  BY <1>2, <1>6

LEMMA RowOfNumber ==
    ASSUME NEW n \in Nat \ {0}, NEW L \in Nat, NEW x \in 1 .. L
    PROVE  \E i \in 1 .. n : /\ i \in 1 .. L
                             /\ \E k \in Rows(L - i, n) : Slot(k, n, i) = x
<1>. DEFINE i == ((x - 1) % n) + 1
            q == (x - 1) \div n
            r == (L - i) \div n
<1>1. x - 1 \in Nat /\ x - 1 = n * q + ((x - 1) % n) /\ (x - 1) % n \in 0 .. n - 1 /\ q \in Nat
  <2>. DEFINE y == x - 1
  <2>1. y \in Nat
    OBVIOUS
  <2>. HIDE DEF y
  <2>2. y = n * (y \div n) + (y % n) /\ y % n \in 0 .. n - 1 /\ y \div n \in Nat
    BY <2>1
  <2>. QED  BY <2>1, <2>2 DEF y
<1>2. i \in 1 .. n /\ (x - 1) % n = i - 1
  BY <1>1
<1>. HIDE DEF i, q
<1>3. x - 1 = n * q + (i - 1) /\ n * q \in Nat /\ q * n = n * q
  BY <1>1, <1>2
<1>4. i <= x /\ L - i \in Nat /\ n * q <= L - i /\ q * n + i = x
  BY <1>2, <1>3
<1>5. r \in Nat /\ L - i < n * r + n
  <2>. DEFINE y == L - i
  <2>1. y \in Nat
    BY <1>4
  <2>. HIDE DEF y
  <2>2. y < n * (y \div n) + n /\ y \div n \in Nat
    BY <2>1
  <2>. QED  BY <2>2 DEF y
<1>. HIDE DEF r
<1>6. q <= r
  <2>1. n * r \in Nat /\ n * q < n * r + n
    BY <1>2, <1>3, <1>4, <1>5
  <2>2. n * q < n * (r + 1)
    BY <1>5, <2>1
  <2>. QED  BY <1>1, <1>5, <2>2
<1>7. q + 1 \in 1 .. r + 1 /\ ((q + 1) - 1) * n + i = x
  <2>1. (q + 1) - 1 = q
    BY <1>1
  <2>. QED  BY <1>1, <1>4, <1>5, <1>6, <2>1
<1>8. i \in 1 .. L
  BY <1>2, <1>4
<1>. QED  BY <1>2, <1>7, <1>8 DEF r, Rows, Slot

(* The elements of a sequence, and a sequence that has none of them twice. *)
Elements(s) == {s[i] : i \in DOMAIN s}

Distinct(s) == \A i, j \in DOMAIN s : s[i] = s[j] => i = j

(* What Kept leaves out is not in A, and nothing gets into it twice.       *)
LEMMA KeptFacts ==
    ASSUME NEW T, NEW s \in Seq(T), NEW A
    PROVE  /\ Kept(s, A) \in Seq(T)
           /\ Elements(Kept(s, A)) = Elements(s) \cap A
           /\ Distinct(s) => Distinct(Kept(s, A))
<1>. DEFINE n == Len(s)
            Next1(t, k) == IF s[k] \in A THEN Append(t, s[k]) ELSE t
            Step(f, k) == IF k = 0 THEN <<>> ELSE Next1(f[k - 1], k)
            kept == CHOOSE f : f = [k \in 0 .. n |-> Step(f, k)]
<1>1. n \in Nat /\ DOMAIN s = 1 .. n /\ \A k \in 1 .. n : s[k] \in T
  OBVIOUS
<1>2. Kept(s, A) = kept[n]
  BY DEF Kept
<1>3. \E f : f = [k \in 0 .. n |-> Step(f, k)]
  <2>. DEFINE step == [p \in (1 .. n) \X Seq(T) |-> Next1(p[2], p[1])]
  <2>1. step \in [(1 .. n) \X Seq(T) -> Seq(T)]
    BY <1>1
  <2>2. <<>> \in Seq(T)
    OBVIOUS
  <2>3. \A k \in 1 .. n : \A t \in Seq(T) : step[<<k, t>>] = Next1(t, k)
    OBVIOUS
  <2>. HIDE DEF step, n, Next1
  <2>4. PICK f \in [0 .. n -> Seq(T)] :
           f[0] = <<>> /\ \A k \in 1 .. n : f[k] = step[<<k, f[k - 1]>>]
    <3>. DEFINE V == Seq(T)
                a == <<>>
    <3>1. n \in Nat /\ a \in V /\ step \in [(1 .. n) \X V -> V]
      BY <1>1, <2>1, <2>2
    <3>. HIDE DEF V, a
    <3>2. \E f \in [0 .. n -> V] : Recursion(f, a, step, n)
      BY <3>1, RecursionExists, Zenon
    <3>. QED  BY <3>2 DEF V, a, Recursion
  <2>5. ASSUME NEW k \in 0 .. n PROVE f[k] = Step(f, k)
    <3>1. CASE k = 0
      BY <2>4, <3>1
    <3>2. CASE k # 0
      <4>1. k \in 1 .. n /\ k - 1 \in 0 .. n
        BY <1>1, <3>2
      <4>. QED  BY <3>2, <4>1, <2>3, <2>4
    <3>. QED  BY <3>1, <3>2
  <2>. HIDE DEF Step
  <2>6. f = [k \in 0 .. n |-> Step(f, k)]
    BY <2>5
  <2>. QED  BY <2>6
<1>. HIDE DEF n, Next1
<1>4. kept = [k \in 0 .. n |-> Step(kept, k)]
  <2>. HIDE DEF Step
  <2>. QED  BY <1>3
<1>. HIDE DEF kept
<1>5. kept[0] = <<>> /\ \A k \in 0 .. n - 1 : kept[k + 1] = Next1(kept[k], k + 1)
  <2>1. \A k \in 0 .. n : kept[k] = Step(kept, k)
    BY <1>4
  <2>2. \A k \in 0 .. n - 1 : k + 1 \in 0 .. n /\ k + 1 # 0 /\ (k + 1) - 1 = k
    BY <1>1
  <2>. QED  BY <1>1, <2>1, <2>2
<1>. DEFINE Good == {k \in 0 .. n :
                 /\ kept[k] \in Seq(T)
                 /\ Elements(kept[k]) = {s[i] : i \in 1 .. k} \cap A
                 /\ Distinct(s) => Distinct(kept[k])}
<1>6. 0 \in Good
  <2>1. kept[0] = <<>> /\ DOMAIN kept[0] = {}
    BY <1>5
  <2>2. Elements(kept[0]) = {} /\ Distinct(kept[0])
    BY <2>1 DEF Elements, Distinct
  <2>3. {s[i] : i \in 1 .. 0} = {}
    OBVIOUS
  <2>4. 0 \in 0 .. n /\ kept[0] \in Seq(T)
    BY <1>1, <2>1
  <2>. QED  BY <2>2, <2>3, <2>4
<1>7. ASSUME NEW k \in 0 .. n - 1, k \in Good PROVE k + 1 \in Good
  <2>. DEFINE t == kept[k]
              u == kept[k + 1]
              x == s[k + 1]
  <2>1. /\ t \in Seq(T) /\ Elements(t) = {s[i] : i \in 1 .. k} \cap A
        /\ Distinct(s) => Distinct(t)
        /\ k + 1 \in 1 .. n /\ k + 1 \in 0 .. n /\ x \in T
    BY <1>1, <1>7
  <2>2. u = IF x \in A THEN Append(t, x) ELSE t
    BY <1>5 DEF Next1
  <2>3. {s[i] : i \in 1 .. k + 1} = {s[i] : i \in 1 .. k} \cup {x}
    OBVIOUS
  <2>. HIDE DEF t, u
  <2>4. CASE x \notin A
    BY <2>1, <2>2, <2>3, <2>4 DEF u
  <2>5. CASE x \in A
    <3>1. /\ u \in Seq(T) /\ Len(t) \in Nat
          /\ DOMAIN t = 1 .. Len(t)
          /\ DOMAIN u = (1 .. Len(t)) \cup {Len(t) + 1}
          /\ \A i \in 1 .. Len(t) : u[i] = t[i]
          /\ u[Len(t) + 1] = x
      <4>1. u = Append(t, x)
        BY <2>2, <2>5
      <4>. QED  BY <2>1, <4>1, AppendInSeq
    <3>2. Elements(u) = Elements(t) \cup {x}
      BY <3>1 DEF Elements
    <3>3. ASSUME Distinct(s) PROVE Distinct(u)
      <4>1. \A i \in 1 .. k : s[i] # x
        <5>1. \A i \in 1 .. k : i \in 1 .. n /\ i # k + 1
          BY <1>1
        <5>. QED  BY <1>1, <2>1, <3>3, <5>1 DEF Distinct
      <4>2. x \notin Elements(t)
        BY <2>1, <4>1
      <4>3. Distinct(t)
        BY <2>1, <3>3
      <4>. QED  BY <3>1, <4>2, <4>3 DEF Distinct, Elements
    <3>. QED  BY <2>1, <2>3, <2>5, <3>1, <3>2, <3>3 DEF u
  <2>. QED  BY <2>4, <2>5
<1>8. n \in Good
  <2>. HIDE DEF Good
  <2>1. 0 .. n \subseteq Good
    BY <1>1, <1>6, <1>7, IntervalInduction, Zenon
  <2>. QED  BY <1>1, <2>1
<1>9. Elements(s) = {s[i] : i \in 1 .. n}
  BY <1>1 DEF Elements
<1>. QED  BY <1>2, <1>8, <1>9

-----------------------------------------------------------------------------
FilesIn(s) == {s[i] : i \in DOMAIN s}

FilesOf(o) == {o[i].file : i \in DOMAIN o}

(* No file is listed twice, no file has two outcomes. *)
OneEach(o) == \A i, j \in DOMAIN o : o[i].file = o[j].file => i = j

(* The Python files to scan, before any of them was deleted.               *)
PythonTargets ==
    IF listed THEN Of(explicit, {"python"})
    ELSE IF request.kind = "file" THEN Of(request.files, {"python"})
    ELSE Of(request.files, {"python"})
             \ (UserExcluded \cup DefaultPatterns(IncludeFixtures))

(* What OnlyWhatWasAsked says of a file with an outcome.                   *)
Asked(f) ==
    /\ f \in request.files
    /\ f \in UserExcluded => request.kind \in {"file", "paths"}
    /\ request.kind = "changed" => f \in ChangedFiles

(* An outcome is an error where the analysis fails, and nowhere else but   *)
(* at a file that has gone.                                                *)
Honest(o) ==
    /\ o.file \in Broken => o.error
    /\ o.error => o.file \in Broken \cup deleted

(* The languages whose passes have begun, as far as the result shows.      *)
Passed ==
    IF phase \in {"plan", "start", "pool"} THEN {}
    ELSE IF phase \in {"serial", "typescript", "typescript-pool"} THEN {"python"}
    ELSE IF phase = "go" THEN {"python", "ts", "mts"}
    ELSE Languages

(* The files of a shard: to scan, and scanned.                             *)
Held(s) == FilesIn(s.todo) \cup FilesOf(s.outcomes)

Sound(s) ==
    /\ Distinct(s.todo)
    /\ OneEach(s.outcomes)
    /\ FilesIn(s.todo) \cap FilesOf(s.outcomes) = {}
    /\ \A k \in DOMAIN s.outcomes : Honest(s.outcomes[k])
    /\ Held(s) \subseteq PythonTargets
    /\ s.state = "done" => s.todo = <<>>

(* The inductive invariant: what the plan fixed; what the result holds so  *)
(* far, and of which languages; and, while Python files are scanned, that  *)
(* each is still to scan or has its outcome, in one place.                 *)
PlanInv ==
    /\ phase # "exited" => exit = -1
    /\ listed =>
         /\ request.kind \in {"changed", "paths"}
         /\ \A f \in explicit : Asked(f)
    /\ phase \notin {"plan", "exited"} /\ ~listed => request.kind \in {"tree", "file"}
    /\ phase = "pool" => ~listed /\ request.kind # "file"

OutcomesInv ==
    /\ OneEach(outcomes)
    /\ \A i \in DOMAIN outcomes :
         /\ Honest(outcomes[i])
         /\ Asked(outcomes[i].file)
         /\ Language[outcomes[i].file] \in Passed \ NoAnalyser

UnsupportedInv == \A f \in unsupported : Language[f] \in NoAnalyser

SerialInv ==
    phase = "serial" =>
        /\ Distinct(todo)
        /\ FilesIn(todo) \subseteq PythonTargets
        /\ FilesIn(todo) \cap FilesOf(outcomes) = {}
        /\ PythonTargets \ deleted \subseteq FilesIn(todo) \cup FilesOf(outcomes)

PoolInv ==
    phase = "pool" =>
        /\ \A i \in DOMAIN pool : Sound(pool[i])
        /\ \A i, j \in DOMAIN pool : i # j => Held(pool[i]) \cap Held(pool[j]) = {}
        /\ \A f \in PythonTargets \ deleted : \E i \in DOMAIN pool : f \in Held(pool[i])

CoverInv ==
    /\ phase \in {"typescript", "typescript-pool", "go", "repository", "cross-language",
                  "report"} =>
          PythonTargets \ deleted \subseteq FilesOf(outcomes)
    /\ phase \in {"go", "repository", "cross-language"} =>
          TypeScriptFiles \subseteq FilesOf(outcomes)
    /\ phase \in {"repository", "cross-language"} => GoFiles \subseteq FilesOf(outcomes)

ExitInv ==
    phase = "exited" /\ exit = 0 /\ ~notice =>
        /\ PythonTargets \ deleted \subseteq FilesOf(outcomes)
        /\ Reported = {}

ScanInv ==
    /\ PlanInv /\ OutcomesInv /\ UnsupportedInv
    /\ SerialInv /\ PoolInv /\ CoverInv /\ ExitInv

(* The layers: what they report is of files of the scan; and what they     *)
(* have followed, the first of them the chains of Python files.            *)
LayerInv ==
    /\ reached \subseteq FilesOf(outcomes)
    /\ phase \notin {"cross-language", "report", "exited"} => reached = {} /\ ~layered
    /\ layered => LayersOn /\ request.kind # "file"
    /\ phase = "cross-language" /\ LayersOn /\ request.kind # "file" /\ ~layerFailed =>
          SinksWithin((PythonTargets \ deleted) \ Broken) \subseteq reached
    /\ phase \in {"report", "exited"} /\ layered /\ ~layerFailed =>
          SinksWithin(Readable) \subseteq reached

-----------------------------------------------------------------------------
(* Listings, and outcomes one after the other.                             *)

(* A walk lists every file of its set once. *)
LEMMA ListingFacts ==
    ASSUME NEW S \in SUBSET Files, NEW l \in Listings(S)
    PROVE  /\ l \in Seq(S) /\ l \in Seq(Files)
           /\ DOMAIN l = 1 .. Len(l)
           /\ FilesIn(l) = S
           /\ Distinct(l)
<1>. DEFINE n == Cardinality(S)
<1>1. IsFiniteSet(S) /\ n \in Nat
  BY CoverageAssumption, FS_Subset, FS_CardinalityType
<1>2. l \in [1 .. n -> S] /\ \A i, j \in DOMAIN l : i # j => l[i] # l[j]
  BY DEF Listings
<1>. HIDE DEF n
<1>3. l \in Seq(S) /\ l \in Seq(Files) /\ DOMAIN l = 1 .. Len(l) /\ Len(l) = n
  BY <1>1, <1>2
<1>4. l \in Injection(1 .. n, S)
  BY <1>2 DEF Injection, IsInjective
<1>5. IsFiniteSet(1 .. n) /\ Cardinality(1 .. n) = n
  <2>1. 1 \in Int /\ n \in Int /\ (1 > n => n = 0)
    BY <1>1
  <2>. QED  BY <1>1, <2>1, FS_Interval
<1>6. l \in Surjection(1 .. n, S)
  BY <1>1, <1>4, <1>5, FS_Injection DEF n
<1>7. FilesIn(l) = S
  BY <1>2, <1>6 DEF Surjection, FilesIn
<1>. QED  BY <1>2, <1>3, <1>7 DEF Distinct

LEMMA AppendOutcome ==
    ASSUME NEW o \in Seq(Outcome), NEW x \in Outcome
    PROVE  /\ Append(o, x) \in Seq(Outcome)
           /\ FilesOf(Append(o, x)) = FilesOf(o) \cup {x.file}
           /\ \A i \in DOMAIN Append(o, x) :
                 Append(o, x)[i] = x \/ \E k \in DOMAIN o : Append(o, x)[i] = o[k]
           /\ OneEach(o) /\ x.file \notin FilesOf(o) => OneEach(Append(o, x))
<1>. DEFINE a == Append(o, x)
<1>1. /\ a \in Seq(Outcome) /\ Len(o) \in Nat
      /\ DOMAIN o = 1 .. Len(o)
      /\ DOMAIN a = (1 .. Len(o)) \cup {Len(o) + 1}
      /\ \A i \in 1 .. Len(o) : a[i] = o[i]
      /\ a[Len(o) + 1] = x
  BY AppendInSeq
<1>. HIDE DEF a
<1>2. FilesOf(a) = FilesOf(o) \cup {x.file}
  BY <1>1 DEF FilesOf
<1>3. \A i \in DOMAIN a : a[i] = x \/ \E k \in DOMAIN o : a[i] = o[k]
  BY <1>1
<1>4. ASSUME OneEach(o), x.file \notin FilesOf(o) PROVE OneEach(a)
  BY <1>1, <1>4 DEF OneEach, FilesOf
<1>. QED  BY <1>1, <1>2, <1>3, <1>4 DEF a

LEMMA ConcatOutcomes ==
    ASSUME NEW o \in Seq(Outcome), NEW p \in Seq(Outcome)
    PROVE  /\ o \o p \in Seq(Outcome)
           /\ FilesOf(o \o p) = FilesOf(o) \cup FilesOf(p)
           /\ \A i \in DOMAIN (o \o p) :
                 \/ \E k \in DOMAIN o : (o \o p)[i] = o[k]
                 \/ \E k \in DOMAIN p : (o \o p)[i] = p[k]
           /\ OneEach(o) /\ OneEach(p) /\ FilesOf(o) \cap FilesOf(p) = {} => OneEach(o \o p)
<1>. DEFINE c == o \o p
<1>1. /\ c \in Seq(Outcome) /\ Len(o) \in Nat /\ Len(p) \in Nat
      /\ DOMAIN o = 1 .. Len(o) /\ DOMAIN p = 1 .. Len(p)
      /\ DOMAIN c = 1 .. Len(o) + Len(p)
      /\ \A i \in 1 .. Len(o) : c[i] = o[i]
      /\ \A i \in 1 .. Len(p) : c[Len(o) + i] = p[i]
  OBVIOUS
<1>. HIDE DEF c
<1>2. ASSUME NEW i \in DOMAIN c
      PROVE  \/ i \in DOMAIN o /\ c[i] = o[i]
             \/ i - Len(o) \in DOMAIN p /\ c[i] = p[i - Len(o)]
  <2>1. CASE i <= Len(o)
    BY <1>1, <2>1
  <2>2. CASE ~(i <= Len(o))
    <3>1. i - Len(o) \in 1 .. Len(p) /\ i = Len(o) + (i - Len(o))
      BY <1>1, <2>2
    <3>. QED  BY <1>1, <3>1
  <2>. QED  BY <2>1, <2>2
<1>3. FilesOf(c) = FilesOf(o) \cup FilesOf(p)
  <2>1. \A i \in DOMAIN o : i \in DOMAIN c /\ c[i] = o[i]
    BY <1>1
  <2>2. \A i \in DOMAIN p : Len(o) + i \in DOMAIN c /\ c[Len(o) + i] = p[i]
    BY <1>1
  <2>3. \A i \in DOMAIN o : o[i].file \in FilesOf(c)
    BY <2>1 DEF FilesOf
  <2>4. \A i \in DOMAIN p : p[i].file \in FilesOf(c)
    BY <2>2 DEF FilesOf
  <2>. QED  BY <1>2, <2>3, <2>4 DEF FilesOf
<1>4. ASSUME OneEach(o), OneEach(p), FilesOf(o) \cap FilesOf(p) = {} PROVE OneEach(c)
  <2>. SUFFICES ASSUME NEW i \in DOMAIN c, NEW j \in DOMAIN c, c[i].file = c[j].file
                PROVE  i = j
    BY DEF OneEach
  <2>1. CASE i \in DOMAIN o /\ c[i] = o[i] /\ j \in DOMAIN o /\ c[j] = o[j]
    BY <1>4, <2>1 DEF OneEach
  <2>2. CASE /\ i - Len(o) \in DOMAIN p /\ c[i] = p[i - Len(o)]
             /\ j - Len(o) \in DOMAIN p /\ c[j] = p[j - Len(o)]
    <3>1. i - Len(o) = j - Len(o) /\ i \in Int /\ j \in Int
      BY <1>1, <1>4, <2>2 DEF OneEach
    <3>. QED  BY <1>1, <3>1
  <2>3. ~(/\ c[i].file \in FilesOf(o) /\ c[j].file \in FilesOf(p))
        /\ ~(/\ c[j].file \in FilesOf(o) /\ c[i].file \in FilesOf(p))
    BY <1>4
  <2>. QED  BY <1>2, <2>1, <2>2, <2>3 DEF FilesOf
<1>. QED  BY <1>1, <1>2, <1>3, <1>4 DEF c

(* A file has at most one outcome exactly if no two outcomes share a file. *)
LEMMA TimesAtMostOne ==
    ASSUME outcomes \in Seq(Outcome), OneEach(outcomes), NEW f
    PROVE  Times(f) = IF f \in FilesOf(outcomes) THEN 1 ELSE 0
<1>. DEFINE places == {i \in DOMAIN outcomes : outcomes[i].file = f}
<1>1. CASE f \in FilesOf(outcomes)
  <2>1. PICK i \in DOMAIN outcomes : outcomes[i].file = f
    BY <1>1 DEF FilesOf
  <2>2. places = {i}
    BY <2>1 DEF OneEach
  <2>. QED  BY <1>1, <2>2, FS_Singleton DEF Times
<1>2. CASE f \notin FilesOf(outcomes)
  <2>1. places = {}
    BY <1>2 DEF FilesOf
  <2>. QED  BY <1>2, <2>1, FS_EmptySet DEF Times
<1>. QED  BY <1>1, <1>2

-----------------------------------------------------------------------------
(* Dealing the files out, and putting the outcomes together.               *)

LEMMA ShardFacts ==
    ASSUME NEW l \in Seq(Files), NEW n \in Nat \ {0}, NEW i \in 1 .. Len(l)
    PROVE  /\ ShardFiles(l, n, i) \in Seq(Files)
           /\ DOMAIN ShardFiles(l, n, i) = Rows(Len(l) - i, n)
           /\ \A k \in DOMAIN ShardFiles(l, n, i) :
                 /\ k \in Nat \ {0}
                 /\ Slot(k, n, i) \in 1 .. Len(l)
                 /\ ShardFiles(l, n, i)[k] = l[Slot(k, n, i)]
<1>. DEFINE rows == Rows(Len(l) - i, n)
<1>1. Len(l) \in Nat /\ i \in Nat \ {0} /\ i <= Len(l)
  OBVIOUS
<1>2. \A k \in rows : Slot(k, n, i) \in 1 .. Len(l) /\ k \in Nat \ {0}
  BY <1>1, RowInRange
<1>3. ShardFiles(l, n, i) = [k \in rows |-> l[Slot(k, n, i)]]
  BY DEF ShardFiles, Rows, Slot
<1>4. rows = 1 .. ((Len(l) - i) \div n) + 1 /\ ((Len(l) - i) \div n) + 1 \in Nat
  BY <1>1 DEF Rows
<1>. HIDE DEF rows
<1>5. [k \in rows |-> l[Slot(k, n, i)]] \in Seq(Files)
  BY <1>2, <1>4
<1>. QED  BY <1>2, <1>3, <1>5 DEF rows

(* Every file is dealt to exactly one worker. *)
LEMMA EveryFileDealt ==
    ASSUME NEW l \in Seq(Files), Distinct(l), NEW n \in Nat \ {0},
           NEW m \in Nat, m = IF n < Len(l) THEN n ELSE Len(l)
    PROVE  /\ \A i \in 1 .. m :
                 /\ ShardFiles(l, n, i) \in Seq(Files)
                 /\ Distinct(ShardFiles(l, n, i))
                 /\ FilesIn(ShardFiles(l, n, i)) \subseteq FilesIn(l)
           /\ \A i, j \in 1 .. m :
                 i # j => FilesIn(ShardFiles(l, n, i)) \cap FilesIn(ShardFiles(l, n, j)) = {}
           /\ \A f \in FilesIn(l) : \E i \in 1 .. m : f \in FilesIn(ShardFiles(l, n, i))
<1>0. /\ Len(l) \in Nat /\ DOMAIN l = 1 .. Len(l)
      /\ \A i \in 1 .. m : i \in 1 .. Len(l) /\ i \in 1 .. n
      /\ \A i \in 1 .. n : i \in 1 .. Len(l) => i \in 1 .. m
  OBVIOUS
<1>9. \A i \in 1 .. Len(l) :
          /\ ShardFiles(l, n, i) \in Seq(Files)
          /\ DOMAIN ShardFiles(l, n, i) = Rows(Len(l) - i, n)
          /\ \A k \in DOMAIN ShardFiles(l, n, i) :
                /\ k \in Nat \ {0}
                /\ Slot(k, n, i) \in 1 .. Len(l)
                /\ ShardFiles(l, n, i)[k] = l[Slot(k, n, i)]
  BY ShardFacts
<1>10. \A i, j \in 1 .. n : \A k, h \in Nat \ {0} : Slot(k, n, i) = Slot(h, n, j) => i = j /\ k = h
  BY RowsDiffer
<1>1. ASSUME NEW i \in 1 .. m, NEW j \in 1 .. m,
             NEW k \in DOMAIN ShardFiles(l, n, i), NEW h \in DOMAIN ShardFiles(l, n, j),
             ShardFiles(l, n, i)[k] = ShardFiles(l, n, j)[h]
      PROVE  i = j /\ k = h
  <2>0. /\ i \in 1 .. Len(l) /\ i \in 1 .. n
        /\ j \in 1 .. Len(l) /\ j \in 1 .. n
    BY <1>0
  <2>1. /\ k \in Nat \ {0} /\ Slot(k, n, i) \in 1 .. Len(l)
        /\ ShardFiles(l, n, i)[k] = l[Slot(k, n, i)]
    BY <2>0, <1>9
  <2>2. /\ h \in Nat \ {0} /\ Slot(h, n, j) \in 1 .. Len(l)
        /\ ShardFiles(l, n, j)[h] = l[Slot(h, n, j)]
    BY <2>0, <1>9
  <2>3. Slot(k, n, i) = Slot(h, n, j)
    BY <1>0, <1>1, <2>1, <2>2 DEF Distinct
  <2>. QED  BY <2>0, <2>1, <2>2, <2>3, <1>10
<1>2. ASSUME NEW i \in 1 .. m
      PROVE  /\ ShardFiles(l, n, i) \in Seq(Files)
             /\ Distinct(ShardFiles(l, n, i))
             /\ FilesIn(ShardFiles(l, n, i)) \subseteq FilesIn(l)
  <2>1. Distinct(ShardFiles(l, n, i))
    BY <1>1 DEF Distinct
  <2>2. ShardFiles(l, n, i) \in Seq(Files)
    BY <1>0, <1>9
  <2>3. ASSUME NEW k \in DOMAIN ShardFiles(l, n, i)
        PROVE  ShardFiles(l, n, i)[k] \in FilesIn(l)
    <3>1. Slot(k, n, i) \in 1 .. Len(l) /\ ShardFiles(l, n, i)[k] = l[Slot(k, n, i)]
      BY <1>0, <1>9
    <3>. QED  BY <1>0, <3>1 DEF FilesIn
  <2>. QED  BY <2>1, <2>2, <2>3 DEF FilesIn
<1>3. ASSUME NEW i \in 1 .. m, NEW j \in 1 .. m, i # j
      PROVE  FilesIn(ShardFiles(l, n, i)) \cap FilesIn(ShardFiles(l, n, j)) = {}
  BY <1>1, <1>3 DEF FilesIn
<1>4. ASSUME NEW f \in FilesIn(l)
      PROVE  \E i \in 1 .. m : f \in FilesIn(ShardFiles(l, n, i))
  <2>1. PICK x \in 1 .. Len(l) : l[x] = f
    BY <1>0 DEF FilesIn
  <2>2. PICK i \in 1 .. n :
           i \in 1 .. Len(l) /\ \E k \in Rows(Len(l) - i, n) : Slot(k, n, i) = x
    <3>1. Len(l) \in Nat
      BY <1>0
    <3>. QED  BY <3>1, RowOfNumber
  <2>3. PICK k \in Rows(Len(l) - i, n) : Slot(k, n, i) = x
    BY <2>2
  <2>4. i \in 1 .. m /\ i \in 1 .. Len(l)
    BY <1>0, <2>2
  <2>5. k \in DOMAIN ShardFiles(l, n, i) /\ ShardFiles(l, n, i)[k] = l[Slot(k, n, i)]
    BY <2>4, <1>9
  <2>. QED  BY <2>1, <2>3, <2>4, <2>5 DEF FilesIn
<1>. QED  BY <1>2, <1>3, <1>4

(* What is left of a listing when the files that have gone are left out.   *)
LEMMA RemainingFacts ==
    ASSUME NEW s \in Seq(Files)
    PROVE  /\ Remaining(s) \in Seq(Files)
           /\ FilesIn(Remaining(s)) = FilesIn(s) \ deleted
           /\ Distinct(s) => Distinct(Remaining(s))
<1>. DEFINE A == Files \ deleted
<1>1. /\ Kept(s, A) \in Seq(Files)
      /\ Elements(Kept(s, A)) = Elements(s) \cap A
      /\ Distinct(s) => Distinct(Kept(s, A))
  <2>. HIDE DEF A
  <2>. QED  BY KeptFacts
<1>2. Elements(s) \subseteq Files
  BY DEF Elements
<1>. QED  BY <1>1, <1>2 DEF Remaining, FilesIn, Elements

(* The merged result: the outcomes of every shard, and nothing else.       *)
Apart ==
    /\ \A i \in DOMAIN pool : OneEach(pool[i].outcomes)
    /\ \A i, j \in DOMAIN pool :
          i # j => FilesOf(pool[i].outcomes) \cap FilesOf(pool[j].outcomes) = {}

LEMMA MergedFacts ==
    ASSUME pool \in Seq(Shard)
    PROVE  /\ Merged[Len(pool)] \in Seq(Outcome)
           /\ Apart => OneEach(Merged[Len(pool)])
           /\ FilesOf(Merged[Len(pool)]) = UNION {FilesOf(pool[i].outcomes) : i \in DOMAIN pool}
           /\ \A k \in DOMAIN Merged[Len(pool)] :
                 \E i \in DOMAIN pool : \E h \in DOMAIN pool[i].outcomes :
                    Merged[Len(pool)][k] = pool[i].outcomes[h]
<1>. DEFINE n == Len(pool)
            part(k) == pool[k].outcomes
            Joined(t, k) == t \o part(k)
            Step(f, k) == IF k = 0 THEN <<>> ELSE Joined(f[k - 1], k)
<1>1. n \in Nat /\ DOMAIN pool = 1 .. n /\ \A k \in 1 .. n : part(k) \in Seq(Outcome)
  <2>1. n \in Nat /\ DOMAIN pool = 1 .. n /\ \A k \in 1 .. n : pool[k] \in Shard
    OBVIOUS
  <2>. QED  BY <2>1 DEF Shard
<1>2. Merged = CHOOSE f : f = [k \in 0 .. n |-> Step(f, k)]
  BY DEF Merged
<1>3. \E f : f = [k \in 0 .. n |-> Step(f, k)]
  <2>. DEFINE T == Seq(Outcome)
              a == <<>>
              step == [p \in (1 .. n) \X T |-> Joined(p[2], p[1])]
  <2>1. step \in [(1 .. n) \X T -> T]
    <3>1. \A k \in 1 .. n, t \in T : t \o part(k) \in T
      <4>1. \A t, u \in Seq(Outcome) : t \o u \in Seq(Outcome)
        OBVIOUS
      <4>. QED  BY <1>1, <4>1
    <3>. HIDE DEF T, n, part
    <3>. QED  BY <3>1
  <2>2. a \in T
    OBVIOUS
  <2>3. \A k \in 1 .. n : \A t \in T : step[<<k, t>>] = Joined(t, k)
    <3>. HIDE DEF T, n, part
    <3>. QED  OBVIOUS
  <2>. HIDE DEF step, n, part, T, a, Joined
  <2>4. PICK f \in [0 .. n -> T] : Recursion(f, a, step, n)
    BY <1>1, <2>1, <2>2, RecursionExists, Zenon
  <2>5. ASSUME NEW k \in 0 .. n PROVE f[k] = Step(f, k)
    <3>1. CASE k = 0
      BY <2>4, <3>1 DEF Recursion, a
    <3>2. CASE k # 0
      <4>1. k \in 1 .. n /\ k - 1 \in 0 .. n
        BY <1>1, <3>2
      <4>. QED  BY <3>2, <4>1, <2>3, <2>4 DEF Recursion
    <3>. QED  BY <3>1, <3>2
  <2>. HIDE DEF Step
  <2>6. f = [k \in 0 .. n |-> Step(f, k)]
    BY <2>5
  <2>. QED  BY <2>6
<1>. HIDE DEF n, part, Joined
<1>4. Merged = [k \in 0 .. n |-> Step(Merged, k)]
  <2>. HIDE DEF Step
  <2>. QED  BY <1>2, <1>3
<1>5. Merged[0] = <<>> /\ \A k \in 0 .. n - 1 : Merged[k + 1] = Joined(Merged[k], k + 1)
  <2>1. \A k \in 0 .. n : Merged[k] = Step(Merged, k)
    BY <1>4
  <2>2. \A k \in 0 .. n - 1 : k + 1 \in 0 .. n /\ k + 1 # 0 /\ (k + 1) - 1 = k
    BY <1>1
  <2>. QED  BY <1>1, <2>1, <2>2
<1>. DEFINE Good == {k \in 0 .. n :
                 /\ Merged[k] \in Seq(Outcome)
                 /\ Apart => OneEach(Merged[k])
                 /\ FilesOf(Merged[k]) = UNION {FilesOf(part(i)) : i \in 1 .. k}
                 /\ \A j \in DOMAIN Merged[k] :
                       \E i \in 1 .. n : \E h \in DOMAIN part(i) : Merged[k][j] = part(i)[h]}
<1>6. 0 \in Good
  <2>1. Merged[0] = <<>> /\ DOMAIN Merged[0] = {}
    BY <1>5
  <2>2. FilesOf(Merged[0]) = {} /\ OneEach(Merged[0])
    BY <2>1 DEF FilesOf, OneEach
  <2>3. UNION {FilesOf(part(i)) : i \in 1 .. 0} = {}
    OBVIOUS
  <2>4. 0 \in 0 .. n /\ Merged[0] \in Seq(Outcome)
    BY <1>1, <2>1
  <2>. QED  BY <2>1, <2>2, <2>3, <2>4
<1>7. ASSUME NEW k \in 0 .. n - 1, k \in Good PROVE k + 1 \in Good
  <2>. DEFINE m == Merged[k]
              p == part(k + 1)
              c == Merged[k + 1]
  <2>1. k + 1 \in 1 .. n /\ k + 1 \in 0 .. n
    BY <1>1
  <2>2. /\ m \in Seq(Outcome) /\ (Apart => OneEach(m))
        /\ FilesOf(m) = UNION {FilesOf(part(i)) : i \in 1 .. k}
        /\ \A j \in DOMAIN m : \E i \in 1 .. n : \E h \in DOMAIN part(i) : m[j] = part(i)[h]
    BY <1>7
  <2>3. c = m \o p /\ p \in Seq(Outcome) /\ (Apart => OneEach(p))
    BY <1>1, <1>5, <2>1 DEF part, Joined, Apart
  <2>4. ASSUME Apart PROVE FilesOf(m) \cap FilesOf(p) = {}
    <3>1. \A i \in 1 .. k : i \in 1 .. n /\ i # k + 1
      BY <1>1
    <3>2. \A i \in 1 .. k : FilesOf(part(i)) \cap FilesOf(p) = {}
      BY <1>1, <2>1, <2>4, <3>1 DEF part, Apart
    <3>. HIDE DEF m, p
    <3>. QED  BY <2>2, <3>2
  <2>5. UNION {FilesOf(part(i)) : i \in 1 .. k + 1}
            = (UNION {FilesOf(part(i)) : i \in 1 .. k}) \cup FilesOf(p)
    <3>1. 1 .. k + 1 = (1 .. k) \cup {k + 1}
      OBVIOUS
    <3>. QED  BY <3>1
  <2>. HIDE DEF m, p, c
  <2>6. /\ c \in Seq(Outcome) /\ (Apart => OneEach(c)) /\ FilesOf(c) = FilesOf(m) \cup FilesOf(p)
        /\ \A i \in DOMAIN c : \/ \E h \in DOMAIN m : c[i] = m[h]
                               \/ \E h \in DOMAIN p : c[i] = p[h]
    <3>1. m \in Seq(Outcome) /\ p \in Seq(Outcome)
      BY <2>2, <2>3
    <3>2. /\ m \o p \in Seq(Outcome)
          /\ FilesOf(m \o p) = FilesOf(m) \cup FilesOf(p)
          /\ \A i \in DOMAIN (m \o p) : \/ \E h \in DOMAIN m : (m \o p)[i] = m[h]
                                       \/ \E h \in DOMAIN p : (m \o p)[i] = p[h]
          /\ OneEach(m) /\ OneEach(p) /\ FilesOf(m) \cap FilesOf(p) = {} => OneEach(m \o p)
      BY <3>1, ConcatOutcomes, Zenon
    <3>. QED  BY <2>2, <2>3, <2>4, <3>2
  <2>7. ASSUME NEW j \in DOMAIN c
        PROVE  \E i \in 1 .. n : \E h \in DOMAIN part(i) : c[j] = part(i)[h]
    <3>1. CASE \E h \in DOMAIN m : c[j] = m[h]
      BY <2>2, <3>1
    <3>2. CASE \E h \in DOMAIN p : c[j] = p[h]
      BY <2>1, <3>2 DEF p
    <3>. QED  BY <2>6, <3>1, <3>2
  <2>. QED  BY <2>1, <2>2, <2>5, <2>6, <2>7 DEF c
<1>8. n \in Good
  <2>. HIDE DEF Good
  <2>1. 0 .. n \subseteq Good
    BY <1>1, <1>6, <1>7, IntervalInduction, Zenon
  <2>. QED  BY <1>1, <2>1
<1>. QED  BY <1>1, <1>8 DEF n, part

-----------------------------------------------------------------------------
(* Types.                                                                  *)

(* What the assumption says of a command line, and of the sets of files.   *)
LEMMA RequestFacts ==
    ASSUME TypeOK
    PROVE  /\ request.files \subseteq Files
           /\ request.jobs \in Nat /\ request.cores \in Nat \ {0}
           /\ request.kind \in {"tree", "changed", "file", "paths"}
           /\ PythonFiles \subseteq Files /\ CollectFiles \subseteq Files
           /\ TypeScriptFiles \subseteq Files /\ GoFiles \subseteq Files
           /\ UnsupportedFiles \subseteq Files
           /\ Cardinality(DefaultExcluded) \in Nat
<1>1. request \in Request
  BY CoverageAssumption DEF TypeOK
<1>2. /\ request.files \subseteq Files
      /\ request.jobs \in Nat /\ request.cores \in Nat \ {0}
      /\ request.kind \in {"tree", "changed", "file", "paths"}
  BY <1>1 DEF Request
<1>3. explicit \subseteq Files
  BY DEF TypeOK
<1>4. /\ PythonFiles \subseteq Files /\ CollectFiles \subseteq Files
      /\ TypeScriptFiles \subseteq Files /\ GoFiles \subseteq Files
      /\ UnsupportedFiles \subseteq Files /\ DefaultExcluded \subseteq Files
  BY <1>2, <1>3, Zenon DEF PythonFiles, CollectFiles, TypeScriptFiles, GoFiles,
     UnsupportedFiles, DefaultExcluded, Collected, Of, Present
<1>5. Cardinality(DefaultExcluded) \in Nat
  BY <1>4, CoverageAssumption, FS_Subset, FS_CardinalityType
<1>. QED  BY <1>2, <1>4, <1>5

LEMMA OutcomeTyped ==
    ASSUME NEW f \in Files
    PROVE  OutcomeOf(f) \in Outcome /\ OutcomeOf(f).file = f
BY DEF OutcomeOf, Outcome

(* The outcomes of a pass over the listed files.                           *)
LEMMA PassFacts ==
    ASSUME NEW S \in SUBSET Files, NEW l \in Listings(S)
    PROVE  LET p == [i \in DOMAIN l |-> OutcomeOf(l[i])]
           IN  /\ p \in Seq(Outcome)
               /\ FilesOf(p) = S
               /\ OneEach(p)
               /\ \A i \in DOMAIN p : \E f \in S : p[i] = OutcomeOf(f)
<1>. DEFINE p == [i \in DOMAIN l |-> OutcomeOf(l[i])]
<1>1. l \in Seq(Files) /\ DOMAIN l = 1 .. Len(l) /\ FilesIn(l) = S /\ Distinct(l)
  BY ListingFacts
<1>2. \A i \in DOMAIN l : l[i] \in S /\ l[i] \in Files
  BY <1>1 DEF FilesIn
<1>3. DOMAIN p = DOMAIN l
      /\ \A i \in DOMAIN l : p[i] = OutcomeOf(l[i]) /\ p[i] \in Outcome /\ p[i].file = l[i]
  BY <1>2, OutcomeTyped
<1>4. p \in Seq(Outcome)
  <2>1. Len(l) \in Nat
    BY <1>1
  <2>2. p \in [1 .. Len(l) -> Outcome]
    BY <1>1, <1>3
  <2>. HIDE DEF p
  <2>. QED  BY <2>1, <2>2
<1>. HIDE DEF p
<1>5. FilesOf(p) = S
  BY <1>1, <1>3 DEF FilesOf, FilesIn
<1>6. OneEach(p)
  BY <1>1, <1>3 DEF OneEach, Distinct
<1>7. \A i \in DOMAIN p : \E f \in S : p[i] = OutcomeOf(f)
  BY <1>2, <1>3
<1>. QED  BY <1>4, <1>5, <1>6, <1>7 DEF p

LEMMA InitTyped == Init => TypeOK
<1>. SUFFICES ASSUME Init PROVE TypeOK
  OBVIOUS
<1>1. todo \in Seq(Files) /\ pool \in Seq(Shard) /\ outcomes \in Seq(Outcome)
  <2>1. todo = <<>> /\ pool = <<>> /\ outcomes = <<>>
    BY DEF Init
  <2>. QED  BY <2>1
<1>2. failures \in 0 .. MaxFailures
  BY CoverageAssumption DEF Init
<1>3. jobs \in Nat \ {0} /\ excludedCount \in Nat /\ exit \in {-1, 0, 1, 2}
  BY DEF Init
<1>. QED  BY <1>1, <1>2, <1>3, Zenon DEF Init, TypeOK

(* Where the serial scan begins.                                           *)
LEMMA BeginTyped ==
    ASSUME TypeOK, BeginSerial
    PROVE  todo' \in Seq(Files) /\ unsupported' \subseteq Files /\ excludedCount' \in Nat
<1>1. PICK l \in Listings(PythonFiles) : todo' = l
  BY DEF BeginSerial
<1>2. todo' \in Seq(Files)
  BY <1>1, RequestFacts, ListingFacts
<1>. QED  BY <1>2, RequestFacts DEF BeginSerial

(* A shard is one of several, as its steps change it.                      *)
LEMMA ShardTyped ==
    ASSUME TypeOK, NEW i \in DOMAIN pool
    PROVE  /\ pool[i] \in Shard /\ pool[i].todo \in Seq(Files)
           /\ pool[i].outcomes \in Seq(Outcome)
           /\ pool[i].state \in {"waiting", "running", "done", "failed"}
           /\ \A s \in Shard : [pool EXCEPT ![i] = s] \in Seq(Shard)
<1>1. pool \in Seq(Shard)
  BY DEF TypeOK
<1>2. pool[i] \in Shard
  BY <1>1
<1>3. \A s \in Shard : [pool EXCEPT ![i] = s] \in Seq(Shard)
  BY <1>1
<1>. QED  BY <1>2, <1>3 DEF Shard

(* The ways a step changes the record of a shard.                          *)
LEMMA ShardUpdates ==
    ASSUME NEW s \in Shard, NEW state, NEW files
    PROVE  /\ [s EXCEPT !.state = state] =
                 [state |-> state, todo |-> s.todo, outcomes |-> s.outcomes]
           /\ [[s EXCEPT !.state = state] EXCEPT !.todo = files] =
                 [state |-> state, todo |-> files, outcomes |-> s.outcomes]
<1>. DEFINE r == [state |-> s.state, todo |-> s.todo, outcomes |-> s.outcomes]
<1>1. s = r
  BY DEF Shard
<1>2. [r EXCEPT !.state = state] = [state |-> state, todo |-> s.todo, outcomes |-> s.outcomes]
  OBVIOUS
<1>3. [[r EXCEPT !.state = state] EXCEPT !.todo = files] =
        [state |-> state, todo |-> files, outcomes |-> s.outcomes]
  <2>1. [[state |-> state, todo |-> s.todo, outcomes |-> s.outcomes] EXCEPT !.todo = files] =
          [state |-> state, todo |-> files, outcomes |-> s.outcomes]
    OBVIOUS
  <2>. HIDE DEF r
  <2>. QED  BY <1>2, <2>1
<1>. HIDE DEF r
<1>. QED  BY <1>1, <1>2, <1>3

LEMMA ShardGains ==
    ASSUME NEW s \in Shard, NEW files, NEW found
    PROVE  [[s EXCEPT !.todo = files] EXCEPT !.outcomes = found] =
             [state |-> s.state, todo |-> files, outcomes |-> found]
<1>. DEFINE r == [state |-> s.state, todo |-> s.todo, outcomes |-> s.outcomes]
<1>1. s = r
  BY DEF Shard
<1>2. [[r EXCEPT !.todo = files] EXCEPT !.outcomes = found] =
        [state |-> s.state, todo |-> files, outcomes |-> found]
  <2>1. [r EXCEPT !.todo = files] = [state |-> s.state, todo |-> files, outcomes |-> s.outcomes]
    OBVIOUS
  <2>2. [[state |-> s.state, todo |-> files, outcomes |-> s.outcomes] EXCEPT !.outcomes = found] =
          [state |-> s.state, todo |-> files, outcomes |-> found]
    OBVIOUS
  <2>. HIDE DEF r
  <2>. QED  BY <2>1, <2>2
<1>. HIDE DEF r
<1>. QED  BY <1>1, <1>2

(* What each step of a worker makes of its shard.                          *)
LEMMA ShardSteps ==
    ASSUME TypeOK, NEW i \in DOMAIN pool
    PROVE  /\ StartShard(i) =>
                 pool' = [pool EXCEPT ![i] = [state |-> "running",
                             todo |-> Remaining(pool[i].todo), outcomes |-> pool[i].outcomes]]
           /\ ScanInShard(i) =>
                 pool' = [pool EXCEPT ![i] = [state |-> "running", todo |-> Tail(pool[i].todo),
                             outcomes |-> Append(pool[i].outcomes, OutcomeOf(Head(pool[i].todo)))]]
           /\ FinishShard(i) =>
                 pool' = [pool EXCEPT ![i] = [state |-> "done",
                             todo |-> pool[i].todo, outcomes |-> pool[i].outcomes]]
           /\ FailShard(i) =>
                 pool' = [pool EXCEPT ![i] = [state |-> "failed",
                             todo |-> pool[i].todo, outcomes |-> pool[i].outcomes]]
<1>1. pool[i] \in Shard /\ pool \in Seq(Shard)
  BY ShardTyped DEF TypeOK
<1>2. ASSUME StartShard(i)
      PROVE  pool' = [pool EXCEPT ![i] = [state |-> "running",
                         todo |-> Remaining(pool[i].todo), outcomes |-> pool[i].outcomes]]
  <2>1. pool' = [pool EXCEPT ![i] = [[pool[i] EXCEPT !.state = "running"] EXCEPT !.todo = Remaining(pool[i].todo)]]
    BY <1>1, <1>2 DEF StartShard
  <2>. QED  BY <1>1, <2>1, ShardUpdates
<1>3. ASSUME ScanInShard(i)
      PROVE  pool' = [pool EXCEPT ![i] = [state |-> "running", todo |-> Tail(pool[i].todo),
                         outcomes |-> Append(pool[i].outcomes, OutcomeOf(Head(pool[i].todo)))]]
  <2>. DEFINE files == Tail(pool[i].todo)
              found == Append(pool[i].outcomes, OutcomeOf(Head(pool[i].todo)))
  <2>1. /\ pool' = [pool EXCEPT ![i] =
                       [[pool[i] EXCEPT !.todo = files] EXCEPT !.outcomes = found]]
        /\ pool[i].state = "running"
    BY <1>1, <1>3 DEF ScanInShard
  <2>. HIDE DEF files, found
  <2>2. [[pool[i] EXCEPT !.todo = files] EXCEPT !.outcomes = found] =
          [state |-> pool[i].state, todo |-> files, outcomes |-> found]
    <3>. DEFINE s == pool[i]
    <3>1. s \in Shard
      BY <1>1
    <3>. HIDE DEF s
    <3>2. [[s EXCEPT !.todo = files] EXCEPT !.outcomes = found] =
            [state |-> s.state, todo |-> files, outcomes |-> found]
      BY <3>1, ShardGains
    <3>. QED  BY <3>2 DEF s
  <2>3. pool' = [pool EXCEPT ![i] = [state |-> "running", todo |-> files, outcomes |-> found]]
    BY <2>1, <2>2
  <2>. QED  BY <2>3 DEF files, found
<1>4. ASSUME FinishShard(i)
      PROVE  pool' = [pool EXCEPT ![i] = [state |-> "done",
                         todo |-> pool[i].todo, outcomes |-> pool[i].outcomes]]
  <2>1. pool' = [pool EXCEPT ![i] = [pool[i] EXCEPT !.state = "done"]]
    BY <1>1, <1>4 DEF FinishShard
  <2>. QED  BY <1>1, <2>1, ShardUpdates
<1>5. ASSUME FailShard(i)
      PROVE  pool' = [pool EXCEPT ![i] = [state |-> "failed",
                         todo |-> pool[i].todo, outcomes |-> pool[i].outcomes]]
  <2>1. pool' = [pool EXCEPT ![i] = [pool[i] EXCEPT !.state = "failed"]]
    BY <1>1, <1>5 DEF FailShard
  <2>. QED  BY <1>1, <2>1, ShardUpdates
<1>. QED  BY <1>2, <1>3, <1>4, <1>5

(* A number of processes.                                                  *)
LEMMA AutoJobsTyped ==
    ASSUME TypeOK, NEW count
    PROVE  AutoJobs(count) \in Nat \ {0}
<1>1. request.cores \in Nat \ {0}
  BY RequestFacts
<1>2. CASE request.cores < MinCores \/ count < MinParallel
  BY <1>2 DEF AutoJobs
<1>3. CASE ~(request.cores < MinCores \/ count < MinParallel) /\ request.cores > 1
  <2>1. request.cores - 1 \in Nat \ {0}
    BY <1>1, <1>3
  <2>. QED  BY <1>3, <2>1 DEF AutoJobs
<1>4. CASE ~(request.cores < MinCores \/ count < MinParallel) /\ ~(request.cores > 1)
  BY <1>4 DEF AutoJobs
<1>. QED  BY <1>2, <1>3, <1>4

(* What StartPool deals out.                                               *)
LEMMA PoolDealt ==
    ASSUME TypeOK, StartPool
    PROVE  \E l \in Listings(CollectFiles) : \E m \in Nat :
              /\ m = IF jobs < Len(l) THEN jobs ELSE Len(l)
              /\ pool' = [i \in 1 .. m |->
                             [state |-> "waiting", todo |-> ShardFiles(l, jobs, i),
                              outcomes |-> <<>>]]
              /\ \A i \in 1 .. m : ShardFiles(l, jobs, i) \in Seq(Files)
<1>1. PICK l \in Listings(CollectFiles) :
         pool' = [i \in 1 .. IF jobs < Len(l) THEN jobs ELSE Len(l) |->
                      [state |-> "waiting", todo |-> ShardFiles(l, jobs, i),
                       outcomes |-> <<>>]]
  BY DEF StartPool
<1>2. l \in Seq(Files) /\ Distinct(l) /\ Len(l) \in Nat
  <2>1. l \in Seq(Files) /\ Distinct(l)
    BY RequestFacts, ListingFacts
  <2>. QED  BY <2>1
<1>. DEFINE m == IF jobs < Len(l) THEN jobs ELSE Len(l)
<1>3. jobs \in Nat \ {0} /\ m \in Nat
  BY <1>2 DEF TypeOK
<1>4. pool' = [i \in 1 .. m |->
                  [state |-> "waiting", todo |-> ShardFiles(l, jobs, i), outcomes |-> <<>>]]
  BY <1>1
<1>5. m = IF jobs < Len(l) THEN jobs ELSE Len(l)
  OBVIOUS
<1>. HIDE DEF m
<1>6. \A i \in 1 .. m : ShardFiles(l, jobs, i) \in Seq(Files)
  BY <1>2, <1>3, <1>5, EveryFileDealt
<1>. QED  BY <1>3, <1>4, <1>5, <1>6

LEMMA WorkerTyped ==
    ASSUME TypeOK, NEW i \in DOMAIN pool, ShardStep(i) \/ FailShard(i)
    PROVE  /\ pool' \in Seq(Shard) /\ phase = "pool"
           /\ UNCHANGED <<request, phase, plan, todo, answer, exit, notice, deleted>>
           /\ failures' \in 0 .. MaxFailures
<1>1. pool # <<>> /\ phase = "pool"
  BY DEF TypeOK
<1>2. /\ pool[i].todo \in Seq(Files) /\ pool[i].outcomes \in Seq(Outcome)
      /\ \A s \in Shard : [pool EXCEPT ![i] = s] \in Seq(Shard)
  BY ShardTyped, Zenon
<1>3. CASE StartShard(i)
  <2>1. [state |-> "running", todo |-> Remaining(pool[i].todo), outcomes |-> pool[i].outcomes]
            \in Shard
    BY <1>2, RemainingFacts DEF Shard
  <2>2. pool' \in Seq(Shard)
    BY <1>2, <1>3, <2>1, ShardSteps, Zenon
  <2>. QED  BY <1>1, <1>3, <2>2 DEF StartShard, TypeOK
<1>4. CASE ScanInShard(i)
  <2>0. pool[i].todo # <<>>
    BY <1>4 DEF ScanInShard
  <2>1. Tail(pool[i].todo) \in Seq(Files) /\ OutcomeOf(Head(pool[i].todo)) \in Outcome
    BY <1>2, <2>0, TailInSeq, OutcomeTyped
  <2>2. Append(pool[i].outcomes, OutcomeOf(Head(pool[i].todo))) \in Seq(Outcome)
    BY <1>2, <2>1, AppendOutcome
  <2>3. [state |-> "running", todo |-> Tail(pool[i].todo),
         outcomes |-> Append(pool[i].outcomes, OutcomeOf(Head(pool[i].todo)))] \in Shard
    BY <2>1, <2>2 DEF Shard
  <2>4. pool' \in Seq(Shard)
    BY <1>2, <1>4, <2>3, ShardSteps, Zenon
  <2>. QED  BY <1>1, <1>4, <2>4 DEF ScanInShard, TypeOK
<1>5. CASE FinishShard(i)
  <2>1. [state |-> "done", todo |-> pool[i].todo, outcomes |-> pool[i].outcomes] \in Shard
    BY <1>2 DEF Shard
  <2>2. pool' \in Seq(Shard)
    BY <1>2, <1>5, <2>1, ShardSteps, Zenon
  <2>. QED  BY <1>1, <1>5, <2>2 DEF FinishShard, TypeOK
<1>6. CASE FailShard(i)
  <2>1. [state |-> "failed", todo |-> pool[i].todo, outcomes |-> pool[i].outcomes] \in Shard
    BY <1>2 DEF Shard
  <2>2. pool' \in Seq(Shard)
    BY <1>2, <1>6, <2>1, ShardSteps, Zenon
  <2>3. failures' \in 0 .. MaxFailures
    BY <1>6, CoverageAssumption DEF FailShard, TypeOK
  <2>. QED  BY <1>1, <1>6, <2>2, <2>3 DEF FailShard
<1>. QED  BY <1>3, <1>4, <1>5, <1>6 DEF ShardStep

(* Outcomes of a pass after those that there are.                          *)
LEMMA ExamineFacts ==
    ASSUME TypeOK, NEW S \in SUBSET Files, Examine(S)
    PROVE  /\ outcomes' \in Seq(Outcome)
           /\ FilesOf(outcomes') = FilesOf(outcomes) \cup S
           /\ \A i \in DOMAIN outcomes' :
                 \/ \E k \in DOMAIN outcomes : outcomes'[i] = outcomes[k]
                 \/ \E f \in S : outcomes'[i] = OutcomeOf(f)
           /\ OneEach(outcomes) /\ FilesOf(outcomes) \cap S = {} => OneEach(outcomes')
<1>1. PICK l \in Listings(S) : outcomes' = outcomes \o [i \in DOMAIN l |-> OutcomeOf(l[i])]
  BY DEF Examine
<1>. DEFINE p == [i \in DOMAIN l |-> OutcomeOf(l[i])]
<1>2. /\ p \in Seq(Outcome) /\ FilesOf(p) = S /\ OneEach(p)
      /\ \A i \in DOMAIN p : \E f \in S : p[i] = OutcomeOf(f)
  BY PassFacts
<1>3. outcomes' = outcomes \o p /\ outcomes \in Seq(Outcome)
  BY <1>1 DEF TypeOK
<1>. HIDE DEF p
<1>4. /\ outcomes \o p \in Seq(Outcome)
      /\ FilesOf(outcomes \o p) = FilesOf(outcomes) \cup FilesOf(p)
      /\ \A i \in DOMAIN (outcomes \o p) :
            \/ \E k \in DOMAIN outcomes : (outcomes \o p)[i] = outcomes[k]
            \/ \E k \in DOMAIN p : (outcomes \o p)[i] = p[k]
      /\ OneEach(outcomes) /\ OneEach(p) /\ FilesOf(outcomes) \cap FilesOf(p) = {}
            => OneEach(outcomes \o p)
  BY <1>2, <1>3, ConcatOutcomes, Zenon
<1>. DEFINE c == outcomes \o p
<1>5. c = outcomes'
  BY <1>3
<1>6. /\ c \in Seq(Outcome)
      /\ FilesOf(c) = FilesOf(outcomes) \cup S
      /\ OneEach(outcomes) /\ FilesOf(outcomes) \cap S = {} => OneEach(c)
  BY <1>2, <1>4
<1>7. ASSUME NEW i \in DOMAIN c
      PROVE  \/ \E k \in DOMAIN outcomes : c[i] = outcomes[k]
             \/ \E f \in S : c[i] = OutcomeOf(f)
  <2>1. \/ \E k \in DOMAIN outcomes : c[i] = outcomes[k]
        \/ \E k \in DOMAIN p : c[i] = p[k]
    BY <1>4
  <2>. HIDE DEF c
  <2>. QED  BY <1>2, <2>1
<1>. HIDE DEF c
<1>. QED  BY <1>5, <1>6, <1>7, Zenon

(* What a layer over S does to the result.                                 *)
LEMMA LayerFacts ==
    ASSUME NEW S, LayerOver(S)
    PROVE  \/ /\ ~(LayersOn /\ request.kind # "file" /\ S # {})
              /\ UNCHANGED <<reached, layered, layerFailed, failures>>
           \/ /\ LayersOn /\ request.kind # "file"
              /\ layered' = TRUE
              /\ reached \subseteq reached'
              /\ reached' \subseteq reached \cup SinksWithin(S \ (Broken \cup deleted))
              /\ layerFailed => layerFailed'
              /\ ~layerFailed' => SinksWithin(S \ (Broken \cup deleted)) \subseteq reached'
              /\ layerFailed' \in {layerFailed, TRUE}
              /\ failures' = failures \/ (failures < MaxFailures /\ failures' = failures + 1)
<1>1. CASE ~(LayersOn /\ request.kind # "file" /\ S # {})
  BY <1>1 DEF LayerOver, layer
<1>2. CASE LayersOn /\ request.kind # "file" /\ S # {}
  <2>1. Augment(S)
    BY <1>2 DEF LayerOver
  <2>. QED  BY <1>2, <2>1 DEF Augment
<1>. QED  BY <1>1, <1>2

LEMMA LayerTyped ==
    ASSUME TypeOK, NEW S, LayerOver(S)
    PROVE  /\ reached' \subseteq Files /\ layered' \in BOOLEAN /\ layerFailed' \in BOOLEAN
           /\ failures' \in 0 .. MaxFailures
<1>1. SinksWithin(S \ (Broken \cup deleted)) \subseteq Files
  BY CoverageAssumption DEF SinksWithin, Chain
<1>2. failures' = failures \/ (failures < MaxFailures /\ failures' = failures + 1)
  BY LayerFacts
<1>3. failures' \in 0 .. MaxFailures
  BY <1>2, CoverageAssumption DEF TypeOK
<1>4. reached' \subseteq Files
  BY <1>1, LayerFacts DEF TypeOK
<1>. QED  BY <1>3, <1>4, LayerFacts DEF TypeOK

LEMMA TypeInductive == TypeOK /\ [Next]_vars => TypeOK'
<1>. SUFFICES ASSUME TypeOK, [Next]_vars PROVE TypeOK'
  OBVIOUS
<1>. USE DEF plan, answer, layer
<1>1. CASE RefuseMissing
  BY <1>1 DEF RefuseMissing, Exit, TypeOK
<1>2. CASE RefuseNoDiff
  BY <1>2 DEF RefuseNoDiff, Exit, TypeOK
<1>3. CASE PlanTree
  <2>1. jobs' \in Nat \ {0}
    <3>1. CASE request.jobs # 0
      BY <1>3, <3>1, RequestFacts DEF PlanTree
    <3>2. CASE request.jobs = 0
      BY <1>3, <3>2, AutoJobsTyped DEF PlanTree
    <3>. QED  BY <3>1, <3>2
  <2>. QED  BY <1>3, <2>1 DEF PlanTree, TypeOK
<1>4. CASE PlanPaths
  <2>1. explicit' \subseteq Files
    BY <1>4, RequestFacts DEF PlanPaths
  <2>. QED  BY <1>4, <2>1 DEF PlanPaths, TypeOK
<1>5. CASE NothingChanged
  BY <1>5 DEF NothingChanged, Exit, TypeOK
<1>6. CASE PlanChanged
  <2>1. explicit' \subseteq Files
    BY <1>6, RequestFacts DEF PlanChanged, ChangedFiles, Of
  <2>. QED  BY <1>6, <2>1 DEF PlanChanged, TypeOK
<1>7. CASE StartSerial
  <2>1. BeginSerial
    BY <1>7 DEF StartSerial
  <2>2. phase' = "serial" /\ pool' = pool /\ pool = <<>>
    BY <1>7 DEF StartSerial, BeginSerial, TypeOK
  <2>. QED  BY <1>7, <2>1, <2>2, BeginTyped DEF StartSerial, TypeOK
<1>8. CASE StartPool
  <2>1. pool' \in Seq(Shard)
    <3>1. PICK l \in Listings(CollectFiles), m \in Nat :
             /\ pool' = [i \in 1 .. m |->
                            [state |-> "waiting", todo |-> ShardFiles(l, jobs, i),
                             outcomes |-> <<>>]]
             /\ \A i \in 1 .. m : ShardFiles(l, jobs, i) \in Seq(Files)
      BY <1>8, PoolDealt
    <3>2. \A i \in 1 .. m : [state |-> "waiting", todo |-> ShardFiles(l, jobs, i),
                             outcomes |-> <<>>] \in Shard
      <4>1. <<>> \in Seq(Outcome)
        OBVIOUS
      <4>. QED  BY <3>1, <4>1 DEF Shard
    <3>3. pool' \in [1 .. m -> Shard]
      BY <3>1, <3>2
    <3>. QED  BY <3>3
  <2>. QED  BY <1>8, <2>1 DEF StartPool, TypeOK
<1>9. CASE FallBack
  <2>1. BeginSerial
    BY <1>9 DEF FallBack
  <2>2. phase' = "serial" /\ pool' = <<>> /\ pool' \in Seq(Shard)
    BY <1>9 DEF FallBack, BeginSerial
  <2>. QED  BY <1>9, <2>1, <2>2, BeginTyped DEF FallBack, TypeOK
<1>10. CASE Merge
  <2>1. outcomes' \in Seq(Outcome)
    BY <1>10, MergedFacts DEF Merge, TypeOK
  <2>2. pool' = <<>> /\ pool' \in Seq(Shard)
    BY <1>10 DEF Merge
  <2>. QED  BY <1>10, <2>1, <2>2 DEF Merge, TypeOK
<1>11. CASE ScanNext
  <2>1. Tail(todo) \in Seq(Files) /\ OutcomeOf(Head(todo)) \in Outcome
    BY <1>11, TailInSeq, OutcomeTyped DEF ScanNext, TypeOK
  <2>2. Append(outcomes, OutcomeOf(Head(todo))) \in Seq(Outcome)
    BY <2>1, AppendOutcome DEF TypeOK
  <2>3. outcomes' \in Seq(Outcome) /\ todo' \in Seq(Files)
    BY <1>11, <2>1, <2>2 DEF ScanNext
  <2>. QED  BY <1>11, <2>3 DEF ScanNext, TypeOK
<1>12. CASE FinishPython
  BY <1>12 DEF FinishPython, TypeOK
<1>13. CASE ScanTypeScript
  <2>1. Examine(TypeScriptFiles) /\ TypeScriptFiles \in SUBSET Files
    BY <1>13, RequestFacts DEF ScanTypeScript
  <2>2. outcomes' \in Seq(Outcome)
    BY <2>1, ExamineFacts
  <2>3. /\ unsupported' \subseteq Files /\ phase' \in {"go", "report"}
        /\ pool' = pool /\ pool = <<>>
    BY <1>13, RequestFacts DEF ScanTypeScript, TypeOK
  <2>. QED  BY <1>13, <2>2, <2>3 DEF ScanTypeScript, TypeOK
<1>14. CASE ScanGo
  <2>1. Examine(GoFiles) /\ GoFiles \in SUBSET Files
    BY <1>14, RequestFacts DEF ScanGo
  <2>2. outcomes' \in Seq(Outcome)
    BY <2>1, ExamineFacts
  <2>. QED  BY <1>14, <2>2 DEF ScanGo, TypeOK
<1>15. CASE Report
  <2>1. exit' \in {0, 1}
    BY <1>15 DEF Report, Exit, ExitCode
  <2>. QED  BY <1>15, <2>1 DEF Report, Exit, TypeOK
<1>16. CASE Raise
  <2>1. failures' \in 0 .. MaxFailures
    BY <1>16, CoverageAssumption DEF Raise, TypeOK
  <2>. QED  BY <1>16, <2>1 DEF Raise, Exit, TypeOK
<1>17. ASSUME NEW i \in DOMAIN pool, ShardStep(i) \/ FailShard(i) PROVE TypeOK'
  BY <1>17, WorkerTyped DEF TypeOK
<1>18. ASSUME NEW f \in Files, Delete(f) PROVE TypeOK'
  BY <1>18 DEF Delete, TypeOK
<1>19. CASE UNCHANGED vars
  BY <1>19 DEF vars, TypeOK
<1>20. CASE AnalyseRepository \/ AnalyseCrossLanguage
  <2>1. reached' \subseteq Files /\ layered' \in BOOLEAN /\ layerFailed' \in BOOLEAN
        /\ failures' \in 0 .. MaxFailures
    BY <1>20, LayerTyped DEF AnalyseRepository, AnalyseCrossLanguage
  <2>. QED  BY <1>20, <2>1 DEF AnalyseRepository, AnalyseCrossLanguage, TypeOK
<1>. QED
  BY <1>1, <1>2, <1>3, <1>4, <1>5, <1>6, <1>7, <1>8, <1>9, <1>10, <1>11, <1>12, <1>13,
     <1>14, <1>15, <1>16, <1>17, <1>18, <1>19, <1>20 DEF Next, Parent, Plan

(* Every variable keeps to its type, and shards exist only while the pool  *)
(* runs.                                                                   *)
THEOREM TypeCorrect == Spec => []TypeOK
<1>1. Init => TypeOK
  BY InitTyped
<1>2. TypeOK /\ [Next]_vars => TypeOK'
  BY TypeInductive
<1>. QED  BY <1>1, <1>2, PTL DEF Spec

-----------------------------------------------------------------------------
(* The invariant, step by step.                                            *)

(* Nothing changes the request.                                            *)
LEMMA SameRequest ==
    ASSUME request' = request
    PROVE  /\ NoAnalyser' = NoAnalyser /\ ChangedFiles' = ChangedFiles
           /\ \A f : Asked(f)' <=> Asked(f)
           /\ plan' = plan => /\ PythonTargets' = PythonTargets
                              /\ Boundary' = Boundary /\ LayersOn' = LayersOn
<1>1. /\ NoAnalyser' = NoAnalyser /\ ChangedFiles' = ChangedFiles
      /\ \A f : Asked(f)' <=> Asked(f)
  BY DEF NoAnalyser, ChangedFiles, Asked
<1>2. ASSUME plan' = plan
      PROVE  /\ PythonTargets' = PythonTargets
             /\ Boundary' = Boundary /\ LayersOn' = LayersOn
  <2>1. jobs' = jobs /\ listed' = listed /\ explicit' = explicit
    BY <1>2 DEF plan
  <2>2. CalledParallel' = CalledParallel
    BY <2>1 DEF CalledParallel
  <2>3. IncludeFixtures' = IncludeFixtures
    BY <2>2 DEF IncludeFixtures
  <2>. QED  BY <2>1, <2>2, <2>3 DEF PythonTargets, DefaultPatterns, Boundary, LayersOn
<1>. QED  BY <1>1, <1>2

(* The files of the passes only become fewer, and so do the chains.        *)
LEMMA PassesShrink ==
    ASSUME UNCHANGED <<request, plan>>, deleted \subseteq deleted'
    PROVE  /\ TypeScriptFiles' \subseteq TypeScriptFiles /\ GoFiles' \subseteq GoFiles
           /\ Readable' \subseteq Readable
           /\ SinksWithin(Readable)' \subseteq SinksWithin(Readable)
<1>1. listed' = listed /\ explicit' = explicit
  BY DEF plan
<1>2. TypeScriptFiles' \subseteq TypeScriptFiles /\ GoFiles' \subseteq GoFiles
  BY <1>1 DEF TypeScriptFiles, GoFiles, Of, Present
<1>3. IncludeFixtures' = IncludeFixtures
  BY DEF plan, IncludeFixtures, CalledParallel
<1>4. PythonFiles' \subseteq PythonFiles
  BY <1>1, <1>3 DEF PythonFiles, CollectFiles, Collected, DefaultPatterns, Of, Present
<1>5. Readable' \subseteq Readable
  BY <1>2, <1>4 DEF Readable, Present
<1>6. SinksWithin(Readable)' \subseteq SinksWithin(Readable)
  BY <1>5 DEF SinksWithin
<1>. QED  BY <1>2, <1>5, <1>6

(* The Python files of a scan, and what they all are.                      *)
LEMMA TargetFacts ==
    ASSUME TypeOK, PlanInv
    PROVE  /\ PythonTargets \subseteq Files
           /\ PythonFiles = PythonTargets \ deleted
           /\ \A f \in PythonTargets : Language[f] = "python"
           /\ phase \notin {"plan", "exited"} => \A f \in PythonTargets : Asked(f)
           /\ "python" \notin NoAnalyser
           /\ ~listed => PythonFiles = CollectFiles
<1>1. request.files \subseteq Files /\ explicit \subseteq Files
  BY RequestFacts DEF TypeOK
<1>2. PythonTargets \subseteq Files
  BY <1>1 DEF PythonTargets, Of
<1>3. PythonFiles = PythonTargets \ deleted
  BY DEF PythonFiles, CollectFiles, Collected, PythonTargets, Of, Present
<1>4. \A f \in PythonTargets : Language[f] = "python"
  BY DEF PythonTargets, Of
<1>5. ASSUME phase \notin {"plan", "exited"}, NEW f \in PythonTargets PROVE Asked(f)
  <2>1. CASE listed
    BY <2>1 DEF PlanInv, PythonTargets, Of
  <2>2. CASE ~listed
    <3>1. request.kind \in {"tree", "file"}
      BY <1>5, <2>2 DEF PlanInv
    <3>. QED  BY <2>2, <3>1 DEF PythonTargets, Of, Asked
  <2>. QED  BY <2>1, <2>2
<1>6. "python" \notin NoAnalyser
  BY DEF NoAnalyser
<1>7. ~listed => PythonFiles = CollectFiles
  BY DEF PythonFiles
<1>. QED  BY <1>2, <1>3, <1>4, <1>5, <1>6, <1>7

(* The same for the passes after it, and for the unsupported files.        *)
LEMMA PassTargets ==
    ASSUME TypeOK, PlanInv, phase \notin {"plan", "exited"}
    PROVE  /\ \A f \in TypeScriptFiles : /\ Language[f] \in {"ts", "mts"} \ NoAnalyser
                                         /\ Asked(f) /\ f \notin deleted
           /\ \A f \in GoFiles : /\ Language[f] \in {"go"} \ NoAnalyser
                                 /\ Asked(f) /\ f \notin deleted
           /\ \A f \in UnsupportedFiles : Language[f] \in NoAnalyser
<1>1. ASSUME NEW f, listed, f \in explicit PROVE Asked(f)
  BY <1>1 DEF PlanInv
<1>2. ASSUME NEW f \in request.files, ~listed,
             request.kind = "file" \/ f \notin UserExcluded
      PROVE  Asked(f)
  <2>1. request.kind \in {"tree", "file"}
    BY <1>2 DEF PlanInv
  <2>. QED  BY <1>2, <2>1 DEF Asked
<1>3. ASSUME NEW f \in TypeScriptFiles
      PROVE  Language[f] \in {"ts", "mts"} \ NoAnalyser /\ Asked(f) /\ f \notin deleted
  <2>1. request.ts /\ Language[f] \in {"ts", "mts"} /\ f \notin deleted
    BY DEF TypeScriptFiles, Of, Present
  <2>2. Language[f] \notin NoAnalyser
    BY <2>1 DEF NoAnalyser
  <2>3. Asked(f)
    BY <1>1, <1>2 DEF TypeScriptFiles, Of, Present
  <2>. QED  BY <2>1, <2>2, <2>3
<1>4. ASSUME NEW f \in GoFiles
      PROVE  Language[f] \in {"go"} \ NoAnalyser /\ Asked(f) /\ f \notin deleted
  <2>1. request.go /\ Language[f] = "go" /\ f \notin deleted
    BY DEF GoFiles, Of, Present
  <2>2. Language[f] \notin NoAnalyser
    BY <2>1 DEF NoAnalyser
  <2>3. Asked(f)
    BY <1>1, <1>2 DEF GoFiles, Of, Present
  <2>. QED  BY <2>1, <2>2, <2>3
<1>5. \A f \in UnsupportedFiles : Language[f] \in NoAnalyser
  BY DEF UnsupportedFiles, Of
<1>. QED  BY <1>3, <1>4, <1>5

LEMMA OutcomeHonest ==
    ASSUME TypeOK, NEW f \in Files
    PROVE  Honest(OutcomeOf(f))
BY DEF OutcomeOf, Honest

(* Deleting a file makes no outcome a lie.                                 *)
LEMMA HonestKept ==
    ASSUME deleted \subseteq deleted', NEW o, Honest(o)
    PROVE  Honest(o)'
BY DEF Honest

(* The result is kept: passes only begin, files only go.                   *)
LEMMA OutcomesKept ==
    ASSUME OutcomesInv, UNCHANGED <<request, outcomes>>, deleted \subseteq deleted',
           Passed \subseteq Passed'
    PROVE  OutcomesInv'
<1>1. OneEach(outcomes)'
  BY DEF OutcomesInv, OneEach
<1>2. ASSUME NEW i \in DOMAIN outcomes
      PROVE  /\ Honest(outcomes[i])' /\ Asked(outcomes[i].file)'
             /\ Language[outcomes[i].file] \in Passed' \ NoAnalyser'
  BY SameRequest DEF OutcomesInv, Honest, Asked, ChangedFiles
<1>. QED  BY <1>1, <1>2 DEF OutcomesInv

(* Before the scan, and while the pool runs, there is no result.           *)
LEMMA NoOutcomeYet ==
    ASSUME TypeOK, OutcomesInv, phase \in {"plan", "start", "pool"}
    PROVE  outcomes = <<>> /\ FilesOf(outcomes) = {}
<1>1. outcomes \in Seq(Outcome)
  BY DEF TypeOK
<1>2. DOMAIN outcomes = {}
  BY DEF OutcomesInv, Passed
<1>. QED  BY <1>1, <1>2 DEF FilesOf

(* The end of the command with an exit code that is not 0, or a notice.    *)
LEMMA ExitKeeps ==
    ASSUME TypeOK, ScanInv, phase' = "exited", exit' # 0 \/ notice',
           UNCHANGED <<request, plan, outcomes, unsupported, deleted>>
    PROVE  ScanInv'
<1>1. OutcomesInv'
  BY OutcomesKept DEF Passed, Languages, ScanInv
<1>2. UnsupportedInv'
  BY SameRequest DEF ScanInv, UnsupportedInv
<1>3. PlanInv'
  BY SameRequest DEF ScanInv, PlanInv, plan
<1>. QED  BY <1>1, <1>2, <1>3 DEF ScanInv, SerialInv, PoolInv, CoverInv, ExitInv

(* A plan is made.                                                         *)
LEMMA PlanKeeps ==
    ASSUME TypeOK, ScanInv, phase = "plan", phase' = "start",
           UNCHANGED <<request, outcomes, unsupported, deleted, exit>>,
           listed' => /\ request.kind \in {"changed", "paths"}
                      /\ \A f \in explicit' : Asked(f),
           ~listed' => request.kind \in {"tree", "file"}
    PROVE  ScanInv'
<1>1. OutcomesInv'
  BY OutcomesKept DEF Passed, ScanInv
<1>2. UnsupportedInv'
  BY SameRequest DEF ScanInv, UnsupportedInv
<1>3. PlanInv'
  BY SameRequest DEF ScanInv, PlanInv
<1>. QED  BY <1>1, <1>2, <1>3 DEF ScanInv, SerialInv, PoolInv, CoverInv, ExitInv

(* The serial scan begins, at the start or after the pool failed.          *)
LEMMA SerialBegins ==
    ASSUME TypeOK, ScanInv, phase \in {"start", "pool"}, BeginSerial,
           UNCHANGED <<request, plan, outcomes, deleted, exit>>
    PROVE  ScanInv'
<1>0. phase' = "serial"
  BY DEF BeginSerial
<1>1. OutcomesInv'
  BY <1>0, OutcomesKept DEF Passed, ScanInv
<1>2. UnsupportedInv'
  BY PassTargets, SameRequest DEF ScanInv, UnsupportedInv, BeginSerial
<1>3. PlanInv'
  BY <1>0, SameRequest DEF ScanInv, PlanInv, plan
<1>4. SerialInv'
  <2>1. PICK l \in Listings(PythonFiles) : todo' = l
    BY DEF BeginSerial
  <2>2. FilesIn(todo') = PythonFiles /\ Distinct(todo')
    BY <2>1, RequestFacts, ListingFacts
  <2>3. PythonFiles = PythonTargets \ deleted /\ PythonTargets' = PythonTargets
    BY TargetFacts, SameRequest DEF ScanInv
  <2>4. FilesOf(outcomes) = {}
    BY NoOutcomeYet DEF ScanInv
  <2>5. FilesIn(todo)' = FilesIn(todo') /\ Distinct(todo)' = Distinct(todo')
        /\ FilesOf(outcomes)' = FilesOf(outcomes)
    BY DEF FilesIn, Distinct, FilesOf
  <2>. QED  BY <2>2, <2>3, <2>4, <2>5 DEF SerialInv
<1>. QED  BY <1>0, <1>1, <1>2, <1>3, <1>4 DEF ScanInv, PoolInv, CoverInv, ExitInv

(* The next file of a listing.                                             *)
LEMMA HeadTaken ==
    ASSUME NEW s \in Seq(Files), Distinct(s), s # <<>>
    PROVE  /\ Tail(s) \in Seq(Files) /\ Head(s) \in Files
           /\ Head(s) \notin FilesIn(Tail(s)) /\ Distinct(Tail(s))
           /\ FilesIn(s) = FilesIn(Tail(s)) \cup {Head(s)}
<1>. DEFINE t == Tail(s)
            x == Head(s)
<1>1. /\ t \in Seq(Files) /\ x \in Files /\ x = s[1]
      /\ Len(t) \in Nat /\ Len(s) = Len(t) + 1
      /\ DOMAIN t = 1 .. Len(t) /\ DOMAIN s = 1 .. Len(t) + 1
      /\ \A i \in 1 .. Len(t) : t[i] = s[i + 1]
  BY TailInSeq
<1>. HIDE DEF t, x
<1>2. \A i \in 1 .. Len(t) : i + 1 \in DOMAIN s /\ i + 1 # 1
  BY <1>1
<1>3. \A i \in DOMAIN s : i = 1 \/ (i - 1 \in 1 .. Len(t) /\ i = (i - 1) + 1)
  BY <1>1
<1>4. x \notin FilesIn(t)
  BY <1>1, <1>2 DEF FilesIn, Distinct
<1>5. ASSUME NEW i \in DOMAIN t, NEW j \in DOMAIN t, t[i] = t[j] PROVE i = j
  <2>1. i + 1 = j + 1 /\ i \in Int /\ j \in Int
    BY <1>1, <1>2, <1>5 DEF Distinct
  <2>. QED  BY <2>1
<1>6. ASSUME NEW i \in DOMAIN s PROVE s[i] \in FilesIn(t) \cup {x}
  <2>1. CASE i = 1
    BY <1>1, <2>1
  <2>2. CASE i # 1
    <3>1. i - 1 \in DOMAIN t /\ t[i - 1] = s[i]
      BY <1>1, <1>3, <2>2
    <3>. QED  BY <3>1 DEF FilesIn
  <2>. QED  BY <2>1, <2>2
<1>7. 1 \in DOMAIN s /\ \A i \in DOMAIN t : i + 1 \in DOMAIN s /\ s[i + 1] = t[i]
  BY <1>1, <1>2
<1>8. FilesIn(s) = FilesIn(t) \cup {x}
  BY <1>1, <1>6, <1>7 DEF FilesIn
<1>. QED  BY <1>1, <1>4, <1>5, <1>8 DEF t, x, Distinct

(* The files are dealt out.                                                *)
LEMMA PoolBegins ==
    ASSUME TypeOK, ScanInv, StartPool
    PROVE  ScanInv'
<1>0. /\ phase = "start" /\ phase' = "pool"
      /\ ~listed /\ request.kind # "file"
      /\ UNCHANGED <<request, plan, outcomes, unsupported, deleted, exit>>
  BY DEF StartPool, Parallel, answer
<1>1. OutcomesInv'
  BY <1>0, OutcomesKept DEF Passed, ScanInv
<1>2. UnsupportedInv'
  BY <1>0, SameRequest DEF ScanInv, UnsupportedInv
<1>3. PlanInv'
  BY <1>0, SameRequest DEF ScanInv, PlanInv, plan
<1>4. PoolInv'
  <2>1. PICK l \in Listings(CollectFiles), m \in Nat :
           /\ m = IF jobs < Len(l) THEN jobs ELSE Len(l)
           /\ pool' = [i \in 1 .. m |->
                          [state |-> "waiting", todo |-> ShardFiles(l, jobs, i),
                           outcomes |-> <<>>]]
    BY PoolDealt
  <2>2. l \in Seq(Files) /\ Distinct(l) /\ FilesIn(l) = CollectFiles
    BY RequestFacts, ListingFacts
  <2>3. jobs \in Nat \ {0}
    BY DEF TypeOK
  <2>4. /\ \A i \in 1 .. m :
              /\ Distinct(ShardFiles(l, jobs, i))
              /\ FilesIn(ShardFiles(l, jobs, i)) \subseteq FilesIn(l)
        /\ \A i, j \in 1 .. m :
              i # j => FilesIn(ShardFiles(l, jobs, i)) \cap FilesIn(ShardFiles(l, jobs, j)) = {}
        /\ \A f \in FilesIn(l) : \E i \in 1 .. m : f \in FilesIn(ShardFiles(l, jobs, i))
    BY <2>1, <2>2, <2>3, EveryFileDealt
  <2>5. /\ CollectFiles = PythonTargets \ deleted
        /\ PythonTargets' = PythonTargets /\ deleted' = deleted
    BY <1>0, TargetFacts, SameRequest DEF ScanInv
  <2>6. DOMAIN pool' = 1 .. m
        /\ \A i \in 1 .. m : /\ pool'[i].todo = ShardFiles(l, jobs, i)
                             /\ pool'[i].outcomes = <<>>
                             /\ pool'[i].state = "waiting"
    BY <2>1
  <2>7. FilesOf(<<>>) = {} /\ OneEach(<<>>)
    BY DEF FilesOf, OneEach
  <2>8. \A i \in 1 .. m : Held(pool'[i]) = FilesIn(ShardFiles(l, jobs, i))
    BY <2>6, <2>7 DEF Held
  <2>9. ASSUME NEW i \in 1 .. m PROVE Sound(pool[i])'
    <3>1. Held(pool'[i]) \subseteq PythonTargets'
      BY <2>2, <2>4, <2>5, <2>8
    <3>2. /\ Distinct(pool'[i].todo) /\ OneEach(pool'[i].outcomes)
          /\ FilesIn(pool'[i].todo) \cap FilesOf(pool'[i].outcomes) = {}
          /\ DOMAIN pool'[i].outcomes = {}
          /\ pool'[i].state # "done"
      BY <2>4, <2>6, <2>7
    <3>. QED  BY <3>1, <3>2 DEF Sound, Held, Distinct, OneEach, FilesIn, FilesOf
  <2>10. \A i, j \in 1 .. m : i # j => Held(pool'[i]) \cap Held(pool'[j]) = {}
    BY <2>4, <2>8
  <2>11. \A f \in PythonTargets' \ deleted' : \E i \in 1 .. m : f \in Held(pool'[i])
    BY <2>2, <2>4, <2>5, <2>8
  <2>. QED  BY <2>6, <2>9, <2>10, <2>11 DEF PoolInv
<1>. QED  BY <1>0, <1>1, <1>2, <1>3, <1>4 DEF ScanInv, SerialInv, CoverInv, ExitInv

(* One shard is replaced by one that is as sound and holds as many of the  *)
(* files that are still there.                                             *)
LEMMA ShardReplaced ==
    ASSUME TypeOK, ScanInv, phase = "pool", NEW i \in DOMAIN pool, NEW s \in Shard,
           pool' = [pool EXCEPT ![i] = s],
           UNCHANGED <<request, phase, plan, outcomes, unsupported, deleted, exit>>,
           Sound(s),
           Held(s) \subseteq Held(pool[i]),
           Held(pool[i]) \ deleted \subseteq Held(s)
    PROVE  ScanInv'
<1>1. OutcomesInv'
  BY OutcomesKept DEF Passed, ScanInv
<1>2. UnsupportedInv'
  BY SameRequest DEF ScanInv, UnsupportedInv
<1>3. PlanInv'
  BY SameRequest DEF ScanInv, PlanInv, plan
<1>4. PoolInv'
  <2>1. PythonTargets' = PythonTargets
    BY SameRequest
  <2>2. /\ \A j \in DOMAIN pool : Sound(pool[j])
        /\ \A j, k \in DOMAIN pool : j # k => Held(pool[j]) \cap Held(pool[k]) = {}
        /\ \A f \in PythonTargets \ deleted : \E j \in DOMAIN pool : f \in Held(pool[j])
    BY DEF ScanInv, PoolInv
  <2>3. /\ DOMAIN pool' = DOMAIN pool
        /\ pool'[i] = s
        /\ \A j \in DOMAIN pool : j # i => pool'[j] = pool[j]
    BY DEF TypeOK
  <2>5. \A j \in DOMAIN pool : Sound(pool'[j])
    BY <2>2, <2>3
  <2>6. \A j \in DOMAIN pool' : Sound(pool[j])'
    BY <2>1, <2>3, <2>5 DEF Sound, Honest
  <2>7. \A j \in DOMAIN pool : Held(pool'[j]) \subseteq Held(pool[j])
                               /\ Held(pool[j]) \ deleted \subseteq Held(pool'[j])
    BY <2>3
  <2>8. \A j, k \in DOMAIN pool' : j # k => Held(pool'[j]) \cap Held(pool'[k]) = {}
    BY <2>2, <2>3, <2>7
  <2>9. \A f \in PythonTargets' \ deleted' : \E j \in DOMAIN pool' : f \in Held(pool'[j])
    BY <2>1, <2>2, <2>3, <2>7
  <2>. QED  BY <2>6, <2>8, <2>9 DEF PoolInv
<1>. QED  BY <1>1, <1>2, <1>3, <1>4 DEF ScanInv, SerialInv, CoverInv, ExitInv

LEMMA WorkerKeeps ==
    ASSUME TypeOK, ScanInv, NEW i \in DOMAIN pool, ShardStep(i) \/ FailShard(i)
    PROVE  ScanInv'
<1>0. /\ phase = "pool"
      /\ UNCHANGED <<request, phase, plan, outcomes, unsupported, deleted, exit>>
  BY WorkerTyped DEF answer
<1>. DEFINE todo_i == pool[i].todo
            found == pool[i].outcomes
            x == Head(todo_i)
<1>1. todo_i \in Seq(Files) /\ found \in Seq(Outcome)
  BY ShardTyped
<1>2. Sound(pool[i])
  BY <1>0 DEF ScanInv, PoolInv
<1>3. /\ Distinct(todo_i) /\ OneEach(found) /\ FilesIn(todo_i) \cap FilesOf(found) = {}
      /\ \A k \in DOMAIN found : Honest(found[k])
      /\ Held(pool[i]) \subseteq PythonTargets
      /\ Held(pool[i]) = FilesIn(todo_i) \cup FilesOf(found)
  BY <1>2 DEF Sound, Held
<1>4. CASE StartShard(i)
  <2>. DEFINE t == Remaining(todo_i)
              s == [state |-> "running", todo |-> t, outcomes |-> found]
  <2>1. t \in Seq(Files) /\ FilesIn(t) = FilesIn(todo_i) \ deleted /\ Distinct(t)
    BY <1>1, <1>3, RemainingFacts
  <2>2. pool' = [pool EXCEPT ![i] = s]
    BY <1>4, ShardSteps
  <2>. HIDE DEF t, todo_i, found
  <2>3. s \in Shard /\ s.todo = t /\ s.outcomes = found /\ s.state # "done"
    BY <1>1, <2>1 DEF Shard
  <2>. HIDE DEF s
  <2>4. Held(s) = FilesIn(t) \cup FilesOf(found)
    BY <2>3 DEF Held
  <2>5. Sound(s)
    BY <1>3, <2>1, <2>3, <2>4 DEF Sound
  <2>. QED  BY <1>0, <1>3, <2>1, <2>2, <2>3, <2>4, <2>5, ShardReplaced
<1>5. CASE ScanInShard(i)
  <2>. DEFINE t == Tail(todo_i)
              o == Append(found, OutcomeOf(x))
              s == [state |-> "running", todo |-> t, outcomes |-> o]
  <2>0. todo_i # <<>>
    BY <1>5 DEF ScanInShard
  <2>1. pool' = [pool EXCEPT ![i] = s]
    BY <1>5, ShardSteps
  <2>. HIDE DEF todo_i, found
  <2>2. /\ t \in Seq(Files) /\ x \in Files /\ x \notin FilesIn(t) /\ Distinct(t)
        /\ FilesIn(todo_i) = FilesIn(t) \cup {x}
    BY <1>1, <1>3, <2>0, HeadTaken
  <2>3. OutcomeOf(x) \in Outcome /\ OutcomeOf(x).file = x /\ Honest(OutcomeOf(x))
    BY <2>2, OutcomeTyped, OutcomeHonest
  <2>4. x \notin FilesOf(found)
    BY <1>3, <2>2
  <2>. HIDE DEF t, x
  <2>5. /\ o \in Seq(Outcome) /\ FilesOf(o) = FilesOf(found) \cup {x} /\ OneEach(o)
        /\ \A k \in DOMAIN o : o[k] = OutcomeOf(x) \/ \E h \in DOMAIN found : o[k] = found[h]
    BY <1>1, <1>3, <2>3, <2>4, AppendOutcome
  <2>. HIDE DEF o
  <2>6. s \in Shard /\ s.todo = t /\ s.outcomes = o /\ s.state # "done"
    BY <2>2, <2>5 DEF Shard
  <2>. HIDE DEF s
  <2>7. Held(s) = FilesIn(t) \cup FilesOf(o)
    BY <2>6 DEF Held
  <2>8. \A k \in DOMAIN o : Honest(o[k])
    BY <1>3, <2>3, <2>5
  <2>9. FilesIn(t) \cap FilesOf(o) = {} /\ Held(s) = Held(pool[i])
    BY <1>3, <2>2, <2>5, <2>7
  <2>10. Sound(s)
    BY <1>3, <2>2, <2>5, <2>6, <2>8, <2>9 DEF Sound
  <2>. QED  BY <1>0, <2>1, <2>6, <2>9, <2>10, ShardReplaced
<1>6. CASE FinishShard(i) \/ FailShard(i)
  <2>1. PICK state \in {"done", "failed"} :
           /\ pool' = [pool EXCEPT ![i] = [state |-> state, todo |-> todo_i, outcomes |-> found]]
           /\ state = "done" => todo_i = <<>>
    <3>1. CASE FinishShard(i)
      BY <3>1, ShardSteps DEF FinishShard
    <3>2. CASE FailShard(i)
      BY <3>2, ShardSteps
    <3>. QED  BY <1>6, <3>1, <3>2
  <2>. DEFINE s == [state |-> state, todo |-> todo_i, outcomes |-> found]
  <2>2. pool' = [pool EXCEPT ![i] = s]
    BY <2>1
  <2>. HIDE DEF todo_i, found
  <2>3. s \in Shard /\ s.todo = todo_i /\ s.outcomes = found /\ s.state = state
    BY <1>1, <2>1 DEF Shard
  <2>. HIDE DEF s
  <2>4. Held(s) = Held(pool[i])
    BY <1>3, <2>3 DEF Held
  <2>5. Sound(s)
    BY <1>3, <2>1, <2>3, <2>4 DEF Sound
  <2>. QED  BY <1>0, <2>2, <2>3, <2>4, <2>5, ShardReplaced
<1>. QED  BY <1>4, <1>5, <1>6 DEF ShardStep

(* No worker failed: the shards are put together.                          *)
LEMMA MergeKeeps ==
    ASSUME TypeOK, ScanInv, Merge
    PROVE  ScanInv'
<1>0. /\ phase = "pool" /\ phase' = "typescript-pool"
      /\ UNCHANGED <<request, plan, unsupported, deleted, exit>>
      /\ outcomes' = Merged[Len(pool)]
      /\ \A i \in DOMAIN pool : pool[i].state = "done"
  BY DEF Merge, PoolEnded, PoolFailed
<1>1. /\ \A i \in DOMAIN pool : Sound(pool[i])
      /\ \A i, j \in DOMAIN pool : i # j => Held(pool[i]) \cap Held(pool[j]) = {}
      /\ \A f \in PythonTargets \ deleted : \E i \in DOMAIN pool : f \in Held(pool[i])
  BY <1>0 DEF ScanInv, PoolInv
<1>2. \A i \in DOMAIN pool : Held(pool[i]) = FilesOf(pool[i].outcomes)
  <2>1. \A i \in DOMAIN pool : pool[i].todo = <<>>
    BY <1>0, <1>1 DEF Sound
  <2>2. FilesIn(<<>>) = {}
    BY DEF FilesIn
  <2>. QED  BY <2>1, <2>2 DEF Held
<1>3. Apart
  BY <1>1, <1>2 DEF Apart, Sound
<1>. DEFINE m == Merged[Len(pool)]
<1>4. /\ m \in Seq(Outcome) /\ OneEach(m)
      /\ FilesOf(m) = UNION {FilesOf(pool[i].outcomes) : i \in DOMAIN pool}
      /\ \A k \in DOMAIN m : \E i \in DOMAIN pool : \E h \in DOMAIN pool[i].outcomes :
            m[k] = pool[i].outcomes[h]
  BY <1>3, MergedFacts DEF TypeOK
<1>. HIDE DEF m
<1>5. outcomes' = m
  BY <1>0 DEF m
<1>6. FilesOf(m) \subseteq PythonTargets /\ PythonTargets \ deleted \subseteq FilesOf(m)
  <2>1. \A i \in DOMAIN pool : FilesOf(pool[i].outcomes) \subseteq PythonTargets
    BY <1>1, <1>2 DEF Sound
  <2>2. \A f \in PythonTargets \ deleted :
           \E i \in DOMAIN pool : f \in FilesOf(pool[i].outcomes)
    BY <1>1, <1>2
  <2>. QED  BY <1>4, <2>1, <2>2
<1>7. \A k \in DOMAIN m : Honest(m[k]) /\ m[k].file \in PythonTargets
  <2>1. \A k \in DOMAIN m : m[k].file \in FilesOf(m)
    BY DEF FilesOf
  <2>2. \A k \in DOMAIN m : Honest(m[k])
    BY <1>1, <1>4 DEF Sound
  <2>. QED  BY <1>6, <2>1, <2>2
<1>8. \A k \in DOMAIN m : /\ Asked(m[k].file)
                          /\ Language[m[k].file] \in {"python"} \ NoAnalyser
  BY <1>0, <1>7, TargetFacts DEF ScanInv
<1>9. Passed' = {"python"} /\ NoAnalyser' = NoAnalyser /\ PythonTargets' = PythonTargets
      /\ \A f : Asked(f)' <=> Asked(f)
  BY <1>0, SameRequest DEF Passed
<1>10. OutcomesInv'
  <2>1. OneEach(outcomes)'
    BY <1>4, <1>5
  <2>2. ASSUME NEW k \in DOMAIN outcomes'
        PROVE  /\ Honest(outcomes[k])' /\ Asked(outcomes[k].file)'
               /\ Language[outcomes'[k].file] \in Passed' \ NoAnalyser'
    <3>1. k \in DOMAIN m /\ outcomes'[k] = m[k]
      BY <1>5
    <3>2. Honest(m[k]) /\ Asked(m[k].file)
          /\ Language[m[k].file] \in {"python"} \ NoAnalyser
      BY <1>7, <1>8, <3>1
    <3>3. Honest(outcomes[k])'
      BY <1>0, <3>1, <3>2 DEF Honest
    <3>4. Asked(outcomes[k].file)'
      BY <1>0, <3>1, <3>2 DEF Asked, ChangedFiles
    <3>. QED  BY <1>9, <3>1, <3>2, <3>3, <3>4
  <2>. QED  BY <2>1, <2>2 DEF OutcomesInv
<1>11. UnsupportedInv'
  BY <1>0, <1>9 DEF ScanInv, UnsupportedInv
<1>12. PlanInv'
  BY <1>0, SameRequest DEF ScanInv, PlanInv, plan
<1>13. CoverInv'
  BY <1>0, <1>5, <1>6, <1>9 DEF CoverInv
<1>. QED  BY <1>0, <1>10, <1>11, <1>12, <1>13 DEF ScanInv, SerialInv, PoolInv, ExitInv

(* The outcomes of a step of the result: old ones, and new ones that are   *)
(* as they should be.                                                      *)
LEMMA OutcomesGrow ==
    ASSUME OutcomesInv, UNCHANGED <<request, deleted>>, Passed \subseteq Passed',
           OneEach(outcomes'), NEW S,
           \A f \in S : Asked(f) /\ Language[f] \in Passed' \ NoAnalyser,
           \A i \in DOMAIN outcomes' :
              \/ \E k \in DOMAIN outcomes : outcomes'[i] = outcomes[k]
              \/ \E f \in S : /\ outcomes'[i].file = f
                              /\ Honest(outcomes'[i])
    PROVE  OutcomesInv'
<1>1. NoAnalyser' = NoAnalyser /\ (\A f : Asked(f)' <=> Asked(f))
  BY SameRequest
<1>2. ASSUME NEW i \in DOMAIN outcomes'
      PROVE  /\ Honest(outcomes[i])' /\ Asked(outcomes[i].file)'
             /\ Language[outcomes'[i].file] \in Passed' \ NoAnalyser'
  <2>. DEFINE o == outcomes'[i]
  <2>1. Honest(o) /\ Asked(o.file) /\ Language[o.file] \in Passed' \ NoAnalyser
    BY DEF OutcomesInv
  <2>2. Honest(outcomes[i])'
    BY <2>1 DEF Honest
  <2>3. Asked(outcomes[i].file)'
    BY <2>1 DEF Asked, ChangedFiles
  <2>. QED  BY <1>1, <2>1, <2>2, <2>3
<1>. QED  BY <1>2 DEF OutcomesInv

LEMMA SerialStep ==
    ASSUME TypeOK, ScanInv, ScanNext
    PROVE  ScanInv'
<1>. DEFINE x == Head(todo)
            t == Tail(todo)
            o == Append(outcomes, OutcomeOf(x))
<1>0. /\ phase = "serial" /\ todo # <<>> /\ todo' = t /\ outcomes' = o
      /\ UNCHANGED <<request, phase, plan, unsupported, deleted, exit>>
  BY DEF ScanNext
<1>1. /\ todo \in Seq(Files) /\ outcomes \in Seq(Outcome) /\ OneEach(outcomes)
      /\ Distinct(todo) /\ FilesIn(todo) \subseteq PythonTargets
      /\ FilesIn(todo) \cap FilesOf(outcomes) = {}
      /\ PythonTargets \ deleted \subseteq FilesIn(todo) \cup FilesOf(outcomes)
  BY <1>0 DEF TypeOK, ScanInv, OutcomesInv, SerialInv
<1>2. /\ t \in Seq(Files) /\ x \in Files /\ x \notin FilesIn(t) /\ Distinct(t)
      /\ FilesIn(todo) = FilesIn(t) \cup {x}
  BY <1>0, <1>1, HeadTaken
<1>3. OutcomeOf(x) \in Outcome /\ OutcomeOf(x).file = x /\ Honest(OutcomeOf(x))
  BY <1>2, OutcomeTyped, OutcomeHonest
<1>. HIDE DEF x, t
<1>4. /\ FilesOf(o) = FilesOf(outcomes) \cup {x} /\ OneEach(o)
      /\ \A k \in DOMAIN o : o[k] = OutcomeOf(x) \/ \E h \in DOMAIN outcomes : o[k] = outcomes[h]
  BY <1>1, <1>2, <1>3, AppendOutcome
<1>. HIDE DEF o
<1>5. Asked(x) /\ Language[x] \in {"python"} \ NoAnalyser
  BY <1>0, <1>1, <1>2, TargetFacts DEF ScanInv
<1>6. Passed = {"python"} /\ Passed' = {"python"} /\ NoAnalyser' = NoAnalyser
      /\ PythonTargets' = PythonTargets
  BY <1>0, SameRequest DEF Passed
<1>7. OutcomesInv'
  <2>1. \A i \in DOMAIN outcomes' :
           \/ \E k \in DOMAIN outcomes : outcomes'[i] = outcomes[k]
           \/ \E f \in {x} : /\ outcomes'[i].file = f
                             /\ Honest(outcomes'[i])
    BY <1>0, <1>3, <1>4
  <2>2. OneEach(outcomes') /\ \A f \in {x} : Asked(f) /\ Language[f] \in Passed' \ NoAnalyser
    BY <1>0, <1>4, <1>5, <1>6
  <2>. QED  BY <1>0, <1>6, <2>1, <2>2, OutcomesGrow DEF ScanInv
<1>8. SerialInv'
  <2>1. /\ FilesIn(t) \subseteq PythonTargets
        /\ FilesIn(t) \cap FilesOf(o) = {}
        /\ PythonTargets \ deleted \subseteq FilesIn(t) \cup FilesOf(o)
    BY <1>1, <1>2, <1>4
  <2>. QED  BY <1>0, <1>2, <1>6, <2>1 DEF SerialInv
<1>9. UnsupportedInv' /\ PlanInv'
  BY <1>0, SameRequest DEF ScanInv, UnsupportedInv, PlanInv, plan
<1>. QED  BY <1>0, <1>7, <1>8, <1>9 DEF ScanInv, PoolInv, CoverInv, ExitInv

LEMMA SerialEnds ==
    ASSUME TypeOK, ScanInv, FinishPython
    PROVE  ScanInv'
<1>0. /\ phase = "serial" /\ todo = <<>> /\ phase' = "typescript"
      /\ UNCHANGED <<request, plan, outcomes, unsupported, deleted, exit>>
  BY DEF FinishPython, answer
<1>1. OutcomesInv'
  BY <1>0, OutcomesKept DEF Passed, ScanInv
<1>2. UnsupportedInv' /\ PlanInv'
  BY <1>0, SameRequest DEF ScanInv, UnsupportedInv, PlanInv, plan
<1>3. CoverInv'
  <2>1. FilesIn(todo) = {}
    BY <1>0 DEF FilesIn
  <2>2. PythonTargets \ deleted \subseteq FilesOf(outcomes)
    BY <1>0, <2>1 DEF ScanInv, SerialInv
  <2>3. PythonTargets' = PythonTargets
    BY <1>0, SameRequest
  <2>. QED  BY <1>0, <2>2, <2>3 DEF CoverInv
<1>. QED  BY <1>0, <1>1, <1>2, <1>3 DEF ScanInv, SerialInv, PoolInv, ExitInv

(* A pass over files of languages that no pass was for so far.             *)
LEMMA PassKeeps ==
    ASSUME TypeOK, ScanInv, NEW S \in SUBSET Files, Examine(S),
           phase \in {"typescript", "typescript-pool", "go"},
           phase' \in {"go", "repository", "report"},
           phase' = "go" => S = TypeScriptFiles,
           phase' = "repository" => phase = "go" /\ S = GoFiles,
           UNCHANGED <<request, plan, deleted, exit>>,
           Passed \subseteq Passed',
           \A f \in S : /\ Asked(f) /\ f \notin deleted
                        /\ Language[f] \in (Passed' \ Passed) \ NoAnalyser,
           unsupported' \in {unsupported, UnsupportedFiles}
    PROVE  ScanInv'
<1>1. /\ FilesOf(outcomes') = FilesOf(outcomes) \cup S
      /\ \A i \in DOMAIN outcomes' :
            \/ \E k \in DOMAIN outcomes : outcomes'[i] = outcomes[k]
            \/ \E f \in S : outcomes'[i] = OutcomeOf(f)
      /\ OneEach(outcomes) /\ FilesOf(outcomes) \cap S = {} => OneEach(outcomes')
  BY ExamineFacts
<1>2. FilesOf(outcomes) \cap S = {} /\ OneEach(outcomes)
  BY DEF ScanInv, OutcomesInv, FilesOf
<1>3. OutcomesInv'
  <2>1. \A f \in S : OutcomeOf(f).file = f /\ Honest(OutcomeOf(f))
    BY OutcomeTyped, OutcomeHonest
  <2>2. \A i \in DOMAIN outcomes' :
           \/ \E k \in DOMAIN outcomes : outcomes'[i] = outcomes[k]
           \/ \E f \in S : /\ outcomes'[i].file = f
                           /\ Honest(outcomes'[i])
    BY <1>1, <2>1
  <2>. QED  BY <1>1, <1>2, <2>2, OutcomesGrow DEF ScanInv
<1>4. PlanInv'
  BY SameRequest DEF ScanInv, PlanInv, plan
<1>5. UnsupportedInv'
  BY PassTargets, SameRequest DEF ScanInv, UnsupportedInv
<1>6. CoverInv'
  <2>1. PythonTargets \ deleted \subseteq FilesOf(outcomes) /\ PythonTargets' = PythonTargets
    BY SameRequest DEF ScanInv, CoverInv
  <2>2. TypeScriptFiles' \subseteq TypeScriptFiles /\ GoFiles' \subseteq GoFiles
    BY PassesShrink
  <2>3. phase = "go" => TypeScriptFiles \subseteq FilesOf(outcomes)
    BY DEF ScanInv, CoverInv
  <2>. QED  BY <1>1, <2>1, <2>2, <2>3 DEF CoverInv
<1>. QED  BY <1>3, <1>4, <1>5, <1>6 DEF ScanInv, SerialInv, PoolInv, ExitInv

(* The layers leave the outcomes alone.                                    *)
LEMMA LayersKeep ==
    ASSUME TypeOK, ScanInv, phase \in {"repository", "cross-language"},
           phase' \in {"cross-language", "report"},
           UNCHANGED <<request, plan, outcomes, unsupported, deleted, exit>>
    PROVE  ScanInv'
<1>1. OutcomesInv'
  BY OutcomesKept DEF Passed, ScanInv
<1>2. UnsupportedInv' /\ PlanInv'
  BY SameRequest DEF ScanInv, UnsupportedInv, PlanInv, plan
<1>3. CoverInv'
  <2>1. /\ PythonTargets \ deleted \subseteq FilesOf(outcomes)
        /\ TypeScriptFiles \subseteq FilesOf(outcomes) /\ GoFiles \subseteq FilesOf(outcomes)
    BY DEF ScanInv, CoverInv
  <2>2. PythonTargets' = PythonTargets
    BY SameRequest
  <2>3. TypeScriptFiles' \subseteq TypeScriptFiles /\ GoFiles' \subseteq GoFiles
    BY PassesShrink
  <2>. QED  BY <2>1, <2>2, <2>3 DEF CoverInv
<1>. QED  BY <1>1, <1>2, <1>3 DEF ScanInv, SerialInv, PoolInv, ExitInv

LEMMA ReportKeeps ==
    ASSUME TypeOK, ScanInv, Report
    PROVE  ScanInv'
<1>0. /\ phase = "report" /\ phase' = "exited" /\ exit' = ExitCode
      /\ UNCHANGED <<request, plan, outcomes, unsupported, reached, deleted, notice>>
  BY DEF Report, Exit, answer, layer
<1>1. OutcomesInv'
  BY <1>0, OutcomesKept DEF Passed, ScanInv
<1>2. UnsupportedInv' /\ PlanInv'
  BY <1>0, SameRequest DEF ScanInv, UnsupportedInv, PlanInv, plan
<1>3. ExitInv'
  <2>1. PythonTargets \ deleted \subseteq FilesOf(outcomes) /\ PythonTargets' = PythonTargets
    BY <1>0, SameRequest DEF ScanInv, CoverInv
  <2>2. exit' = 0 => Reported = {}
    BY <1>0 DEF ExitCode
  <2>3. Reported' = Reported
    BY <1>0, SameRequest DEF Reported, Examined, Finds
  <2>. QED  BY <1>0, <2>1, <2>2, <2>3 DEF ExitInv
<1>. QED  BY <1>0, <1>1, <1>2, <1>3 DEF ScanInv, SerialInv, PoolInv, CoverInv

(* A file goes: no outcome becomes wrong by it, and no file left uncovered. *)
LEMMA DeleteKeeps ==
    ASSUME TypeOK, ScanInv, NEW f \in Files, Delete(f)
    PROVE  ScanInv'
<1>0. /\ phase # "exited" /\ deleted' = deleted \cup {f}
      /\ UNCHANGED <<request, phase, plan, todo, pool, outcomes, unsupported, exit>>
  BY DEF Delete, answer
<1>1. OutcomesInv'
  BY <1>0, OutcomesKept DEF Passed, ScanInv
<1>2. UnsupportedInv' /\ PlanInv'
  BY <1>0, SameRequest DEF ScanInv, UnsupportedInv, PlanInv, plan
<1>3. PythonTargets' = PythonTargets /\ deleted \subseteq deleted'
  BY <1>0, SameRequest
<1>4. SerialInv' /\ CoverInv'
  <2>1. TypeScriptFiles' \subseteq TypeScriptFiles /\ GoFiles' \subseteq GoFiles
    BY <1>0, <1>3, PassesShrink DEF plan
  <2>. QED  BY <1>0, <1>3, <2>1 DEF ScanInv, SerialInv, CoverInv
<1>5. PoolInv'
  <2>1. phase = "pool" => \A i \in DOMAIN pool : Sound(pool[i])'
    BY <1>0, <1>3 DEF ScanInv, PoolInv, Sound, Honest
  <2>. QED  BY <1>0, <1>3, <2>1 DEF ScanInv, PoolInv
<1>. QED  BY <1>0, <1>1, <1>2, <1>4, <1>5 DEF ScanInv, ExitInv

LEMMA InitInv == Init => ScanInv
<1>. SUFFICES ASSUME Init PROVE ScanInv
  OBVIOUS
<1>1. /\ phase = "plan" /\ exit = -1 /\ listed = FALSE
      /\ outcomes = <<>> /\ unsupported = {}
  BY DEF Init
<1>2. OutcomesInv
  BY <1>1 DEF OutcomesInv, OneEach
<1>. QED
  BY <1>1, <1>2 DEF ScanInv, PlanInv, UnsupportedInv, SerialInv, PoolInv, CoverInv, ExitInv

LEMMA ScanInductive == TypeOK /\ ScanInv /\ [Next]_vars => ScanInv'
<1>. SUFFICES ASSUME TypeOK, ScanInv, [Next]_vars PROVE ScanInv'
  OBVIOUS
<1>1. CASE RefuseMissing
  BY <1>1, ExitKeeps DEF RefuseMissing, Exit, answer
<1>2. CASE RefuseNoDiff
  BY <1>2, ExitKeeps DEF RefuseNoDiff, Exit, answer
<1>3. CASE PlanTree
  <2>1. listed' = listed /\ explicit' = explicit /\ request.kind \in {"tree", "file"}
    BY <1>3 DEF PlanTree
  <2>2. ~listed'
    BY <2>1 DEF ScanInv, PlanInv
  <2>. QED  BY <1>3, <2>1, <2>2, PlanKeeps DEF PlanTree, answer
<1>4. CASE PlanPaths
  <2>1. \A f \in explicit' : Asked(f)
    BY <1>4 DEF PlanPaths, Asked
  <2>. QED  BY <1>4, <2>1, PlanKeeps DEF PlanPaths, answer
<1>5. CASE NothingChanged
  BY <1>5, ExitKeeps DEF NothingChanged, Exit, answer
<1>6. CASE PlanChanged
  <2>1. \A f \in explicit' : Asked(f)
    BY <1>6 DEF PlanChanged, Asked, ChangedFiles, Of
  <2>. QED  BY <1>6, <2>1, PlanKeeps DEF PlanChanged, answer
<1>7. CASE StartSerial
  BY <1>7, SerialBegins DEF StartSerial
<1>8. CASE StartPool
  BY <1>8, PoolBegins
<1>9. CASE FallBack
  BY <1>9, SerialBegins DEF FallBack
<1>10. CASE Merge
  BY <1>10, MergeKeeps
<1>11. CASE ScanNext
  BY <1>11, SerialStep
<1>12. CASE FinishPython
  BY <1>12, SerialEnds
<1>13. CASE ScanTypeScript
  <2>1. /\ phase \in {"typescript", "typescript-pool"} /\ Examine(TypeScriptFiles)
        /\ phase' \in {"go", "report"} /\ unsupported' \in {unsupported, UnsupportedFiles}
        /\ UNCHANGED <<request, plan, deleted, exit>>
    BY <1>13 DEF ScanTypeScript
  <2>2. Passed = {"python"} /\ {"python", "ts", "mts"} \subseteq Passed'
    BY <2>1 DEF Passed, Languages
  <2>3. /\ TypeScriptFiles \in SUBSET Files
        /\ \A f \in TypeScriptFiles : /\ Asked(f) /\ f \notin deleted
                                      /\ Language[f] \in (Passed' \ Passed) \ NoAnalyser
    BY <2>1, <2>2, RequestFacts, PassTargets DEF ScanInv
  <2>. QED  BY <2>1, <2>2, <2>3, PassKeeps
<1>14. CASE ScanGo
  <2>1. /\ phase = "go" /\ Examine(GoFiles) /\ phase' = "repository"
        /\ UNCHANGED <<request, plan, unsupported, deleted, exit>>
    BY <1>14 DEF ScanGo
  <2>2. Passed = {"python", "ts", "mts"} /\ Passed' = Languages
    BY <2>1 DEF Passed
  <2>3. /\ GoFiles \in SUBSET Files
        /\ \A f \in GoFiles : /\ Asked(f) /\ f \notin deleted
                              /\ Language[f] \in (Passed' \ Passed) \ NoAnalyser
    BY <2>1, <2>2, RequestFacts, PassTargets DEF ScanInv, Languages
  <2>4. Passed \subseteq Passed'
    BY <2>2 DEF Languages
  <2>. QED  BY <2>1, <2>3, <2>4, PassKeeps
<1>15. CASE Report
  BY <1>15, ReportKeeps
<1>16. CASE Raise
  BY <1>16, ExitKeeps DEF Raise, Exit, answer
<1>17. ASSUME NEW i \in DOMAIN pool, ShardStep(i) \/ FailShard(i) PROVE ScanInv'
  BY <1>17, WorkerKeeps
<1>18. ASSUME NEW f \in Files, Delete(f) PROVE ScanInv'
  BY <1>18, DeleteKeeps
<1>19. CASE UNCHANGED vars
  <2>1. UNCHANGED <<request, phase, plan, todo, pool, outcomes, unsupported, reached, exit,
                    notice, deleted>>
    BY <1>19 DEF vars, answer, layer
  <2>2. OutcomesInv'
    BY <2>1, OutcomesKept DEF Passed, ScanInv
  <2>3. PlanInv' /\ UnsupportedInv' /\ PythonTargets' = PythonTargets
    BY <2>1, SameRequest DEF ScanInv, UnsupportedInv, PlanInv, plan
  <2>4. SerialInv' /\ CoverInv'
    BY <2>1, <2>3, PassesShrink DEF ScanInv, SerialInv, CoverInv
  <2>5. PoolInv'
    BY <2>1, <2>3 DEF ScanInv, PoolInv, Sound, Honest
  <2>6. ExitInv'
    BY <2>1, <2>3, SameRequest DEF ScanInv, ExitInv, Reported, Examined, Finds
  <2>. QED  BY <2>2, <2>3, <2>4, <2>5, <2>6 DEF ScanInv
<1>20. CASE AnalyseRepository \/ AnalyseCrossLanguage
  BY <1>20, LayersKeep DEF AnalyseRepository, AnalyseCrossLanguage
<1>. QED
  BY <1>1, <1>2, <1>3, <1>4, <1>5, <1>6, <1>7, <1>8, <1>9, <1>10, <1>11, <1>12, <1>13,
     <1>14, <1>15, <1>16, <1>17, <1>18, <1>19, <1>20 DEF Next, Parent, Plan

(* Nothing happens to the layers.                                          *)
LEMMA LayersIdle ==
    ASSUME LayerInv, UNCHANGED layer, phase \notin {"cross-language", "report", "exited"},
           phase' # "cross-language"
    PROVE  LayerInv'
<1>1. reached = {} /\ ~layered /\ reached' = {} /\ ~layered'
  BY DEF LayerInv, layer
<1>. QED  BY <1>1 DEF LayerInv

(* A chain of files that can be read is one of the files of one layer.     *)
LEMMA ChainsSplit ==
    ASSUME TypeOK, PlanInv, NEW c \in Chains, c.files \subseteq Readable
    PROVE  /\ c.sink \in c.files
           /\ \/ c.files \subseteq (PythonTargets \ deleted) \ Broken
              \/ /\ c.files \subseteq (TypeScriptFiles \cup GoFiles) \ (Broken \cup deleted)
                 /\ \A f \in c.files : Language[f] \in {"ts", "mts", "go"}
<1>1. c.sink \in c.files
  BY CoverageAssumption
<1>2. PICK group \in {{"python"}, {"ts", "mts"}, {"go"}} : \A f \in c.files : Language[f] \in group
  BY CoverageAssumption
<1>3. /\ PythonFiles = PythonTargets \ deleted
      /\ \A f \in PythonTargets : Language[f] = "python"
  BY TargetFacts
<1>4. /\ \A f \in TypeScriptFiles : Language[f] \in {"ts", "mts"}
      /\ \A f \in GoFiles : Language[f] = "go"
  BY DEF TypeScriptFiles, GoFiles, Of
<1>5. \A f \in c.files : /\ f \in PythonFiles \cup TypeScriptFiles \cup GoFiles
                         /\ f \notin Broken /\ f \notin deleted
  BY DEF Readable, Present
<1>6. CASE group = {"python"}
  BY <1>1, <1>2, <1>3, <1>4, <1>5, <1>6
<1>7. CASE group \in {{"ts", "mts"}, {"go"}}
  BY <1>1, <1>2, <1>3, <1>4, <1>5, <1>7
<1>. QED  BY <1>2, <1>6, <1>7

LEMMA RepositoryLayered ==
    ASSUME TypeOK, ScanInv, LayerInv, AnalyseRepository
    PROVE  LayerInv'
<1>. DEFINE S == Of(Scanned, {"python"})
            found == SinksWithin(S \ (Broken \cup deleted))
<1>1. /\ phase = "repository" /\ phase' = "cross-language" /\ LayerOver(S)
      /\ UNCHANGED <<request, plan, outcomes, deleted>>
  BY DEF AnalyseRepository
<1>2. /\ PythonTargets' = PythonTargets /\ LayersOn' = LayersOn
      /\ FilesOf(outcomes)' = FilesOf(outcomes) /\ Scanned = FilesOf(outcomes)
  BY <1>1, SameRequest DEF FilesOf, Scanned
<1>3. reached = {} /\ ~layered
  BY <1>1 DEF LayerInv
<1>4. found \subseteq FilesOf(outcomes)
  BY <1>2, CoverageAssumption DEF SinksWithin, Of
<1>5. PythonTargets \ deleted \subseteq S
  <2>1. PythonTargets \ deleted \subseteq FilesOf(outcomes)
    BY <1>1 DEF ScanInv, CoverInv
  <2>. QED  BY <1>2, <2>1, TargetFacts DEF ScanInv, Of
<1>6. SinksWithin((PythonTargets \ deleted) \ Broken) \subseteq found
  BY <1>5 DEF SinksWithin
<1>7. S = {} => found = {}
  BY CoverageAssumption DEF SinksWithin
<1>. HIDE DEF S, found
<1>8. CASE /\ ~(LayersOn /\ request.kind # "file" /\ S # {})
           /\ UNCHANGED <<reached, layered, layerFailed, failures>>
  <2>1. (SinksWithin((PythonTargets \ deleted) \ Broken))' =
           SinksWithin((PythonTargets \ deleted) \ Broken)
    BY <1>1, <1>2 DEF SinksWithin
  <2>. QED  BY <1>1, <1>2, <1>3, <1>6, <1>7, <1>8, <2>1 DEF LayerInv
<1>9. CASE /\ LayersOn /\ request.kind # "file"
           /\ reached \subseteq reached' /\ reached' \subseteq reached \cup found
           /\ ~layerFailed' => found \subseteq reached'
  <2>1. (SinksWithin((PythonTargets \ deleted) \ Broken))' =
           SinksWithin((PythonTargets \ deleted) \ Broken)
    BY <1>1, <1>2 DEF SinksWithin
  <2>. QED  BY <1>1, <1>2, <1>3, <1>4, <1>6, <1>9, <2>1 DEF LayerInv
<1>. QED  BY <1>1, <1>8, <1>9, LayerFacts DEF found

LEMMA CrossLanguageLayered ==
    ASSUME TypeOK, ScanInv, LayerInv, AnalyseCrossLanguage
    PROVE  LayerInv'
<1>. DEFINE S == Of(Scanned, {"ts", "mts", "go"})
            found == SinksWithin(S \ (Broken \cup deleted))
            first == SinksWithin((PythonTargets \ deleted) \ Broken)
<1>1. /\ phase = "cross-language" /\ phase' = "report" /\ LayerOver(S)
      /\ UNCHANGED <<request, plan, outcomes, deleted>>
  BY DEF AnalyseCrossLanguage
<1>2. /\ LayersOn' = LayersOn
      /\ FilesOf(outcomes)' = FilesOf(outcomes) /\ Scanned = FilesOf(outcomes)
      /\ SinksWithin(Readable)' \subseteq SinksWithin(Readable)
  BY <1>1, SameRequest, PassesShrink DEF FilesOf, Scanned
<1>3. /\ reached \subseteq FilesOf(outcomes)
      /\ layered => LayersOn /\ request.kind # "file"
      /\ LayersOn /\ request.kind # "file" /\ ~layerFailed => first \subseteq reached
  BY <1>1 DEF LayerInv
<1>4. found \subseteq FilesOf(outcomes)
  BY <1>2, CoverageAssumption DEF SinksWithin, Of
<1>5. TypeScriptFiles \subseteq FilesOf(outcomes) /\ GoFiles \subseteq FilesOf(outcomes)
  BY <1>1 DEF ScanInv, CoverInv
<1>6. SinksWithin(Readable) \subseteq first \cup found
  <2>. SUFFICES ASSUME NEW c \in Chains, c.files \subseteq Readable
                PROVE  c.sink \in first \cup found
    BY DEF SinksWithin
  <2>1. CASE c.files \subseteq (PythonTargets \ deleted) \ Broken
    BY <2>1 DEF SinksWithin
  <2>2. CASE /\ c.files \subseteq (TypeScriptFiles \cup GoFiles) \ (Broken \cup deleted)
             /\ \A f \in c.files : Language[f] \in {"ts", "mts", "go"}
    <3>1. c.files \subseteq S \ (Broken \cup deleted)
      BY <1>2, <1>5, <2>2 DEF Of
    <3>. HIDE DEF S
    <3>. QED  BY <3>1 DEF SinksWithin
  <2>. QED  BY <2>1, <2>2, ChainsSplit DEF ScanInv
<1>7. S = {} => found = {}
  BY CoverageAssumption DEF SinksWithin
<1>. HIDE DEF S, found, first
<1>8. CASE /\ ~(LayersOn /\ request.kind # "file" /\ S # {})
           /\ UNCHANGED <<reached, layered, layerFailed, failures>>
  BY <1>1, <1>2, <1>3, <1>6, <1>7, <1>8 DEF LayerInv
<1>9. CASE /\ LayersOn /\ request.kind # "file"
           /\ reached \subseteq reached' /\ reached' \subseteq reached \cup found
           /\ layerFailed => layerFailed'
           /\ ~layerFailed' => found \subseteq reached'
  BY <1>1, <1>2, <1>3, <1>4, <1>6, <1>9 DEF LayerInv
<1>. QED  BY <1>1, <1>8, <1>9, LayerFacts DEF found

LEMMA LayerInductive == TypeOK /\ ScanInv /\ LayerInv /\ [Next]_vars => LayerInv'
<1>. SUFFICES ASSUME TypeOK, ScanInv, LayerInv, [Next]_vars PROVE LayerInv'
  OBVIOUS
<1>1. CASE Plan
  BY <1>1, LayersIdle DEF Plan, RefuseMissing, RefuseNoDiff, PlanTree, PlanPaths,
     NothingChanged, PlanChanged, Exit, answer, layer
<1>2. CASE StartSerial \/ StartPool \/ FallBack \/ Merge
  BY <1>2, LayersIdle DEF StartSerial, StartPool, FallBack, Merge, BeginSerial, answer, layer
<1>3. CASE ScanNext \/ FinishPython \/ ScanTypeScript \/ ScanGo \/ Raise
  BY <1>3, LayersIdle DEF ScanNext, FinishPython, ScanTypeScript, ScanGo, Raise, Exit,
     answer, layer
<1>4. CASE AnalyseRepository
  BY <1>4, RepositoryLayered
<1>5. CASE AnalyseCrossLanguage
  BY <1>5, CrossLanguageLayered
<1>6. CASE Report
  <2>1. /\ phase = "report" /\ phase' = "exited"
        /\ UNCHANGED <<request, plan, outcomes, reached, layered, layerFailed, deleted>>
    BY <1>6 DEF Report, Exit, answer, layer
  <2>2. /\ SinksWithin(Readable)' \subseteq SinksWithin(Readable) /\ LayersOn' = LayersOn
        /\ FilesOf(outcomes)' = FilesOf(outcomes)
    BY <2>1, PassesShrink, SameRequest DEF FilesOf
  <2>. QED  BY <2>1, <2>2 DEF LayerInv
<1>7. ASSUME NEW i \in DOMAIN pool, ShardStep(i) \/ FailShard(i) PROVE LayerInv'
  <2>1. UNCHANGED layer /\ phase = "pool" /\ phase' = "pool"
    BY <1>7, WorkerTyped DEF answer
  <2>. QED  BY <2>1, LayersIdle
<1>8. ASSUME /\ UNCHANGED <<request, phase, plan, outcomes, layer>>
             /\ deleted \subseteq deleted'
      PROVE  LayerInv'
  <2>1. UNCHANGED <<reached, layered, layerFailed>>
    BY <1>8 DEF layer
  <2>2. /\ SinksWithin(Readable)' \subseteq SinksWithin(Readable) /\ LayersOn' = LayersOn
        /\ PythonTargets' = PythonTargets
        /\ FilesOf(outcomes)' = FilesOf(outcomes)
    BY <1>8, PassesShrink, SameRequest DEF FilesOf
  <2>3. (SinksWithin((PythonTargets \ deleted) \ Broken))'
           \subseteq SinksWithin((PythonTargets \ deleted) \ Broken)
    BY <1>8, <2>2 DEF SinksWithin
  <2>. QED  BY <1>8, <2>1, <2>2, <2>3 DEF LayerInv
<1>9. ASSUME NEW f \in Files, Delete(f) PROVE LayerInv'
  BY <1>8, <1>9 DEF Delete, answer
<1>10. CASE UNCHANGED vars
  BY <1>8, <1>10 DEF vars, answer
<1>. QED
  BY <1>1, <1>2, <1>3, <1>4, <1>5, <1>6, <1>7, <1>9, <1>10 DEF Next, Parent

LEMMA ScanInvariant == Spec => [](TypeOK /\ ScanInv /\ LayerInv)
<1>1. Init => TypeOK /\ ScanInv /\ LayerInv
  <2>1. Init => LayerInv
    BY DEF Init, LayerInv
  <2>. QED  BY <2>1, InitTyped, InitInv
<1>2. TypeOK /\ ScanInv /\ LayerInv /\ [Next]_vars => TypeOK' /\ ScanInv' /\ LayerInv'
  BY TypeInductive, ScanInductive, LayerInductive
<1>. QED  BY <1>1, <1>2, PTL DEF Spec

-----------------------------------------------------------------------------
(* What follows.                                                           *)

(* A file with an outcome has one that tells the truth about it.           *)
LEMMA OutcomeThere ==
    ASSUME TypeOK, OutcomesInv, NEW f \in FilesOf(outcomes)
    PROVE  \E i \in DOMAIN outcomes :
              /\ outcomes[i] = [file |-> f, error |-> outcomes[i].error]
              /\ outcomes[i].error \in BOOLEAN
              /\ Honest(outcomes[i]) /\ outcomes[i].file = f
<1>1. PICK i \in DOMAIN outcomes : outcomes[i].file = f
  BY DEF FilesOf
<1>2. outcomes[i] \in Outcome
  BY DEF TypeOK
<1>3. outcomes[i] = [file |-> f, error |-> outcomes[i].error] /\ outcomes[i].error \in BOOLEAN
  BY <1>1, <1>2 DEF Outcome
<1>. QED  BY <1>1, <1>3 DEF OutcomesInv

(* However the Python files were dealt out to workers, whichever of these  *)
(* failed and whatever was deleted, each file that is still there has one  *)
(* outcome in the result, the outcome its own analysis has.                *)
THEOREM EachPythonFileOnce == Spec => []PythonScannedOnce
<1>1. TypeOK /\ ScanInv => PythonScannedOnce
  <2>. SUFFICES ASSUME TypeOK, ScanInv, phase = "report", NEW f \in PythonFiles
                PROVE  /\ Times(f) = 1
                       /\ \E i \in DOMAIN outcomes :
                             outcomes[i] = [file |-> f, error |-> f \in Broken]
    BY DEF PythonScannedOnce, Completed
  <2>1. f \in PythonTargets /\ f \notin deleted
    BY TargetFacts DEF ScanInv
  <2>2. f \in FilesOf(outcomes)
    BY <2>1 DEF ScanInv, CoverInv
  <2>3. Times(f) = 1
    BY <2>2, TimesAtMostOne DEF ScanInv, OutcomesInv, TypeOK
  <2>4. PICK i \in DOMAIN outcomes :
           /\ outcomes[i] = [file |-> f, error |-> outcomes[i].error]
           /\ outcomes[i].error \in BOOLEAN
           /\ Honest(outcomes[i]) /\ outcomes[i].file = f
    BY <2>2, OutcomeThere DEF ScanInv
  <2>5. outcomes[i].error <=> f \in Broken
    BY <2>1, <2>4 DEF Honest
  <2>6. outcomes[i].error = (f \in Broken)
    BY <2>4, <2>5
  <2>. QED  BY <2>3, <2>4, <2>6
<1>. QED  BY <1>1, ScanInvariant, PTL

(* Where calls lead to a sink through files of the scan that can be read,  *)
(* the layers report it, did not run, or the result says that one of them  *)
(* broke off.                                                              *)
THEOREM ChainsFound == Spec => []ChainsFoundOrDisclosed
<1>1. LayerInv => ChainsFoundOrDisclosed
  BY DEF LayerInv, ChainsFoundOrDisclosed, Completed
<1>. QED  BY <1>1, ScanInvariant, PTL

(* No file has two verdicts.                                               *)
THEOREM VerdictsUnique == Spec => []OneVerdictPerFile
<1>1. TypeOK /\ ScanInv => OneVerdictPerFile
  <2>. SUFFICES ASSUME TypeOK, ScanInv, NEW f \in Files
                PROVE  Times(f) + (IF f \in unsupported THEN 1 ELSE 0) <= 1
    BY DEF OneVerdictPerFile
  <2>1. Times(f) = IF f \in FilesOf(outcomes) THEN 1 ELSE 0
    BY TimesAtMostOne DEF ScanInv, OutcomesInv, TypeOK
  <2>2. ~(f \in FilesOf(outcomes) /\ f \in unsupported)
    BY DEF ScanInv, OutcomesInv, UnsupportedInv, FilesOf
  <2>. QED  BY <2>1, <2>2
<1>. QED  BY <1>1, ScanInvariant, PTL

(* Nothing is reported of a file that was not asked for or was excluded.   *)
THEOREM OnlyAsked == Spec => []OnlyWhatWasAsked
<1>1. ScanInv /\ LayerInv => OnlyWhatWasAsked
  <2>. SUFFICES ASSUME ScanInv, LayerInv, NEW f \in Scanned \cup reached PROVE Asked(f)
    BY DEF OnlyWhatWasAsked, Asked
  <2>1. f \in FilesOf(outcomes)
    BY DEF LayerInv, Scanned, FilesOf
  <2>. QED  BY <2>1 DEF ScanInv, OutcomesInv, FilesOf
<1>. QED  BY <1>1, ScanInvariant, PTL

(* A clean exit code is a scan that looked at every Python file, and whose *)
(* layers, if they ran to their end, left no chain of calls to a sink.     *)
THEOREM CleanExit == Spec => []CleanExitIsEarned
<1>1. TypeOK /\ ScanInv /\ LayerInv => CleanExitIsEarned
  <2>. SUFFICES ASSUME TypeOK, ScanInv, LayerInv, phase = "exited", exit = 0, ~notice
                PROVE  /\ \A f \in PythonFiles : Finds(f, Boundary) =>
                             \E i \in DOMAIN outcomes :
                                outcomes[i] = [file |-> f, error |-> TRUE]
                       /\ layered /\ ~layerFailed => SinksWithin(Readable) = {}
    BY DEF CleanExitIsEarned
  <2>1. PythonTargets \ deleted \subseteq FilesOf(outcomes) /\ Reported = {}
    BY DEF ScanInv, ExitInv
  <2>2. ASSUME NEW f \in PythonFiles, Finds(f, Boundary)
        PROVE  \E i \in DOMAIN outcomes : outcomes[i] = [file |-> f, error |-> TRUE]
    <3>1. f \in FilesOf(outcomes)
      BY <2>1, TargetFacts DEF ScanInv
    <3>2. PICK i \in DOMAIN outcomes :
             /\ outcomes[i] = [file |-> f, error |-> outcomes[i].error]
             /\ outcomes[i].error \in BOOLEAN
             /\ outcomes[i].file = f
      BY <3>1, OutcomeThere DEF ScanInv
    <3>3. outcomes[i].error = TRUE
      <4>1. ~outcomes[i].error => f \in Examined
        BY <3>2 DEF Examined
      <4>. QED  BY <2>1, <2>2, <3>2, <4>1 DEF Reported
    <3>. QED  BY <3>2, <3>3
  <2>3. layered /\ ~layerFailed => SinksWithin(Readable) = {}
    BY <2>1 DEF LayerInv, Reported
  <2>. QED  BY <2>2, <2>3
<1>. QED  BY <1>1, ScanInvariant, PTL
=============================================================================
