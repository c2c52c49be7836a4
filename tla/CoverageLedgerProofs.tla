-------------------------- MODULE CoverageLedgerProofs --------------------------
(***************************************************************************)
(* Proofs about CoverageLedger, for every set of candidates, probes,       *)
(* invocations and records.  The tables are counted claim by claim; the    *)
(* inductive invariant is that the ledger's own check holds of the claims  *)
(* counted so far, and each step keeps it because of what Valid says of    *)
(* the claim it counts.                                                    *)
(***************************************************************************)
EXTENDS CoverageLedger, FiniteSetTheorems, TLAPS

-----------------------------------------------------------------------------
(* What the constructor of a claim guarantees. *)

(* The state of several candidates is theirs if they agree; ERROR and       *)
(* CONFLICTING come from one of them.                                       *)
LEMMA AggregateIs ==
    ASSUME NEW S
    PROVE  \/ S = {Aggregate(S)}
           \/ Aggregate(S) = "ERROR" /\ "ERROR" \in S
           \/ Aggregate(S) = "CONFLICTING" /\ "CONFLICTING" \in S /\ "ERROR" \notin S
           \/ Aggregate(S) = "UNKNOWN" /\ "ERROR" \notin S /\ "CONFLICTING" \notin S
  <1>1. CASE \E s \in S : S = {s}
    <2>1. PICK s \in S : S = {s}  BY <1>1
    <2>2. (CHOOSE t \in S : TRUE) = s  BY <2>1
    <2> QED  BY <1>1, <2>1, <2>2 DEF Aggregate
  <1>2. CASE ~ \E s \in S : S = {s}
    BY <1>2 DEF Aggregate
  <1> QED  BY <1>1, <1>2

LEMMA ClaimFields ==
    ASSUME NEW k \in Claim
    PROVE  /\ k.obligations \in [Obligation -> ProofState]
           /\ k.verdict \in Verdict /\ k.stop \in Stop
           /\ k.size \in Nat /\ k.edges \in Seq(SUBSET Obligation)
           /\ k.id \in Invocation /\ k.candidates \subseteq Candidate
           /\ k.contradictions \subseteq Contradiction
  BY DEF Claim, Stop

(* IMPLEMENTATION is never refuted, of a candidate or of the claim. *)
LEMMA ImplementationNotRefuted ==
    ASSUME NEW k \in Claim, Valid(k)
    PROVE  k.obligations["IMPLEMENTATION"] # "REFUTED"
  <1> DEFINE S == StatesOf(k, "IMPLEMENTATION")
  <1>1. "IMPLEMENTATION" \in Obligation  BY DEF Obligation
  <1>2. k.obligations["IMPLEMENTATION"] = Aggregate(S)  BY <1>1 DEF Valid
  <1>3. \A c \in k.candidates : Effective(k, c)["IMPLEMENTATION"] # "REFUTED"
    BY DEF Valid, Justified
  <1>4. "REFUTED" \notin S  BY <1>3 DEF StatesOf
  <1> HIDE DEF S
  <1> QED  BY <1>2, <1>4, AggregateIs

(* What the verdict says of the states. *)
LEMMA VerdictOfStates ==
    ASSUME NEW k \in Claim, Valid(k)
    PROVE  /\ k.verdict = "ANALYSIS_ERROR" <=> \E o \in Obligation : k.obligations[o] = "ERROR"
           /\ k.verdict = "PROVEN_EFFECT" => \A o \in Obligation : k.obligations[o] = "SUPPORTED"
           /\ k.verdict = "NO_EFFECT" =>
                 /\ \E o \in EvidenceObligation : k.obligations[o] = "REFUTED"
                 /\ \A o \in Obligation : k.obligations[o] # "CONFLICTING"
           /\ ~ Investigated(k) => k.verdict = "ABSTAIN"
           /\ Len(k.edges) <= k.size
  <1>1. LegalVerdict(k) /\ LegalAcquisition(k)  BY DEF Valid
  <1>2. k.verdict = "ANALYSIS_ERROR" <=> \E o \in Obligation : k.obligations[o] = "ERROR"
    BY <1>1 DEF LegalVerdict, Failed
  <1>3. ASSUME k.verdict = "PROVEN_EFFECT"
        PROVE  \A o \in Obligation : k.obligations[o] = "SUPPORTED"
    BY <1>1, <1>3 DEF LegalVerdict, Failed, Proven
  <1>4. ASSUME k.verdict = "NO_EFFECT"
        PROVE  /\ \E o \in EvidenceObligation : k.obligations[o] = "REFUTED"
               /\ \A o \in Obligation : k.obligations[o] # "CONFLICTING"
    <2>1. PICK o \in Obligation : Closed(k, o)  BY <1>1, <1>4 DEF LegalVerdict
    <2> QED  BY <2>1 DEF Closed, EvidenceObligation
  <1>5. (~ Investigated(k) => k.verdict = "ABSTAIN") /\ Len(k.edges) <= k.size
    BY <1>1 DEF LegalAcquisition
  <1> QED  BY <1>2, <1>3, <1>4, <1>5

-----------------------------------------------------------------------------
(* Counting. *)

(* Two disjoint parts of a finite set add up to it. *)
LEMMA PartsAddUp ==
    ASSUME NEW A, NEW B, IsFiniteSet(A \cup B), A \cap B = {}
    PROVE  /\ IsFiniteSet(A) /\ IsFiniteSet(B)
           /\ Cardinality(A) \in Nat /\ Cardinality(B) \in Nat
           /\ Cardinality(A \cup B) = Cardinality(A) + Cardinality(B)
  <1>1. A \in SUBSET (A \cup B) /\ B \in SUBSET (A \cup B)  OBVIOUS
  <1>2. IsFiniteSet(A) /\ IsFiniteSet(B)  BY <1>1, FS_Subset
  <1>3. Cardinality(A) \in Nat /\ Cardinality(B) \in Nat  BY <1>2, FS_CardinalityType
  <1>4. Cardinality(A \cup B) = Cardinality(A) + Cardinality(B) - Cardinality(A \cap B)
    BY <1>2, FS_Union
  <1>5. Cardinality(A \cap B) = 0  BY FS_EmptySet
  <1> QED  BY <1>2, <1>3, <1>4, <1>5

(* The contradictions of a claim, counted by resolution and by obligation. *)
LEMMA DisputesAddUp ==
    ASSUME NEW C \in SUBSET Contradiction, IsFiniteSet(C)
    PROVE  /\ Cardinality(C) \in Nat
           /\ Cardinality({r \in C : r.overridden = {}}) \in Nat
           /\ Cardinality({r \in C : r.overridden # {}}) \in Nat
           /\ \A o \in Obligation : Cardinality({r \in C : r.obligation = o}) \in Nat
           /\ Cardinality(C) = Cardinality({r \in C : r.overridden = {}})
                                 + Cardinality({r \in C : r.overridden # {}})
           /\ Cardinality(C) = PerObligation([o \in Obligation |->
                                 Cardinality({r \in C : r.obligation = o})])
  <1> DEFINE On(o) == {r \in C : r.obligation = o}
             Rest1 == C \ On("IMPLEMENTATION")
             Rest2 == Rest1 \ On("ACTIVATION")
             Rest3 == Rest2 \ On("BOUNDARY")
             Open == {r \in C : r.overridden = {}}
             Settled == {r \in C : r.overridden # {}}
  <1>1. Cardinality(C) \in Nat  BY FS_CardinalityType
  <1>2. C = Open \cup Settled /\ Open \cap Settled = {}  OBVIOUS
  <1>3. /\ Cardinality(Open) \in Nat /\ Cardinality(Settled) \in Nat
        /\ Cardinality(C) = Cardinality(Open) + Cardinality(Settled)
    <2> HIDE DEF Open, Settled
    <2> QED  BY <1>2, PartsAddUp
  <1>4. \A o \in Obligation : Cardinality(On(o)) \in Nat
    <2> TAKE o \in Obligation
    <2>1. On(o) \in SUBSET C  OBVIOUS
    <2> QED  BY <2>1, FS_Subset, FS_CardinalityType
  <1>5. \A r \in C : r.obligation \in Obligation  BY DEF Contradiction
  <1>6. C = On("IMPLEMENTATION") \cup Rest1 /\ On("IMPLEMENTATION") \cap Rest1 = {}
    OBVIOUS
  <1>7. Rest1 = On("ACTIVATION") \cup Rest2 /\ On("ACTIVATION") \cap Rest2 = {}
    OBVIOUS
  <1>8. Rest2 = On("BOUNDARY") \cup Rest3 /\ On("BOUNDARY") \cap Rest3 = {}
    OBVIOUS
  <1>9. /\ Rest3 = On("OPERATION") \cup On("PERSISTENCE")
        /\ On("OPERATION") \cap On("PERSISTENCE") = {}
    BY <1>5 DEF Obligation
  <1>10. Cardinality(C) = Cardinality(On("IMPLEMENTATION")) + Cardinality(On("ACTIVATION"))
                           + Cardinality(On("BOUNDARY")) + Cardinality(On("OPERATION"))
                           + Cardinality(On("PERSISTENCE"))
    <2> HIDE DEF On, Rest1, Rest2, Rest3
    <2>1. IsFiniteSet(Rest1) /\ Cardinality(Rest1) \in Nat
          /\ Cardinality(On("IMPLEMENTATION")) \in Nat
          /\ Cardinality(C) = Cardinality(On("IMPLEMENTATION")) + Cardinality(Rest1)
      BY <1>6, PartsAddUp
    <2>2. IsFiniteSet(Rest2) /\ Cardinality(Rest2) \in Nat
          /\ Cardinality(On("ACTIVATION")) \in Nat
          /\ Cardinality(Rest1) = Cardinality(On("ACTIVATION")) + Cardinality(Rest2)
      BY <1>7, <2>1, PartsAddUp
    <2>3. IsFiniteSet(Rest3) /\ Cardinality(Rest3) \in Nat
          /\ Cardinality(On("BOUNDARY")) \in Nat
          /\ Cardinality(Rest2) = Cardinality(On("BOUNDARY")) + Cardinality(Rest3)
      BY <1>8, <2>2, PartsAddUp
    <2>4. /\ Cardinality(On("OPERATION")) \in Nat /\ Cardinality(On("PERSISTENCE")) \in Nat
          /\ Cardinality(Rest3) = Cardinality(On("OPERATION")) + Cardinality(On("PERSISTENCE"))
      BY <1>9, <2>3, PartsAddUp
    <2> QED  BY <2>1, <2>2, <2>3, <2>4
  <1>11. Cardinality(C) = PerObligation([o \in Obligation |-> Cardinality(On(o))])
    <2> HIDE DEF On
    <2> QED  BY <1>10 DEF PerObligation, Obligation
  <1> QED  BY <1>1, <1>3, <1>4, <1>11

(* An INCOMPLETE probe was executed. *)
LEMMA ProbesAddUp ==
    ASSUME NEW k
    PROVE  /\ Cardinality({x \in Probe : k.probes[x] # "missing"}) \in Nat
           /\ Cardinality({x \in Probe : k.probes[x] = "INCOMPLETE"}) \in Nat
           /\ Cardinality({x \in Probe : k.probes[x] = "INCOMPLETE"})
                <= Cardinality({x \in Probe : k.probes[x] # "missing"})
  <1> DEFINE Run == {x \in Probe : k.probes[x] # "missing"}
             Cut == {x \in Probe : k.probes[x] = "INCOMPLETE"}
  <1>1. Run \in SUBSET Probe /\ Cut \in SUBSET Run  OBVIOUS
  <1>2. IsFiniteSet(Run) /\ Cardinality(Run) \in Nat
    BY <1>1, ClaimAssumption, FS_Subset, FS_CardinalityType
  <1> HIDE DEF Run
  <1>3. IsFiniteSet(Cut) /\ Cardinality(Cut) \in Nat /\ Cardinality(Cut) <= Cardinality(Run)
    BY <1>1, <1>2, FS_Subset, FS_CardinalityType
  <1> QED  BY <1>2, <1>3 DEF Run

(* Claims of different identities are no more than there are identities. *)
LEMMA DistinctIdentities ==
    ASSUME NEW s \in Seq(Claim), \A i, j \in 1 .. Len(s) : s[i].id = s[j].id => i = j
    PROVE  Len(s) <= Cardinality(Invocation)
  <1> DEFINE f == [i \in 1 .. Len(s) |-> s[i].id]
  <1>1. Len(s) \in Nat  OBVIOUS
  <1>2. \A i \in 1 .. Len(s) : s[i].id \in Invocation  BY ClaimFields
  <1>3. f \in [1 .. Len(s) -> Invocation]  BY <1>2
  <1>4. f \in Injection(1 .. Len(s), Invocation)  BY <1>3 DEF Injection, IsInjective
  <1>5. Cardinality(1 .. Len(s)) <= Cardinality(Invocation)
    BY <1>4, LedgerAssumption, FS_Injection
  <1>6. Cardinality(1 .. Len(s)) = Len(s)
    <2>1. PICK n \in Nat : n = Len(s)  BY <1>1
    <2>2. Cardinality(1 .. n) = IF 1 > n THEN 0 ELSE n - 1 + 1  BY FS_Interval
    <2> QED  BY <2>1, <2>2
  <1> QED  BY <1>5, <1>6

-----------------------------------------------------------------------------
(* The inductive invariant. *)

(* The claims made are legal, and no two have one identity. *)
Made ==
    /\ \A i \in 1 .. Len(claims) : claims[i] \in Records /\ Valid(claims[i])
    /\ \A i, j \in 1 .. Len(claims) : claims[i].id = claims[j].id => i = j

(* Every table accounts for the claims counted so far. *)
Tallied ==
    /\ InvestigatedClaims + NotInvestigated = next - 1
    /\ stops["SETTLED"] + stops["other"] + NotInvestigated = next - 1
    /\ \A o \in Obligation :
          states[o]["SUPPORTED"] + states[o]["REFUTED"] + states[o]["UNKNOWN"]
              + states[o]["CONFLICTING"] + states[o]["ERROR"] = InvestigatedClaims
    /\ frontier.listed <= frontier.size
    /\ disputes.open + disputes.settled = disputes.total
    /\ PerObligation(disputes.on) = disputes.total
    /\ probing.incomplete <= probing.executed

IInv ==
    /\ TypeOK /\ Made /\ Tallied /\ VerdictsAgainstStates /\ ErrorsAgree
    /\ outcome # "raised"

-----------------------------------------------------------------------------
(* What counting one claim does to each table. *)

LEMMA VerdictCounted ==
    ASSUME TypeOK, NEW k \in Claim, CountVerdict(k)
    PROVE  /\ verdicts' \in [Verdict -> Nat]
           /\ \A v \in Verdict : verdicts'[v] =
                 IF Investigated(k) /\ k.verdict = v THEN verdicts[v] + 1 ELSE verdicts[v]
  <1>1. verdicts \in [Verdict -> Nat] /\ k.verdict \in Verdict  BY ClaimFields DEF TypeOK
  <1>2. CASE Investigated(k)
    <2>1. verdicts' = [verdicts EXCEPT ![k.verdict] = @ + 1]  BY <1>2 DEF CountVerdict
    <2> QED  BY <1>1, <1>2, <2>1
  <1>3. CASE ~ Investigated(k)
    <2>1. verdicts' = verdicts  BY <1>3 DEF CountVerdict
    <2> QED  BY <1>1, <1>3, <2>1
  <1> QED  BY <1>2, <1>3

LEMMA StatesCounted ==
    ASSUME TypeOK, NEW k \in Claim, CountStates(k)
    PROVE  /\ states' \in [Obligation -> [ProofState -> Nat]]
           /\ \A o \in Obligation, s \in ProofState : states'[o][s] =
                 IF Investigated(k) /\ k.obligations[o] = s THEN states[o][s] + 1 ELSE states[o][s]
  <1>1. states \in [Obligation -> [ProofState -> Nat]]  BY DEF TypeOK
  <1>2. k.obligations \in [Obligation -> ProofState]  BY ClaimFields
  <1>3. CASE Investigated(k)
    <2>1. states' = [o \in Obligation |-> [states[o] EXCEPT ![k.obligations[o]] = @ + 1]]
      BY <1>3 DEF CountStates
    <2>2. ASSUME NEW o \in Obligation
          PROVE  /\ states'[o] \in [ProofState -> Nat]
                 /\ \A s \in ProofState : states'[o][s] =
                       IF k.obligations[o] = s THEN states[o][s] + 1 ELSE states[o][s]
      <3>1. states[o] \in [ProofState -> Nat] /\ k.obligations[o] \in ProofState  BY <1>1, <1>2
      <3>2. states'[o] = [states[o] EXCEPT ![k.obligations[o]] = @ + 1]  BY <2>1
      <3> QED  BY <3>1, <3>2
    <2>3. states' \in [Obligation -> [ProofState -> Nat]]  BY <2>1, <2>2
    <2> QED  BY <1>3, <2>2, <2>3
  <1>4. CASE ~ Investigated(k)
    <2>1. states' = states  BY <1>4 DEF CountStates
    <2> QED  BY <1>1, <1>4, <2>1
  <1> QED  BY <1>3, <1>4

LEMMA ErrorsCounted ==
    ASSUME TypeOK, NEW k \in Claim, CountErrors(k)
    PROVE  /\ errors' \in [total : Nat, on : [Obligation -> Nat]]
           /\ errors'.total =
                 IF k.verdict = "ANALYSIS_ERROR" THEN errors.total + 1 ELSE errors.total
           /\ \A o \in Obligation : errors'.on[o] =
                 IF k.verdict = "ANALYSIS_ERROR" /\ k.obligations[o] = "ERROR"
                 THEN errors.on[o] + 1 ELSE errors.on[o]
  <1>1. errors \in [total : Nat, on : [Obligation -> Nat]]  BY DEF TypeOK
  <1>2. CASE k.verdict = "ANALYSIS_ERROR"
    <2>1. errors' = [total |-> errors.total + 1,
                     on |-> [o \in Obligation |->
                               errors.on[o] + IF k.obligations[o] = "ERROR" THEN 1 ELSE 0]]
      BY <1>2 DEF CountErrors
    <2>2. errors.total \in Nat /\ \A o \in Obligation : errors.on[o] \in Nat  BY <1>1
    <2>3. errors'.total = errors.total + 1  BY <2>1
    <2>4. errors'.on = [o \in Obligation |->
                          errors.on[o] + IF k.obligations[o] = "ERROR" THEN 1 ELSE 0]  BY <2>1
    <2>5. errors'.on \in [Obligation -> Nat]  BY <2>2, <2>4
    <2>6. errors' \in [total : Nat, on : [Obligation -> Nat]]
      <3>1. errors' = [total |-> errors'.total, on |-> errors'.on]  BY <2>1
      <3>2. errors'.total \in Nat  BY <2>2, <2>3
      <3> QED  BY <3>1, <3>2, <2>5
    <2>7. \A o \in Obligation : errors'.on[o] =
             IF k.obligations[o] = "ERROR" THEN errors.on[o] + 1 ELSE errors.on[o]
      BY <2>2, <2>4
    <2> QED  BY <1>2, <2>3, <2>6, <2>7
  <1>3. CASE k.verdict # "ANALYSIS_ERROR"
    <2>1. errors' = errors  BY <1>3 DEF CountErrors
    <2> QED  BY <1>1, <1>3, <2>1
  <1> QED  BY <1>2, <1>3

LEMMA DisputesCounted ==
    ASSUME TypeOK, NEW k \in Claim, IsFiniteSet(k.contradictions), CountDisputes(k),
           disputes.open + disputes.settled = disputes.total,
           PerObligation(disputes.on) = disputes.total
    PROVE  /\ disputes' \in [total : Nat, open : Nat, settled : Nat, on : [Obligation -> Nat]]
           /\ disputes'.open + disputes'.settled = disputes'.total
           /\ PerObligation(disputes'.on) = disputes'.total
  <1> DEFINE C == k.contradictions
             all == Cardinality(C)
             open == Cardinality({r \in C : r.overridden = {}})
             settled == Cardinality({r \in C : r.overridden # {}})
             on == [o \in Obligation |-> Cardinality({r \in C : r.obligation = o})]
  <1>1. disputes \in [total : Nat, open : Nat, settled : Nat, on : [Obligation -> Nat]]
    BY DEF TypeOK
  <1>2. C \in SUBSET Contradiction  BY ClaimFields
  <1>3. /\ all \in Nat /\ open \in Nat /\ settled \in Nat
        /\ all = open + settled
    BY <1>2, DisputesAddUp
  <1>4. on \in [Obligation -> Nat] /\ all = PerObligation(on)
    <2>1. \A o \in Obligation : Cardinality({r \in C : r.obligation = o}) \in Nat
      BY <1>2, DisputesAddUp
    <2>2. all = PerObligation(on)  BY <1>2, DisputesAddUp
    <2> QED  BY <2>1, <2>2
  <1>5. disputes' = [total |-> disputes.total + all, open |-> disputes.open + open,
                     settled |-> disputes.settled + settled,
                     on |-> [o \in Obligation |-> disputes.on[o] + on[o]]]
    BY DEF CountDisputes
  <1> HIDE DEF C, all, open, settled, on
  <1>6. /\ disputes.total \in Nat /\ disputes.open \in Nat /\ disputes.settled \in Nat
        /\ disputes.on \in [Obligation -> Nat]
    BY <1>1
  <1>7. /\ disputes'.total = disputes.total + all
        /\ disputes'.open = disputes.open + open
        /\ disputes'.settled = disputes.settled + settled
        /\ disputes'.on = [o \in Obligation |-> disputes.on[o] + on[o]]
    BY <1>5
  <1>8. disputes'.on \in [Obligation -> Nat]  BY <1>4, <1>6, <1>7
  <1>9. disputes' \in [total : Nat, open : Nat, settled : Nat, on : [Obligation -> Nat]]
    <2>1. disputes'.total \in Nat /\ disputes'.open \in Nat /\ disputes'.settled \in Nat
      BY <1>3, <1>6, <1>7
    <2>2. disputes' = [total |-> disputes'.total, open |-> disputes'.open,
                       settled |-> disputes'.settled, on |-> disputes'.on]
      BY <1>5
    <2> QED  BY <2>1, <2>2, <1>8
  <1>10. disputes'.open + disputes'.settled = disputes'.total  BY <1>3, <1>6, <1>7
  <1>11. PerObligation(disputes'.on) = PerObligation(disputes.on) + PerObligation(on)
    <2>1. \A o \in Obligation : /\ disputes'.on[o] = disputes.on[o] + on[o]
                                /\ disputes.on[o] \in Nat /\ on[o] \in Nat
      BY <1>4, <1>6, <1>7
    <2> QED  BY <2>1 DEF PerObligation, Obligation
  <1>12. PerObligation(disputes'.on) = disputes'.total  BY <1>3, <1>4, <1>6, <1>7, <1>11
  <1> QED  BY <1>9, <1>10, <1>12

LEMMA StopsCounted ==
    ASSUME TypeOK, NEW k \in Claim, stops' = [stops EXCEPT ![k.stop] = @ + 1]
    PROVE  /\ stops' \in [Stop -> Nat]
           /\ \A s \in Stop : stops'[s] = IF k.stop = s THEN stops[s] + 1 ELSE stops[s]
  <1>1. stops \in [Stop -> Nat] /\ k.stop \in Stop  BY ClaimFields DEF TypeOK
  <1> QED  BY <1>1

LEMMA FrontierCounted ==
    ASSUME TypeOK, NEW k \in Claim, Valid(k), frontier.listed <= frontier.size,
           frontier' = [size |-> frontier.size + k.size,
                        listed |-> frontier.listed + Len(k.edges)]
    PROVE  frontier' \in [size : Nat, listed : Nat] /\ frontier'.listed <= frontier'.size
  <1>1. frontier.size \in Nat /\ frontier.listed \in Nat  BY DEF TypeOK
  <1>2. k.size \in Nat /\ k.edges \in Seq(SUBSET Obligation)  BY ClaimFields
  <1>3. Len(k.edges) \in Nat  BY <1>2
  <1>4. Len(k.edges) <= k.size  BY VerdictOfStates
  <1> DEFINE n == Len(k.edges)
  <1>5. /\ frontier'.size = frontier.size + k.size
        /\ frontier'.listed = frontier.listed + n
        /\ frontier' = [size |-> frontier'.size, listed |-> frontier'.listed]
    OBVIOUS
  <1> HIDE DEF n
  <1>6. n \in Nat /\ n <= k.size  BY <1>3, <1>4 DEF n
  <1>7. /\ frontier'.size \in Nat /\ frontier'.listed \in Nat
        /\ frontier'.listed <= frontier'.size
    BY <1>1, <1>2, <1>5, <1>6
  <1> QED  BY <1>5, <1>7

LEMMA ProbesCounted ==
    ASSUME TypeOK, NEW k \in Claim, CountProbes(k), probing.incomplete <= probing.executed
    PROVE  /\ probing' \in [executed : Nat, incomplete : Nat]
           /\ probing'.incomplete <= probing'.executed
  <1> DEFINE run == Cardinality({x \in Probe : k.probes[x] # "missing"})
             cut == Cardinality({x \in Probe : k.probes[x] = "INCOMPLETE"})
  <1>1. probing.executed \in Nat /\ probing.incomplete \in Nat  BY DEF TypeOK
  <1>2. run \in Nat /\ cut \in Nat /\ cut <= run  BY ProbesAddUp
  <1>3. probing' = [executed |-> probing.executed + run, incomplete |-> probing.incomplete + cut]
    BY DEF CountProbes
  <1> HIDE DEF run, cut
  <1> QED  BY <1>1, <1>2, <1>3

-----------------------------------------------------------------------------
(* One claim more is counted. *)

(* The claim that Count counts is one that was made. *)
LEMMA CountedClaim ==
    ASSUME IInv, Count
    PROVE  /\ claims[next] \in Claim /\ Valid(claims[next])
           /\ IsFiniteSet(claims[next].contradictions)
  <1>1. next \in 1 .. Len(claims)  BY DEF IInv, TypeOK, Count
  <1> QED  BY <1>1, LedgerAssumption DEF IInv, Made

LEMMA CountTypeOK ==
    ASSUME IInv, Count
    PROVE  TypeOK'
  <1>1. PICK k : k = claims[next]  OBVIOUS
  <1>2. TypeOK /\ Tallied  BY DEF IInv
  <1>3. k \in Claim /\ Valid(k) /\ IsFiniteSet(k.contradictions)  BY <1>1, CountedClaim
  <1>4. verdicts' \in [Verdict -> Nat]  BY <1>1, <1>2, <1>3, VerdictCounted DEF Count
  <1>5. states' \in [Obligation -> [ProofState -> Nat]]
    BY <1>1, <1>2, <1>3, StatesCounted DEF Count
  <1>6. stops' \in [Stop -> Nat]  BY <1>1, <1>2, <1>3, StopsCounted DEF Count
  <1>7. frontier' \in [size : Nat, listed : Nat]
    BY <1>1, <1>2, <1>3, FrontierCounted DEF Count, Tallied
  <1>8. errors' \in [total : Nat, on : [Obligation -> Nat]]
    BY <1>1, <1>2, <1>3, ErrorsCounted DEF Count
  <1>9. disputes' \in [total : Nat, open : Nat, settled : Nat, on : [Obligation -> Nat]]
    BY <1>1, <1>2, <1>3, DisputesCounted DEF Count, Tallied
  <1>10. probing' \in [executed : Nat, incomplete : Nat]
    BY <1>1, <1>2, <1>3, ProbesCounted DEF Count, Tallied
  <1>11. /\ claims' \in Seq(Claim) /\ Len(claims') <= Cardinality(Invocation)
         /\ phase' \in {"claims", "counting", "done"}
         /\ outcome' \in {"none", "ledger", "raised"}
    BY <1>2 DEF Count, TypeOK
  <1>12. next' \in 1 .. Len(claims') + 1  BY <1>2 DEF Count, TypeOK
  <1> QED
    BY <1>4, <1>5, <1>6, <1>7, <1>8, <1>9, <1>10, <1>11, <1>12 DEF TypeOK

LEMMA CountTallied ==
    ASSUME IInv, Count
    PROVE  Tallied'
  <1>1. PICK k : k = claims[next]  OBVIOUS
  <1>2. TypeOK /\ Tallied  BY DEF IInv
  <1>3. k \in Claim /\ Valid(k) /\ IsFiniteSet(k.contradictions)  BY <1>1, CountedClaim
  <1>4. /\ k.obligations \in [Obligation -> ProofState]
        /\ k.verdict \in Verdict /\ k.stop \in Stop
    BY <1>3, ClaimFields
  <1>5. next' = next + 1 /\ next \in Nat  BY <1>2 DEF Count, TypeOK
  <1>6. \A v \in Verdict : /\ verdicts[v] \in Nat
                           /\ verdicts'[v] = IF Investigated(k) /\ k.verdict = v
                                             THEN verdicts[v] + 1 ELSE verdicts[v]
    BY <1>1, <1>2, <1>3, VerdictCounted DEF Count, TypeOK
  <1>7. \A s \in Stop : /\ stops[s] \in Nat
                        /\ stops'[s] = IF k.stop = s THEN stops[s] + 1 ELSE stops[s]
    BY <1>1, <1>2, <1>3, StopsCounted DEF Count, TypeOK
  <1>8. \A o \in Obligation, s \in ProofState :
           /\ states[o][s] \in Nat
           /\ states'[o][s] = IF Investigated(k) /\ k.obligations[o] = s
                              THEN states[o][s] + 1 ELSE states[o][s]
    <2>1. states \in [Obligation -> [ProofState -> Nat]]  BY <1>2 DEF TypeOK
    <2>2. CountStates(k)  BY <1>1 DEF Count
    <2>3. \A o \in Obligation, s \in ProofState :
             states'[o][s] = IF Investigated(k) /\ k.obligations[o] = s
                             THEN states[o][s] + 1 ELSE states[o][s]
      BY <1>2, <1>3, <2>2, StatesCounted
    <2> QED  BY <2>1, <2>3
  <1>9. /\ InvestigatedClaims \in Nat
        /\ InvestigatedClaims' = IF Investigated(k) THEN InvestigatedClaims + 1
                                 ELSE InvestigatedClaims
    BY <1>4, <1>6 DEF InvestigatedClaims, Verdict
  <1>10. /\ NotInvestigated \in Nat
         /\ NotInvestigated' = IF Investigated(k) THEN NotInvestigated ELSE NotInvestigated + 1
    BY <1>7 DEF NotInvestigated, Stop, Investigated
  <1>11. (InvestigatedClaims + NotInvestigated = next - 1)'
    BY <1>2, <1>5, <1>9, <1>10 DEF Tallied
  <1>12. (stops["SETTLED"] + stops["other"] + NotInvestigated = next - 1)'
    BY <1>2, <1>4, <1>5, <1>7 DEF Tallied, Stop, NotInvestigated
  <1>13. (\A o \in Obligation :
             states[o]["SUPPORTED"] + states[o]["REFUTED"] + states[o]["UNKNOWN"]
                + states[o]["CONFLICTING"] + states[o]["ERROR"] = InvestigatedClaims)'
    <2>1. SUFFICES ASSUME NEW o \in Obligation
                   PROVE  states'[o]["SUPPORTED"] + states'[o]["REFUTED"] + states'[o]["UNKNOWN"]
                            + states'[o]["CONFLICTING"] + states'[o]["ERROR"] = InvestigatedClaims'
      OBVIOUS
    <2>2. states[o]["SUPPORTED"] + states[o]["REFUTED"] + states[o]["UNKNOWN"]
            + states[o]["CONFLICTING"] + states[o]["ERROR"] = InvestigatedClaims
      BY <1>2 DEF Tallied
    <2>3. k.obligations[o] \in ProofState  BY <1>4
    <2> QED  BY <1>8, <1>9, <2>2, <2>3 DEF ProofState
  <1>14. (frontier.listed <= frontier.size)'
    BY <1>1, <1>2, <1>3, FrontierCounted DEF Count, Tallied
  <1>15. (disputes.open + disputes.settled = disputes.total
            /\ PerObligation(disputes.on) = disputes.total)'
    BY <1>1, <1>2, <1>3, DisputesCounted DEF Count, Tallied
  <1>16. (probing.incomplete <= probing.executed)'
    BY <1>1, <1>2, <1>3, ProbesCounted DEF Count, Tallied
  <1> QED  BY <1>11, <1>12, <1>13, <1>14, <1>15, <1>16 DEF Tallied

(* The bounds on the counts follow from what makes the counted claim legal. *)
LEMMA CountKeepsBounds ==
    ASSUME IInv, Count
    PROVE  VerdictsAgainstStates' /\ ErrorsAgree'
  <1>1. PICK k : k = claims[next]  OBVIOUS
  <1>2. TypeOK /\ Tallied /\ VerdictsAgainstStates /\ ErrorsAgree  BY DEF IInv
  <1>3. k \in Claim /\ Valid(k) /\ IsFiniteSet(k.contradictions)  BY <1>1, CountedClaim
  <1>4. k.obligations \in [Obligation -> ProofState] /\ k.verdict \in Verdict
    BY <1>3, ClaimFields
  <1>5. \A v \in Verdict : /\ verdicts[v] \in Nat
                           /\ verdicts'[v] = IF Investigated(k) /\ k.verdict = v
                                             THEN verdicts[v] + 1 ELSE verdicts[v]
    BY <1>1, <1>2, <1>3, VerdictCounted DEF Count, TypeOK
  <1>6. \A o \in Obligation, s \in ProofState :
           /\ states[o][s] \in Nat
           /\ states'[o][s] = IF Investigated(k) /\ k.obligations[o] = s
                              THEN states[o][s] + 1 ELSE states[o][s]
    <2>1. states \in [Obligation -> [ProofState -> Nat]]  BY <1>2 DEF TypeOK
    <2>2. CountStates(k)  BY <1>1 DEF Count
    <2>3. \A o \in Obligation, s \in ProofState :
             states'[o][s] = IF Investigated(k) /\ k.obligations[o] = s
                             THEN states[o][s] + 1 ELSE states[o][s]
      BY <1>2, <1>3, <2>2, StatesCounted
    <2> QED  BY <2>1, <2>3
  <1>7. /\ k.verdict = "ANALYSIS_ERROR" <=> \E o \in Obligation : k.obligations[o] = "ERROR"
        /\ k.verdict = "PROVEN_EFFECT" => \A o \in Obligation : k.obligations[o] = "SUPPORTED"
        /\ k.verdict = "NO_EFFECT" => \E o \in Obligation : k.obligations[o] = "REFUTED"
        /\ k.verdict = "NO_EFFECT" => \A o \in Obligation : k.obligations[o] # "CONFLICTING"
        /\ ~ Investigated(k) => k.verdict = "ABSTAIN"
        /\ k.obligations["IMPLEMENTATION"] # "REFUTED"
    BY <1>3, VerdictOfStates, ImplementationNotRefuted DEF EvidenceObligation
  <1>8. /\ InvestigatedClaims \in Nat
        /\ InvestigatedClaims' = IF Investigated(k) THEN InvestigatedClaims + 1
                                 ELSE InvestigatedClaims
    BY <1>4, <1>5 DEF InvestigatedClaims, Verdict
  <1>9. states'["IMPLEMENTATION"]["REFUTED"] = 0
    BY <1>2, <1>6, <1>7 DEF VerdictsAgainstStates, Obligation, ProofState
  <1>10. ASSUME NEW o \in Obligation
         PROVE  /\ states'[o]["ERROR"] <= verdicts'["ANALYSIS_ERROR"]
                /\ verdicts'["PROVEN_EFFECT"] <= states'[o]["SUPPORTED"]
                /\ states'[o]["CONFLICTING"] + states'[o]["ERROR"]
                      + verdicts'["PROVEN_EFFECT"] + verdicts'["NO_EFFECT"] <= InvestigatedClaims'
    <2>1. /\ states[o]["ERROR"] <= verdicts["ANALYSIS_ERROR"]
          /\ verdicts["PROVEN_EFFECT"] <= states[o]["SUPPORTED"]
          /\ states[o]["CONFLICTING"] + states[o]["ERROR"]
                + verdicts["PROVEN_EFFECT"] + verdicts["NO_EFFECT"] <= InvestigatedClaims
      BY <1>2 DEF VerdictsAgainstStates
    <2>2. states'[o]["ERROR"] <= verdicts'["ANALYSIS_ERROR"]
      BY <1>5, <1>6, <1>7, <2>1 DEF Verdict, ProofState
    <2>3. verdicts'["PROVEN_EFFECT"] <= states'[o]["SUPPORTED"]
      BY <1>5, <1>6, <1>7, <2>1 DEF Verdict, ProofState
    <2>4. states'[o]["CONFLICTING"] + states'[o]["ERROR"]
            + verdicts'["PROVEN_EFFECT"] + verdicts'["NO_EFFECT"] <= InvestigatedClaims'
      BY <1>5, <1>6, <1>7, <1>8, <2>1 DEF Verdict, ProofState
    <2> QED  BY <2>2, <2>3, <2>4
  <1>11. verdicts'["ANALYSIS_ERROR"] <= PerObligation([o \in Obligation |-> states'[o]["ERROR"]])
    <2>1. verdicts["ANALYSIS_ERROR"] <=
             states["IMPLEMENTATION"]["ERROR"] + states["ACTIVATION"]["ERROR"]
               + states["BOUNDARY"]["ERROR"] + states["OPERATION"]["ERROR"]
               + states["PERSISTENCE"]["ERROR"]
      BY <1>2 DEF VerdictsAgainstStates, PerObligation, Obligation
    <2>2. verdicts'["ANALYSIS_ERROR"] <=
             states'["IMPLEMENTATION"]["ERROR"] + states'["ACTIVATION"]["ERROR"]
               + states'["BOUNDARY"]["ERROR"] + states'["OPERATION"]["ERROR"]
               + states'["PERSISTENCE"]["ERROR"]
      BY <1>5, <1>6, <1>7, <2>1 DEF Verdict, ProofState, Obligation
    <2> QED  BY <2>2 DEF PerObligation, Obligation
  <1>12. verdicts'["NO_EFFECT"] <= PerObligation([o \in Obligation |-> states'[o]["REFUTED"]])
    <2>1. verdicts["NO_EFFECT"] <=
             states["IMPLEMENTATION"]["REFUTED"] + states["ACTIVATION"]["REFUTED"]
               + states["BOUNDARY"]["REFUTED"] + states["OPERATION"]["REFUTED"]
               + states["PERSISTENCE"]["REFUTED"]
      BY <1>2 DEF VerdictsAgainstStates, PerObligation, Obligation
    <2>2. verdicts'["NO_EFFECT"] <=
             states'["IMPLEMENTATION"]["REFUTED"] + states'["ACTIVATION"]["REFUTED"]
               + states'["BOUNDARY"]["REFUTED"] + states'["OPERATION"]["REFUTED"]
               + states'["PERSISTENCE"]["REFUTED"]
      BY <1>5, <1>6, <1>7, <2>1 DEF Verdict, ProofState, Obligation
    <2> QED  BY <2>2 DEF PerObligation, Obligation
  <1>13. VerdictsAgainstStates'  BY <1>9, <1>10, <1>11, <1>12 DEF VerdictsAgainstStates
  <1>14. ErrorsAgree'
    <2>1. /\ errors'.total =
                IF k.verdict = "ANALYSIS_ERROR" THEN errors.total + 1 ELSE errors.total
          /\ \A o \in Obligation : errors'.on[o] =
                IF k.verdict = "ANALYSIS_ERROR" /\ k.obligations[o] = "ERROR"
                THEN errors.on[o] + 1 ELSE errors.on[o]
      BY <1>1, <1>2, <1>3, ErrorsCounted DEF Count
    <2>2. errors'.total = verdicts'["ANALYSIS_ERROR"]
      BY <1>2, <1>5, <1>7, <2>1 DEF ErrorsAgree, Verdict
    <2>3. \A o \in Obligation : errors'.on[o] = states'[o]["ERROR"]
      BY <1>2, <1>6, <1>7, <2>1 DEF ErrorsAgree, ProofState
    <2> QED  BY <2>2, <2>3 DEF ErrorsAgree
  <1> QED  BY <1>13, <1>14

-----------------------------------------------------------------------------
(* The invariant. *)

LEMMA InitIInv == Init => IInv
  <1> SUFFICES ASSUME Init PROVE IInv  OBVIOUS
  <1>1. TypeOK
    <2>1. claims \in Seq(Claim) /\ Len(claims) = 0  BY DEF Init
    <2>2. Cardinality(Invocation) \in Nat  BY LedgerAssumption, FS_CardinalityType
    <2>3. next \in 1 .. Len(claims) + 1 /\ Len(claims) <= Cardinality(Invocation)
      BY <2>1, <2>2 DEF Init
    <2>4. /\ phase \in {"claims", "counting", "done"} /\ outcome \in {"none", "ledger", "raised"}
          /\ verdicts \in [Verdict -> Nat] /\ states \in [Obligation -> [ProofState -> Nat]]
          /\ stops \in [Stop -> Nat]
      BY DEF Init
    <2>5. /\ frontier \in [size : Nat, listed : Nat]
          /\ probing \in [executed : Nat, incomplete : Nat]
      BY DEF Init
    <2>6. errors \in [total : Nat, on : [Obligation -> Nat]]  BY DEF Init
    <2>7. disputes \in [total : Nat, open : Nat, settled : Nat, on : [Obligation -> Nat]]
      BY DEF Init
    <2> QED  BY <2>1, <2>3, <2>4, <2>5, <2>6, <2>7 DEF TypeOK
  <1>2. Made  BY DEF Init, Made
  <1>3. /\ \A v \in Verdict : verdicts[v] = 0
        /\ \A o \in Obligation, s \in ProofState : states[o][s] = 0
        /\ \A s \in Stop : stops[s] = 0
    BY DEF Init
  <1>4. InvestigatedClaims = 0 /\ NotInvestigated = 0
    BY <1>3 DEF InvestigatedClaims, NotInvestigated, Verdict, Stop
  <1>5. Tallied
    <2>1. \A o \in Obligation :
             states[o]["SUPPORTED"] + states[o]["REFUTED"] + states[o]["UNKNOWN"]
                + states[o]["CONFLICTING"] + states[o]["ERROR"] = InvestigatedClaims
      BY <1>3, <1>4 DEF ProofState
    <2>2. stops["SETTLED"] + stops["other"] + NotInvestigated = 0  BY <1>3, <1>4 DEF Stop
    <2>3. next - 1 = 0  BY DEF Init
    <2>4. PerObligation(disputes.on) = disputes.total  BY DEF Init, PerObligation, Obligation
    <2>5. /\ frontier.listed <= frontier.size
          /\ disputes.open + disputes.settled = disputes.total
          /\ probing.incomplete <= probing.executed
      BY DEF Init
    <2> QED  BY <1>4, <2>1, <2>2, <2>3, <2>4, <2>5 DEF Tallied
  <1>6. VerdictsAgainstStates
    BY <1>3, <1>4 DEF VerdictsAgainstStates, PerObligation, Verdict, ProofState, Obligation
  <1>7. ErrorsAgree  BY <1>3 DEF ErrorsAgree, Init, Verdict, ProofState
  <1> QED  BY <1>1, <1>2, <1>5, <1>6, <1>7 DEF IInv, Init

(* A claim is made only if no claim has its identity. *)
LEMMA MakeClaimIInv ==
    ASSUME IInv, NEW k \in ValidRecords, MakeClaim(k)
    PROVE  IInv'
  <1>1. TypeOK /\ Made  BY DEF IInv
  <1>2. k \in Records /\ k \in Claim /\ Valid(k)  BY LedgerAssumption DEF ValidRecords
  <1>3. claims \in Seq(Claim) /\ Len(claims) \in Nat  BY <1>1 DEF TypeOK
  <1>4. claims' = Append(claims, k)  BY DEF MakeClaim
  <1>5. claims' \in Seq(Claim) /\ Len(claims') = Len(claims) + 1  BY <1>2, <1>3, <1>4
  <1>6. /\ \A i \in 1 .. Len(claims) : claims'[i] = claims[i]
        /\ claims'[Len(claims) + 1] = k
    BY <1>2, <1>3, <1>4
  <1>7. Made'
    <2>1. \A i \in 1 .. Len(claims') : i \in 1 .. Len(claims) \/ i = Len(claims) + 1
      BY <1>3, <1>5
    <2>2. \A i \in 1 .. Len(claims') : claims'[i] \in Records /\ Valid(claims'[i])
      BY <1>1, <1>2, <1>6, <2>1 DEF Made
    <2>3. \A i \in 1 .. Len(claims) : claims[i].id # k.id  BY DEF MakeClaim
    <2>4. \A i, j \in 1 .. Len(claims') : claims'[i].id = claims'[j].id => i = j
      BY <1>1, <1>6, <2>1, <2>3 DEF Made
    <2> QED  BY <2>2, <2>4 DEF Made
  <1>8. Len(claims') <= Cardinality(Invocation)
    <2>1. PICK s : s = claims'  OBVIOUS
    <2>2. \A i, j \in 1 .. Len(s) : s[i].id = s[j].id => i = j  BY <1>7, <2>1 DEF Made
    <2> QED  BY <1>5, <2>1, <2>2, DistinctIdentities
  <1>9. UNCHANGED <<phase, next, verdicts, states, stops, frontier, errors, disputes, probing,
                    outcome>>
    BY DEF MakeClaim, tables
  <1>10. TypeOK'  BY <1>1, <1>3, <1>5, <1>8, <1>9 DEF TypeOK
  <1>11. Tallied' /\ VerdictsAgainstStates' /\ ErrorsAgree' /\ outcome' # "raised"
    BY <1>9 DEF IInv, Tallied, VerdictsAgainstStates, ErrorsAgree, InvestigatedClaims,
                NotInvestigated, PerObligation
  <1> QED  BY <1>7, <1>10, <1>11 DEF IInv

(* Once every claim is counted, what was tallied is what the ledger checks. *)
LEMMA BuildIInv ==
    ASSUME IInv, Build
    PROVE  IInv'
  <1>1. TypeOK /\ Tallied /\ VerdictsAgainstStates /\ ErrorsAgree  BY DEF IInv
  <1>2. next - 1 = Len(claims)
    <2>1. next \in 1 .. Len(claims) + 1 /\ Len(claims) \in Nat  BY <1>1 DEF TypeOK
    <2> QED  BY <2>1 DEF Build
  <1>3. Partitions  BY <1>1, <1>2 DEF Partitions, Tallied, TypeOK
  <1>4. outcome' = "ledger"  BY <1>1, <1>3 DEF Build
  <1>5. UNCHANGED <<claims, next, verdicts, states, stops, frontier, errors, disputes, probing>>
    BY DEF Build, tables
  <1>6. phase' = "done"  BY DEF Build
  <1>7. TypeOK'  BY <1>1, <1>4, <1>5, <1>6 DEF TypeOK
  <1>8. Made' /\ Tallied' /\ VerdictsAgainstStates' /\ ErrorsAgree'
    BY <1>5 DEF IInv, Made, Tallied, VerdictsAgainstStates, ErrorsAgree, InvestigatedClaims,
                NotInvestigated, PerObligation
  <1> QED  BY <1>4, <1>7, <1>8 DEF IInv

LEMMA CountIInv ==
    ASSUME IInv, Count
    PROVE  IInv'
  <1>1. claims' = claims /\ outcome' = outcome  BY DEF Count
  <1>2. Made' /\ outcome' # "raised"  BY <1>1 DEF IInv, Made
  <1> QED  BY <1>2, CountTypeOK, CountTallied, CountKeepsBounds DEF IInv

LEMMA NextIInv == IInv /\ [Next]_vars => IInv'
  <1> SUFFICES ASSUME IInv, [Next]_vars PROVE IInv'  OBVIOUS
  <1>1. ASSUME NEW k \in ValidRecords, MakeClaim(k) PROVE IInv'  BY <1>1, MakeClaimIInv
  <1>2. CASE FromClaims
    <2>1. UNCHANGED <<claims, next, verdicts, states, stops, frontier, errors, disputes, probing,
                      outcome>> /\ phase' = "counting"
      BY <1>2 DEF FromClaims, tables
    <2>2. TypeOK'  BY <2>1 DEF IInv, TypeOK
    <2> QED
      BY <2>1, <2>2 DEF IInv, Made, Tallied, VerdictsAgainstStates, ErrorsAgree,
                        InvestigatedClaims, NotInvestigated, PerObligation
  <1>3. CASE Count  BY <1>3, CountIInv
  <1>4. CASE Build  BY <1>4, BuildIInv
  <1>5. CASE UNCHANGED vars
    <2>1. UNCHANGED <<claims, phase, next, verdicts, states, stops, frontier, errors, disputes,
                      probing, outcome>>
      BY <1>5 DEF vars, tables
    <2>2. TypeOK'  BY <2>1 DEF IInv, TypeOK
    <2> QED
      BY <2>1, <2>2 DEF IInv, Made, Tallied, VerdictsAgainstStates, ErrorsAgree,
                        InvestigatedClaims, NotInvestigated, PerObligation
  <1> QED  BY <1>1, <1>2, <1>3, <1>4, <1>5 DEF Next

LEMMA AlwaysIInv == Spec => []IInv
  BY InitIInv, NextIInv, PTL DEF Spec

(* The tables keep their types, and no more claims are made than there are *)
(* identities, whatever is offered to the constructor of a claim.          *)
THEOREM TypeCorrect == Spec => []TypeOK
  <1>1. IInv => TypeOK  BY DEF IInv
  <1> QED  BY <1>1, AlwaysIInv, PTL

(* The ledger never raises on claims its own package accepted: every bound *)
(* that _check_verdicts_against_states puts on the counts follows from the *)
(* checks of each claim.                                                   *)
THEOREM LedgerAlwaysAccepted == Spec => []LedgerAccepted
  <1>1. IInv => LedgerAccepted  BY DEF IInv, LedgerAccepted
  <1> QED  BY <1>1, AlwaysIInv, PTL

-----------------------------------------------------------------------------
(* Conclusions and evidence. *)

LEMMA EvidenceFields ==
    ASSUME NEW k \in Claim, NEW p \in k.packets
    PROVE  p.positive \in BOOLEAN
  BY DEF Claim, Packet

(* A packet is overridden only by the record of its own obligation and     *)
(* candidate, and only as a member of the side that record overrides.      *)
LEMMA OverriddenByOwnRecord ==
    ASSUME NEW k \in Claim, Valid(k), NEW c, NEW o,
           NEW p \in Directional(k, c, o), NEW r \in k.contradictions, p \in r.overridden
    PROVE  /\ r \in RecordsOf(k, c, o)
           /\ r.overridden = IF p.positive THEN r.pos ELSE r.neg
  <1>1. LegalContradiction(k, r)  BY DEF Valid
  <1>2. /\ r.overridden \in {{}, r.pos, r.neg}
        /\ \A q \in r.pos : q \in Directional(k, r.candidate, r.obligation) /\ q.positive
        /\ \A q \in r.neg : q \in Directional(k, r.candidate, r.obligation) /\ ~ q.positive
    BY <1>1 DEF LegalContradiction, Pos, Neg
  <1>3. p \in Directional(k, r.candidate, r.obligation)  BY <1>2
  <1>4. r.candidate = c /\ r.obligation = o  BY <1>3 DEF Directional
  <1>5. p.positive => p \notin r.neg  BY <1>2
  <1>6. ~ p.positive => p \notin r.pos  BY <1>2
  <1>7. r \in RecordsOf(k, c, o)  BY <1>4 DEF RecordsOf
  <1>8. r.overridden = IF p.positive THEN r.pos ELSE r.neg
    BY <1>2, <1>5, <1>6
  <1> QED  BY <1>7, <1>8

(* A candidate has one record for an obligation. *)
LEMMA OneRecord ==
    ASSUME NEW k \in Claim, Valid(k), NEW c, NEW o,
           NEW r \in RecordsOf(k, c, o), NEW s \in RecordsOf(k, c, o)
    PROVE  /\ r = s
           /\ r.pos # {} /\ r.neg # {} /\ r.pos # r.neg
           /\ r.pos \subseteq Pos(k, c, o) /\ r.neg \subseteq Neg(k, c, o)
  <1>1. /\ r \in k.contradictions /\ s \in k.contradictions
        /\ r.obligation = o /\ s.obligation = o /\ r.candidate = c /\ s.candidate = c
    BY DEF RecordsOf
  <1>2. LegalContradiction(k, r)  BY <1>1 DEF Valid
  <1>3. r = s  BY <1>1, <1>2 DEF LegalContradiction
  <1>4. /\ r.pos # {} /\ r.neg # {}
        /\ r.pos \subseteq Pos(k, c, o) /\ r.neg \subseteq Neg(k, c, o)
    BY <1>1, <1>2 DEF LegalContradiction
  <1>5. r.pos # r.neg  BY <1>4 DEF Pos, Neg
  <1> QED  BY <1>3, <1>4, <1>5

(* What the evidence requires rests on a packet that nothing overrides. *)
LEMMA RequiredRestsOnEvidence ==
    ASSUME NEW k \in Claim, Valid(k), NEW c \in k.candidates, NEW o \in EvidenceObligation
    PROVE  /\ Required(k, c, o) = "SUPPORTED" =>
                 \E p \in Settling(k, o, TRUE) : p.candidate = c
           /\ Required(k, c, o) = "REFUTED" =>
                 \E p \in Settling(k, o, FALSE) : p.candidate = c
  <1>1. o \in Obligation  BY DEF EvidenceObligation
  <1>2. Recorded(k, c, o)  BY <1>1 DEF Valid, Justified
  <1>3. ASSUME NEW p \in Directional(k, c, o),
               \A r \in RecordsOf(k, c, o) : r.overridden # IF p.positive THEN r.pos ELSE r.neg
        PROVE  p \in Settling(k, o, p.positive) /\ p.candidate = c
    <2>1. p \notin Overridden(k)
      <3>1. SUFFICES ASSUME NEW r \in k.contradictions, p \in r.overridden PROVE FALSE
        BY DEF Overridden
      <3> QED  BY <1>3, <3>1, OverriddenByOwnRecord
    <2>2. p \in k.packets /\ p.obligation = o /\ p.candidate = c /\ p.probative /\ ~ p.uncertain
      BY DEF Directional
    <2> QED  BY <2>1, <2>2 DEF Settling
  <1>4. ASSUME NEW p \in Directional(k, c, o)
        PROVE  p.positive \in BOOLEAN
    <2>1. p \in k.packets  BY DEF Directional
    <2> QED  BY <2>1, EvidenceFields
  <1>5. ASSUME Required(k, c, o) = "SUPPORTED"
        PROVE  \E p \in Settling(k, o, TRUE) : p.candidate = c
    <2>1. Won(k, c, o, TRUE) \/ (Pos(k, c, o) # {} /\ ~ Opposed(k, c, o))
      BY <1>5 DEF Required
    <2>2. ASSUME NEW p \in Directional(k, c, o), p.positive,
                 \A r \in RecordsOf(k, c, o) : r.overridden # r.pos
          PROVE  \E q \in Settling(k, o, TRUE) : q.candidate = c
      <3>1. p.positive = TRUE  BY <1>4, <2>2
      <3>2. p \in Settling(k, o, p.positive) /\ p.candidate = c  BY <1>3, <2>2
      <3>3. p \in Settling(k, o, TRUE)  BY <3>1, <3>2
      <3> QED  BY <3>2, <3>3
    <2>3. CASE Won(k, c, o, TRUE)
      <3>1. PICK r \in RecordsOf(k, c, o) : r.overridden = r.neg  BY <2>3 DEF Won
      <3>2. PICK p : p \in r.pos  BY OneRecord
      <3>3. p \in Directional(k, c, o) /\ p.positive  BY <3>2, OneRecord DEF Pos
      <3>4. \A s \in RecordsOf(k, c, o) : s.overridden # s.pos  BY <3>1, OneRecord
      <3> QED  BY <2>2, <3>3, <3>4
    <2>4. CASE Pos(k, c, o) # {} /\ ~ Opposed(k, c, o)
      <3>1. PICK p : p \in Pos(k, c, o)  BY <2>4
      <3>2. p \in Directional(k, c, o) /\ p.positive  BY <3>1 DEF Pos
      <3>3. RecordsOf(k, c, o) = {}  BY <1>2, <2>4 DEF Recorded
      <3> QED  BY <2>2, <3>2, <3>3
    <2> QED  BY <2>1, <2>3, <2>4
  <1>6. ASSUME Required(k, c, o) = "REFUTED"
        PROVE  \E p \in Settling(k, o, FALSE) : p.candidate = c
    <2>1. Won(k, c, o, FALSE) \/ (Neg(k, c, o) # {} /\ ~ Opposed(k, c, o))
      BY <1>6 DEF Required, Opposed
    <2>2. ASSUME NEW p \in Directional(k, c, o), ~ p.positive,
                 \A r \in RecordsOf(k, c, o) : r.overridden # r.neg
          PROVE  \E q \in Settling(k, o, FALSE) : q.candidate = c
      <3>1. p.positive = FALSE  BY <1>4, <2>2
      <3>2. p \in Settling(k, o, p.positive) /\ p.candidate = c  BY <1>3, <2>2
      <3>3. p \in Settling(k, o, FALSE)  BY <3>1, <3>2
      <3> QED  BY <3>2, <3>3
    <2>3. CASE Won(k, c, o, FALSE)
      <3>1. PICK r \in RecordsOf(k, c, o) : r.overridden = r.pos  BY <2>3 DEF Won
      <3>2. PICK p : p \in r.neg  BY OneRecord
      <3>3. p \in Directional(k, c, o) /\ ~ p.positive  BY <3>2, OneRecord DEF Neg
      <3>4. \A s \in RecordsOf(k, c, o) : s.overridden # s.neg  BY <3>1, OneRecord
      <3> QED  BY <2>2, <3>3, <3>4
    <2>4. CASE Neg(k, c, o) # {} /\ ~ Opposed(k, c, o)
      <3>1. PICK p : p \in Neg(k, c, o)  BY <2>4
      <3>2. p \in Directional(k, c, o) /\ ~ p.positive  BY <3>1 DEF Neg
      <3>3. RecordsOf(k, c, o) = {}  BY <1>2, <2>4 DEF Recorded
      <3> QED  BY <2>2, <3>2, <3>3
    <2> QED  BY <2>1, <2>3, <2>4
  <1> QED  BY <1>5, <1>6

(* A state of the claim that is not trouble is that of every candidate. *)
LEMMA StateOfEveryCandidate ==
    ASSUME NEW k \in Claim, Valid(k), NEW o \in Obligation,
           k.obligations[o] \in {"SUPPORTED", "REFUTED"}, NEW c \in k.candidates
    PROVE  /\ Effective(k, c)[o] = k.obligations[o]
           /\ Required(k, c, o) = k.obligations[o]
  <1> DEFINE S == StatesOf(k, o)
  <1>1. k.obligations[o] = Aggregate(S)  BY DEF Valid
  <1>2. Effective(k, c)[o] \in S  BY DEF StatesOf
  <1>3. Effective(k, c)[o] \in {"ERROR", Required(k, c, o)}  BY DEF Valid, Justified
  <1> HIDE DEF S
  <1>4. S = {Aggregate(S)}  BY <1>1, AggregateIs
  <1> QED  BY <1>1, <1>2, <1>3, <1>4

(* A conclusion of a legal claim is backed. *)
LEMMA LegalConclusion ==
    ASSUME NEW k \in Claim, Valid(k)
    PROVE  /\ k.verdict \in {"PROVEN_EFFECT", "NO_EFFECT"} =>
                 \A c \in k.candidates : k.kind[c] # "opaque"
           /\ k.verdict = "PROVEN_EFFECT" => \A o \in EvidenceObligation : Backed(k, o, TRUE)
           /\ k.verdict = "NO_EFFECT" => \E o \in EvidenceObligation : Backed(k, o, FALSE)
  <1>1. ASSUME k.verdict = "PROVEN_EFFECT"
        PROVE  /\ \A c \in k.candidates : k.kind[c] # "opaque"
               /\ \A o \in EvidenceObligation : Backed(k, o, TRUE)
    <2>1. \A o \in Obligation : k.obligations[o] = "SUPPORTED"  BY <1>1, VerdictOfStates
    <2>2. \A c \in k.candidates : Effective(k, c)["IMPLEMENTATION"] = "SUPPORTED"
      BY <2>1, StateOfEveryCandidate DEF Obligation
    <2>3. \A c \in k.candidates : k.kind[c] # "opaque"  BY <2>2 DEF Valid, Justified
    <2>4. ASSUME NEW o \in EvidenceObligation, NEW c \in k.candidates
          PROVE  \E p \in Settling(k, o, TRUE) : p.candidate = c
      <3>1. o \in Obligation  BY DEF EvidenceObligation
      <3>2. Required(k, c, o) = "SUPPORTED"  BY <2>1, <3>1, StateOfEveryCandidate
      <3> QED  BY <3>2, RequiredRestsOnEvidence
    <2> QED  BY <2>3, <2>4 DEF Backed
  <1>2. ASSUME k.verdict = "NO_EFFECT"
        PROVE  /\ \A c \in k.candidates : k.kind[c] # "opaque"
               /\ \E o \in EvidenceObligation : Backed(k, o, FALSE)
    <2>1. PICK o \in Obligation : Closed(k, o)  BY <1>2 DEF Valid, LegalVerdict
    <2>2. /\ o \in EvidenceObligation /\ k.obligations[o] = "REFUTED"
          /\ \A c \in k.candidates : k.kind[c] # "opaque"
      BY <2>1 DEF Closed, EvidenceObligation
    <2>3. ASSUME NEW c \in k.candidates
          PROVE  \E p \in Settling(k, o, FALSE) : p.candidate = c
      <3>1. Required(k, c, o) = "REFUTED"  BY <2>2, StateOfEveryCandidate
      <3> QED  BY <2>2, <3>1, RequiredRestsOnEvidence
    <2> QED  BY <2>2, <2>3 DEF Backed
  <1> QED  BY <1>1, <1>2

(* A conflict that nothing resolves keeps a legal claim from concluding. *)
LEMMA LegalConflict ==
    ASSUME NEW k \in Claim, Valid(k), NEW c \in k.candidates, NEW o \in EvidenceObligation,
           Pos(k, c, o) \cap Settling(k, o, TRUE) # {},
           Neg(k, c, o) \cap Settling(k, o, FALSE) # {}
    PROVE  k.verdict \in {"ABSTAIN", "ANALYSIS_ERROR"}
  <1>1. o \in Obligation  BY DEF EvidenceObligation
  <1>2. PICK p \in Pos(k, c, o) : p \notin Overridden(k)  BY DEF Settling
  <1>3. PICK n \in Neg(k, c, o) : n \notin Overridden(k)  BY DEF Settling
  <1>4. Opposed(k, c, o)  BY <1>2, <1>3 DEF Opposed
  <1>5. PICK r \in RecordsOf(k, c, o) : r.pos = Pos(k, c, o) /\ r.neg = Neg(k, c, o)
    BY <1>1, <1>4 DEF Valid, Justified, Recorded
  <1>6. r \in k.contradictions  BY DEF RecordsOf
  <1>7. r.overridden # r.pos /\ r.overridden # r.neg
    BY <1>2, <1>3, <1>5, <1>6 DEF Overridden
  <1>8. r.overridden = {}  BY <1>6, <1>7 DEF Valid, LegalContradiction
  <1>9. ~ Won(k, c, o, TRUE) /\ ~ Won(k, c, o, FALSE)
    <2>1. \A s \in RecordsOf(k, c, o) : s.overridden = {}  BY <1>8, OneRecord
    <2> QED  BY <2>1 DEF Won
  <1>10. Required(k, c, o) = "CONFLICTING"  BY <1>4, <1>9 DEF Required
  <1>11. k.obligations[o] \notin {"SUPPORTED", "REFUTED"}
    BY <1>1, <1>10, StateOfEveryCandidate
  <1>12. k.verdict # "PROVEN_EFFECT"  BY <1>1, <1>11, VerdictOfStates
  <1>13. k.verdict # "NO_EFFECT"
    <2>1. ASSUME NEW x \in Obligation, Closed(k, x) PROVE FALSE  BY <1>6, <1>8, <2>1 DEF Closed
    <2> QED  BY <2>1 DEF Valid, LegalVerdict
  <1> QED  BY <1>12, <1>13, ClaimFields DEF Verdict

(* PROVEN_EFFECT rests on a packet in favour of every obligation, for every *)
(* candidate, NO_EFFECT on packets against one of them, and neither on code *)
(* that was not obtained.                                                   *)
THEOREM ConclusionsBacked == Spec => []ConclusionsAreBacked
  <1>1. ASSUME IInv PROVE ConclusionsAreBacked
    <2>1. \A i \in 1 .. Len(claims) : claims[i] \in Claim /\ Valid(claims[i])
      BY <1>1, LedgerAssumption DEF IInv, Made
    <2> QED  BY <2>1, LegalConclusion DEF ConclusionsAreBacked
  <1> QED  BY <1>1, AlwaysIInv, PTL

(* No verdict but ABSTAIN or ANALYSIS_ERROR is drawn from evidence that     *)
(* contradicts itself, however the states of the candidates are combined.   *)
THEOREM ConflictsNeverConclude == Spec => []ConflictsStayOpen
  <1>1. ASSUME IInv PROVE ConflictsStayOpen
    <2>1. \A i \in 1 .. Len(claims) : claims[i] \in Claim /\ Valid(claims[i])
      BY <1>1, LedgerAssumption DEF IInv, Made
    <2> QED  BY <2>1, LegalConflict DEF ConflictsStayOpen
  <1> QED  BY <1>1, AlwaysIInv, PTL

(* The packets an answer cites are of the polarity its state needs. *)
LEMMA AnswersAreLegal ==
    ASSUME NEW k \in Claim, Valid(k), NEW o \in EvidenceObligation
    PROVE  LegalAnswer([state |-> k.obligations[o], by |-> Cited(k, o)])
  <1>1. o \in Obligation  BY DEF EvidenceObligation
  <1>2. PICK st \in ProofState : st = k.obligations[o]  BY <1>1, ClaimFields
  <1>3. k.candidates # {}  BY DEF Valid, LegalCandidates
  <1>4. \A positive \in BOOLEAN : \A p \in Settling(k, o, positive) : p.positive = positive
    BY DEF Settling
  <1>5. CASE st = "SUPPORTED"
    <2>1. PICK c \in k.candidates : TRUE  BY <1>3
    <2>2. Required(k, c, o) = "SUPPORTED"  BY <1>1, <1>2, <1>5, StateOfEveryCandidate
    <2>3. Settling(k, o, TRUE) # {}  BY <2>2, RequiredRestsOnEvidence
    <2>4. Cited(k, o) = Settling(k, o, TRUE)  BY <1>2, <1>5 DEF Cited
    <2>5. {p.positive : p \in Cited(k, o)} = {TRUE}  BY <1>4, <2>3, <2>4
    <2> QED  BY <1>2, <1>5, <2>3, <2>4, <2>5 DEF LegalAnswer
  <1>6. CASE st = "REFUTED"
    <2>1. PICK c \in k.candidates : TRUE  BY <1>3
    <2>2. Required(k, c, o) = "REFUTED"  BY <1>1, <1>2, <1>6, StateOfEveryCandidate
    <2>3. Settling(k, o, FALSE) # {}  BY <2>2, RequiredRestsOnEvidence
    <2>4. Cited(k, o) = Settling(k, o, FALSE)  BY <1>2, <1>6 DEF Cited
    <2>5. {p.positive : p \in Cited(k, o)} = {FALSE}  BY <1>4, <2>3, <2>4
    <2> QED  BY <1>2, <1>6, <2>3, <2>4, <2>5 DEF LegalAnswer
  <1>7. CASE st = "CONFLICTING"
    <2> DEFINE S == StatesOf(k, o)
    <2>1. st = Aggregate(S)  BY <1>1, <1>2 DEF Valid
    <2>2. "CONFLICTING" \in S
      <3> HIDE DEF S
      <3> QED  BY <1>7, <2>1, AggregateIs
    <2>3. PICK c \in k.candidates : Effective(k, c)[o] = "CONFLICTING"  BY <2>2 DEF StatesOf
    <2>4. Required(k, c, o) = "CONFLICTING" /\ Recorded(k, c, o)
      BY <1>1, <2>3 DEF Valid, Justified
    <2>5. Opposed(k, c, o) /\ ~ Won(k, c, o, TRUE) /\ ~ Won(k, c, o, FALSE)
      BY <2>4 DEF Required
    <2>6. PICK p \in Pos(k, c, o), n \in Neg(k, c, o) : TRUE  BY <2>5 DEF Opposed
    <2>7. \A r \in RecordsOf(k, c, o) : r.overridden # r.pos /\ r.overridden # r.neg
      BY <2>5, OneRecord DEF Won
    <2>8. p \in Directional(k, c, o) /\ n \in Directional(k, c, o)  BY DEF Pos, Neg
    <2>9. p \notin Overridden(k) /\ n \notin Overridden(k)
      BY <2>7, <2>8, OverriddenByOwnRecord DEF Overridden
    <2>10. p.positive = TRUE /\ n.positive = FALSE
      <3>1. p \in k.packets /\ n \in k.packets  BY <2>8 DEF Directional
      <3>2. p.positive \in BOOLEAN /\ n.positive \in BOOLEAN  BY <3>1, EvidenceFields
      <3> QED  BY <3>2 DEF Pos, Neg
    <2>11. p \in Settling(k, o, TRUE) /\ n \in Settling(k, o, FALSE)
      BY <2>8, <2>9, <2>10 DEF Settling, Directional
    <2>12. Cited(k, o) = Settling(k, o, TRUE) \cup Settling(k, o, FALSE)
      BY <1>2, <1>7 DEF Cited
    <2>13. {q.positive : q \in Cited(k, o)} = BOOLEAN  BY <1>4, <2>10, <2>11, <2>12
    <2> QED  BY <1>2, <1>7, <2>13 DEF LegalAnswer
  <1>8. CASE st \in {"UNKNOWN", "ERROR"}
    <2>1. Cited(k, o) = {}  BY <1>2, <1>8 DEF Cited
    <2> QED  BY <1>2, <1>8, <2>1 DEF LegalAnswer
  <1> QED  BY <1>5, <1>6, <1>7, <1>8 DEF ProofState

(* from_claim makes a receipt of every legal claim, and the receipt passes *)
(* the check it meets again when it is loaded.                             *)
THEOREM ReceiptsAlwaysAccepted == Spec => []ReceiptsAccepted
  <1>1. ASSUME NEW k \in Claim, Valid(k) PROVE LegalReceipt(ReceiptOf(k))
    <2> DEFINE r == ReceiptOf(k)
    <2>1. /\ r.claim = k /\ r.verdict = k.verdict /\ r.closure = k.closure
          /\ r.selected = Selected(k) /\ r.found = Found(k) /\ r.incomplete = Incomplete(k)
          /\ r.unresolved = k.unresolved /\ r.size = k.size
      BY DEF ReceiptOf
    <2>2. r.negative <=> k.verdict = "NO_EFFECT"  BY DEF ReceiptOf
    <2>3. r.answers = [o \in EvidenceObligation |-> [state |-> k.obligations[o], by |-> Cited(k, o)]]
      BY DEF ReceiptOf
    <2> HIDE DEF r
    <2>4. ASSUME NEW o \in EvidenceObligation
          PROVE  /\ LegalAnswer(r.answers[o])
                 /\ r.answers[o].state = k.obligations[o] /\ r.answers[o].by = Cited(k, o)
      BY <1>1, <2>3, AnswersAreLegal
    <2>5. ASSUME NEW o \in EvidenceObligation, NEW p \in Cited(k, o)
          PROVE  p \in k.packets /\ p.obligation = o /\ p.probative /\ ~ p.uncertain
      <3>1. p \in Settling(k, o, TRUE) \cup Settling(k, o, FALSE)  BY DEF Cited
      <3> QED  BY <3>1 DEF Settling
    <2> QED  BY <1>1, <2>1, <2>2, <2>4, <2>5 DEF LegalReceipt, r
  <1>2. ASSUME IInv PROVE ReceiptsAccepted
    <2>1. \A i \in 1 .. Len(claims) : claims[i] \in Claim /\ Valid(claims[i])
      BY <1>2, LedgerAssumption DEF IInv, Made
    <2> QED  BY <1>1, <2>1 DEF ReceiptsAccepted
  <1> QED  BY <1>2, AlwaysIInv, PTL
=============================================================================
