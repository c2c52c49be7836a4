---------------------------- MODULE CoverageLedger ----------------------------
(***************************************************************************)
(* CoverageLedger (actenon_scan/effects/ledger.py): claims are made one by *)
(* one, from_claims counts them, and the ledger it builds must pass the    *)
(* arithmetic its constructor checks.  from_claims makes one pass over the *)
(* claims per table; the tables do not depend on each other, and here one  *)
(* step adds a claim to all of them.  Counts by tier, budget and language, *)
(* performance and prose are left out.                                     *)
(***************************************************************************)
EXTENDS EffectReceipts

CONSTANT Records   \* what is offered to the constructor of EffectClaim

(* Contradictions are a tuple, so there are finitely many. *)
ASSUME LedgerAssumption ==
    /\ IsFiniteSet(Invocation)
    /\ Records \subseteq Claim
    /\ \A k \in Records : IsFiniteSet(k.contradictions)

Stop == {"SETTLED", "CLAIM_NOT_INVESTIGATED", "other"}

VARIABLES
    claims,      \* the claims made, in order
    phase,       \* "claims", "counting" or "done"
    next,        \* position of the claim counted next
    verdicts,    \* verdict_distribution
    states,      \* obligation_state_distribution
    stops,       \* stop_reason_histogram
    frontier,    \* unopened edges: how many, how many of them listed
    errors,      \* analysis_errors
    disputes,    \* contradictions
    probing,     \* counter_evidence
    outcome      \* "none", "ledger" or "raised"

tables == <<verdicts, states, stops, frontier, errors, disputes, probing>>
vars == <<claims, phase, next, tables, outcome>>

Init ==
    /\ claims = << >> /\ phase = "claims" /\ next = 1 /\ outcome = "none"
    /\ verdicts = [v \in Verdict |-> 0]
    /\ states = [o \in Obligation |-> [s \in ProofState |-> 0]]
    /\ stops = [s \in Stop |-> 0]
    /\ frontier = [size |-> 0, listed |-> 0]
    /\ errors = [total |-> 0, on |-> [o \in Obligation |-> 0]]
    /\ disputes = [total |-> 0, open |-> 0, settled |-> 0, on |-> [o \in Obligation |-> 0]]
    /\ probing = [executed |-> 0, incomplete |-> 0]

-----------------------------------------------------------------------------
(* The constructor of a claim returns.  If it raises, nothing is made.      *)
(* from_claims refuses two claims of one identity, so none is made here.    *)
ValidRecords == {k \in Records : Valid(k)}
MakeClaim(k) ==
    /\ phase = "claims"
    /\ \A i \in 1 .. Len(claims) : claims[i].id # k.id
    /\ claims' = Append(claims, k)
    /\ UNCHANGED <<phase, next, tables, outcome>>

FromClaims ==
    /\ phase = "claims"
    /\ phase' = "counting"
    /\ UNCHANGED <<claims, next, tables, outcome>>

CountVerdict(k) ==
    verdicts' = IF Investigated(k) THEN [verdicts EXCEPT ![k.verdict] = @ + 1] ELSE verdicts
CountStates(k) ==
    states' = IF Investigated(k)
              THEN [o \in Obligation |-> [states[o] EXCEPT ![k.obligations[o]] = @ + 1]]
              ELSE states
CountErrors(k) ==
    errors' = IF k.verdict = "ANALYSIS_ERROR"
              THEN [total |-> errors.total + 1,
                    on |-> [o \in Obligation |->
                              errors.on[o] + IF k.obligations[o] = "ERROR" THEN 1 ELSE 0]]
              ELSE errors
CountDisputes(k) ==
    disputes' =
        [total |-> disputes.total + Cardinality(k.contradictions),
         open |-> disputes.open + Cardinality({r \in k.contradictions : r.overridden = {}}),
         settled |-> disputes.settled + Cardinality({r \in k.contradictions : r.overridden # {}}),
         on |-> [o \in Obligation |->
                   disputes.on[o] + Cardinality({r \in k.contradictions : r.obligation = o})]]
CountProbes(k) ==
    probing' = [executed |-> probing.executed + Cardinality({x \in Probe : k.probes[x] # "missing"}),
                incomplete |-> probing.incomplete
                                 + Cardinality({x \in Probe : k.probes[x] = "INCOMPLETE"})]

Count ==
    /\ phase = "counting" /\ next <= Len(claims)
    /\ next' = next + 1
    /\ CountVerdict(claims[next]) /\ CountStates(claims[next])
    /\ stops' = [stops EXCEPT ![claims[next].stop] = @ + 1]
    /\ frontier' = [size |-> frontier.size + claims[next].size,
                    listed |-> frontier.listed + Len(claims[next].edges)]
    /\ CountErrors(claims[next]) /\ CountDisputes(claims[next]) /\ CountProbes(claims[next])
    /\ UNCHANGED <<claims, phase, outcome>>

-----------------------------------------------------------------------------
(* What the constructor of the ledger checks. *)

PerObligation(f) ==
    f["IMPLEMENTATION"] + f["ACTIVATION"] + f["BOUNDARY"] + f["OPERATION"] + f["PERSISTENCE"]
NotInvestigated == stops["CLAIM_NOT_INVESTIGATED"]
InvestigatedClaims ==
    verdicts["PROVEN_EFFECT"] + verdicts["NO_EFFECT"] + verdicts["ABSTAIN"]
        + verdicts["ANALYSIS_ERROR"]

(* Every table accounts for the claims it is about. *)
Partitions ==
    /\ Len(claims) <= Cardinality(Invocation)
    /\ InvestigatedClaims + NotInvestigated = Len(claims)
    /\ stops["SETTLED"] + stops["other"] + NotInvestigated = Len(claims)
    /\ \A o \in Obligation :
          states[o]["SUPPORTED"] + states[o]["REFUTED"] + states[o]["UNKNOWN"]
              + states[o]["CONFLICTING"] + states[o]["ERROR"] = InvestigatedClaims
    /\ frontier.listed <= frontier.size
    /\ disputes.open + disputes.settled = disputes.total
    /\ PerObligation(disputes.on) = disputes.total
    /\ probing.incomplete <= probing.executed

(* The counts of verdicts and of states belong to the same claims. *)
VerdictsAgainstStates ==
    /\ states["IMPLEMENTATION"]["REFUTED"] = 0
    /\ \A o \in Obligation :
          /\ states[o]["ERROR"] <= verdicts["ANALYSIS_ERROR"]
          /\ verdicts["PROVEN_EFFECT"] <= states[o]["SUPPORTED"]
          /\ states[o]["CONFLICTING"] + states[o]["ERROR"]
                + verdicts["PROVEN_EFFECT"] + verdicts["NO_EFFECT"] <= InvestigatedClaims
    /\ verdicts["ANALYSIS_ERROR"] <= PerObligation([o \in Obligation |-> states[o]["ERROR"]])
    /\ verdicts["NO_EFFECT"] <= PerObligation([o \in Obligation |-> states[o]["REFUTED"]])

ErrorsAgree ==
    /\ errors.total = verdicts["ANALYSIS_ERROR"]
    /\ \A o \in Obligation : errors.on[o] = states[o]["ERROR"]

Build ==
    /\ phase = "counting" /\ next > Len(claims)
    /\ phase' = "done"
    /\ outcome' = IF Partitions /\ VerdictsAgainstStates /\ ErrorsAgree THEN "ledger" ELSE "raised"
    /\ UNCHANGED <<claims, next, tables>>

Next == (\E k \in ValidRecords : MakeClaim(k)) \/ FromClaims \/ Count \/ Build
Spec == Init /\ [][Next]_vars

-----------------------------------------------------------------------------
TypeOK ==
    /\ claims \in Seq(Claim) /\ Len(claims) <= Cardinality(Invocation)
    /\ phase \in {"claims", "counting", "done"} /\ next \in 1 .. Len(claims) + 1
    /\ verdicts \in [Verdict -> Nat] /\ states \in [Obligation -> [ProofState -> Nat]]
    /\ stops \in [Stop -> Nat] /\ frontier \in [size : Nat, listed : Nat]
    /\ errors \in [total : Nat, on : [Obligation -> Nat]]
    /\ disputes \in [total : Nat, open : Nat, settled : Nat, on : [Obligation -> Nat]]
    /\ probing \in [executed : Nat, incomplete : Nat]
    /\ outcome \in {"none", "ledger", "raised"}

(* The ledger that from_claims builds of legal claims always passes the     *)
(* ledger's own check: the bounds it puts on the counts follow from what    *)
(* makes each claim legal.                                                  *)
LedgerAccepted == outcome # "raised"

(* A conclusion rests on evidence about every candidate: PROVEN_EFFECT on   *)
(* packets in favour of each obligation, NO_EFFECT on packets against one   *)
(* of them, none overridden, and on code that was obtained.                 *)
Backed(k, o, positive) ==
    \A c \in k.candidates : \E p \in Settling(k, o, positive) : p.candidate = c
ConclusionsAreBacked ==
    \A i \in 1 .. Len(claims) :
       /\ claims[i].verdict \in {"PROVEN_EFFECT", "NO_EFFECT"} =>
             \A c \in claims[i].candidates : claims[i].kind[c] # "opaque"
       /\ claims[i].verdict = "PROVEN_EFFECT" =>
             \A o \in EvidenceObligation : Backed(claims[i], o, TRUE)
       /\ claims[i].verdict = "NO_EFFECT" =>
             \E o \in EvidenceObligation : Backed(claims[i], o, FALSE)

(* Evidence that contradicts itself about one candidate, with neither side  *)
(* overridden, is never concluded from, whatever else is known.             *)
ConflictsStayOpen ==
    \A i \in 1 .. Len(claims) :
       (\E c \in claims[i].candidates, o \in EvidenceObligation :
           /\ Pos(claims[i], c, o) \cap Settling(claims[i], o, TRUE) # {}
           /\ Neg(claims[i], c, o) \cap Settling(claims[i], o, FALSE) # {})
       => claims[i].verdict \in {"ABSTAIN", "ANALYSIS_ERROR"}

(* from_claim makes a receipt of every legal claim: its answers always pass *)
(* the check of the receipt.                                                *)
ReceiptsAccepted == \A i \in 1 .. Len(claims) : LegalReceipt(ReceiptOf(claims[i]))
=============================================================================
