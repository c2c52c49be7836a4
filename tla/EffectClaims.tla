----------------------------- MODULE EffectClaims -----------------------------
(***************************************************************************)
(* What makes an EffectClaim legal: the checks its constructor runs        *)
(* (actenon_scan/effects/claim.py), from evidence packets to the state of  *)
(* each obligation, the selection state and the verdict.                   *)
(*                                                                         *)
(* A packet is what the checks tell apart: what it is about, its polarity, *)
(* whether it can settle anything, and which rule of provenance it can     *)
(* satisfy.  There is one effect class; all five obligations are necessary *)
(* for it.                                                                 *)
(***************************************************************************)
EXTENDS Integers, Sequences, FiniteSets

CONSTANTS
    Candidate,     \* implementation candidates
    Probe,         \* BLOCKING probes of the registry
    Question,      \* the obligation each of them is about
    CommitProbe,   \* the one that looks for commits of unknown outcome (CP-PER-05)
    Invocation     \* identities of claims

Obligation == {"IMPLEMENTATION", "ACTIVATION", "BOUNDARY", "OPERATION", "PERSISTENCE"}
EvidenceObligation == Obligation \ {"IMPLEMENTATION"}
ProofState == {"SUPPORTED", "REFUTED", "UNKNOWN", "CONFLICTING", "ERROR"}
Verdict == {"PROVEN_EFFECT", "NO_EFFECT", "ABSTAIN", "ANALYSIS_ERROR"}
Selection == {"SINGLE_ESTABLISHED", "AGREEMENT_INVARIANT", "UNRESOLVED_DIVERGENT",
              "SELECTION_ERROR", "UNRESOLVED_IDENTITY"}
Established == {"SINGLE_ESTABLISHED", "AGREEMENT_INVARIANT"}

ASSUME ClaimAssumption ==
    IsFiniteSet(Candidate) /\ IsFiniteSet(Probe) /\ Question \in [Probe -> Obligation]

(* "resolved": a body in the project or a dependency; "opaque": external or *)
(* dynamic; "other": declared by a contract, or a test double.              *)
Kind == {"resolved", "opaque", "other"}

(* "selected", "possible": binds the invocation to the candidate's source;  *)
(* "body": inside the body selected, or linked to it by resolved calls; "contract": *)
(* declared by a contract of the dependency (tier L6).                      *)
Packet == [obligation : Obligation, candidate : Candidate, positive : BOOLEAN,
           probative : BOOLEAN, uncertain : BOOLEAN,
           source : {"selected", "possible", "body", "contract", "other"}]

(* Opposing packets on one obligation; the side overridden, {} if the       *)
(* contradiction is unresolved.                                             *)
Contradiction == [obligation : Obligation, candidate : Candidate,
                  pos : SUBSET Packet, neg : SUBSET Packet, overridden : SUBSET Packet]

(* `own` holds the states of the candidates that carry some: those `stated`. *)
(* `edges` are the frontier entries listed, each the obligations it might   *)
(* settle ({}: it does not say); `size` is the number there are.  `budget`  *)
(* is the set of obligations a budget provenance names, at most one.        *)
Claim == [id : Invocation, candidates : SUBSET Candidate, kind : [Candidate -> Kind],
          stated : SUBSET Candidate, own : [Candidate -> [Obligation -> ProofState]],
          obligations : [Obligation -> ProofState], selection : Selection,
          packets : SUBSET Packet, contradictions : SUBSET Contradiction,
          probes : [Probe -> {"FOUND", "NOT_FOUND", "INCOMPLETE", "missing"}],
          stop : {"SETTLED", "CLAIM_NOT_INVESTIGATED", "other"},
          unresolved : SUBSET Obligation, enumerated : BOOLEAN,
          edges : Seq(SUBSET Obligation), size : Nat,
          exhausted : BOOLEAN, budget : SUBSET EvidenceObligation, cited : SUBSET Packet,
          closure : SUBSET Obligation, verdict : Verdict]

-----------------------------------------------------------------------------
(* Packets and contradiction records. *)

(* The registry of assertions: only bindings are about IMPLEMENTATION, and  *)
(* only in favour; uncertainty is about PERSISTENCE; contracts say nothing  *)
(* about ACTIVATION.                                                        *)
LegalPacket(p) ==
    p.probative =>
        /\ p.obligation = "IMPLEMENTATION" =>
              p.positive /\ p.source \in {"selected", "possible", "other"}
        /\ p.source \in {"selected", "possible"} => p.obligation = "IMPLEMENTATION"
        /\ p.uncertain => p.obligation = "PERSISTENCE" /\ ~ p.positive
        /\ p.source = "contract" => p.obligation # "ACTIVATION"

(* Mutant of Directional: evidence about another candidate counts.          *)
DirectionalOfAnyone(k, c, o) ==
    {p \in k.packets : /\ p.obligation = o
                       /\ p.probative /\ ~ p.uncertain
                       /\ o = "IMPLEMENTATION" => p.source \in {"selected", "possible"}}

(* The evidence that can settle an obligation of a candidate. *)
Directional(k, c, o) ==
    {p \in k.packets : /\ p.obligation = o /\ p.candidate = c
                       /\ p.probative /\ ~ p.uncertain
                       /\ o = "IMPLEMENTATION" => p.source \in {"selected", "possible"}}
Uncertain(k, c, o) ==
    \E p \in k.packets : p.obligation = o /\ p.candidate = c /\ p.probative /\ p.uncertain
Pos(k, c, o) == {p \in Directional(k, c, o) : p.positive}
Neg(k, c, o) == {p \in Directional(k, c, o) : ~ p.positive}
Opposed(k, c, o) == Pos(k, c, o) # {} /\ Neg(k, c, o) # {}
Bound(k, c, sources) ==
    \E p \in Directional(k, c, "IMPLEMENTATION") : p.source \in sources

(* Precedence of the body that runs over a contract that describes it. *)
Precedes(k, r) ==
    /\ k.selection = "SINGLE_ESTABLISHED"
    /\ k.kind[r.candidate] = "resolved"
    /\ Bound(k, r.candidate, {"selected"})
    /\ \A p \in (r.pos \cup r.neg) \ r.overridden : p.source = "body"
    /\ \A p \in r.overridden : p.source = "contract"

LegalContradiction(k, r) ==
    /\ r.obligation # "IMPLEMENTATION"
    /\ r.candidate \in k.candidates
    /\ r.pos # {} /\ r.neg # {}
    /\ r.pos \subseteq Pos(k, r.candidate, r.obligation)
    /\ r.neg \subseteq Neg(k, r.candidate, r.obligation)
    /\ r.overridden \in {{}, r.pos, r.neg}
    /\ r.overridden # {} => Precedes(k, r)
    /\ \A s \in k.contradictions :
          s.obligation = r.obligation /\ s.candidate = r.candidate => s = r

(* What a probe has found is a packet of the claim, and none in favour. *)
LegalProbe(k, x) ==
    k.probes[x] = "FOUND" =>
        \E p \in k.packets :
           /\ p.obligation = Question[x]
           /\ p.probative => ~ p.positive
           /\ x = CommitProbe => p.uncertain

RecordsOf(k, c, o) == {r \in k.contradictions : r.obligation = o /\ r.candidate = c}
Won(k, c, o, positive) ==
    \E r \in RecordsOf(k, c, o) :
       r.overridden # {} /\ r.overridden = IF positive THEN r.neg ELSE r.pos

(* Every opposition has a record that cites all of it, and only oppositions *)
(* have records.                                                            *)
Recorded(k, c, o) ==
    IF Opposed(k, c, o)
    THEN \E r \in RecordsOf(k, c, o) : r.pos = Pos(k, c, o) /\ r.neg = Neg(k, c, o)
    ELSE RecordsOf(k, c, o) = {}

-----------------------------------------------------------------------------
(* States of obligations. *)

(* The states of a candidate: its own, or, if it carries none, the claim's. *)
Effective(k, c) == IF c \in k.stated THEN k.own[c] ELSE k.obligations

(* Mutant of Required: evidence in favour outweighs evidence against. *)
RequiredFavourable(k, c, o) ==
    IF Pos(k, c, o) # {} THEN "SUPPORTED"
    ELSE IF Uncertain(k, c, o) THEN "UNKNOWN"
    ELSE IF Neg(k, c, o) # {} THEN "REFUTED" ELSE "UNKNOWN"

(* What the evidence requires, unless the analysis failed. *)
Required(k, c, o) ==
    IF Opposed(k, c, o) /\ ~ Won(k, c, o, TRUE) /\ ~ Won(k, c, o, FALSE) THEN "CONFLICTING"
    ELSE IF Uncertain(k, c, o) THEN "UNKNOWN"
    ELSE IF Won(k, c, o, TRUE) \/ (Pos(k, c, o) # {} /\ ~ Opposed(k, c, o)) THEN "SUPPORTED"
    ELSE IF Won(k, c, o, FALSE) \/ Neg(k, c, o) # {} THEN "REFUTED" ELSE "UNKNOWN"

Justified(k, c) ==
    /\ k.kind[c] = "opaque" => Effective(k, c)["IMPLEMENTATION"] \in {"UNKNOWN", "ERROR"}
    /\ Effective(k, c)["IMPLEMENTATION"] # "REFUTED"
    /\ \A o \in Obligation :
          /\ Recorded(k, c, o)
          /\ Effective(k, c)[o] \in {"ERROR", Required(k, c, o)}

(* One state for several candidates: agreement, or the worst trouble. *)
Aggregate(states) ==
    IF \E s \in states : states = {s} THEN CHOOSE s \in states : TRUE
    ELSE IF "ERROR" \in states THEN "ERROR"
    ELSE IF "CONFLICTING" \in states THEN "CONFLICTING" ELSE "UNKNOWN"

StatesOf(k, o) == {Effective(k, c)[o] : c \in k.candidates}

ExpectedSelection(k) ==
    IF "ERROR" \in StatesOf(k, "IMPLEMENTATION") THEN "SELECTION_ERROR"
    ELSE IF StatesOf(k, "IMPLEMENTATION") # {"SUPPORTED"} THEN "UNRESOLVED_IDENTITY"
    ELSE IF Cardinality(k.candidates) = 1
    THEN IF \E c \in k.candidates : Bound(k, c, {"selected"})
         THEN "SINGLE_ESTABLISHED" ELSE "UNRESOLVED_IDENTITY"
    ELSE IF \A o \in EvidenceObligation : Cardinality(StatesOf(k, o)) = 1
    THEN "AGREEMENT_INVARIANT" ELSE "UNRESOLVED_DIVERGENT"

LegalCandidates(k) ==
    /\ k.candidates # {}
    /\ k.stated \subseteq k.candidates
    /\ k.selection = "SINGLE_ESTABLISHED" => Cardinality(k.candidates) = 1
    /\ k.selection \in {"AGREEMENT_INVARIANT", "UNRESOLVED_DIVERGENT"} =>
          Cardinality(k.candidates) >= 2
    /\ k.stated # k.candidates =>
          Cardinality(k.candidates) = 1 /\ k.selection = "SINGLE_ESTABLISHED"

-----------------------------------------------------------------------------
(* Acquisition, closure and verdict. *)

Investigated(k) == k.stop # "CLAIM_NOT_INVESTIGATED"

(* The packets a REFUTED or SUPPORTED claim state rests on. *)
Overridden(k) == UNION {r.overridden : r \in k.contradictions}
Settling(k, o, positive) ==
    {p \in k.packets : /\ p.obligation = o /\ p.probative /\ ~ p.uncertain
                       /\ p.positive = positive /\ p \notin Overridden(k)}

FrontierComplete(k) == k.enumerated /\ Len(k.edges) = k.size

LegalAcquisition(k) ==
    /\ Len(k.edges) <= k.size
    /\ ~ k.enumerated => k.edges = << >>
    /\ \A o \in k.unresolved : k.obligations[o] \notin {"SUPPORTED", "REFUTED"}
    /\ \A o \in Obligation : k.obligations[o] \in {"UNKNOWN", "CONFLICTING"} => o \in k.unresolved
    /\ k.stop = "SETTLED" => \A o \in Obligation : k.obligations[o] \notin {"UNKNOWN", "ERROR"}
    /\ ~ Investigated(k) =>
          /\ k.packets = {} /\ k.contradictions = {}
          /\ \A p \in Probe : k.probes[p] = "missing"
          /\ k.verdict = "ABSTAIN"

(* The provenance of an exhausted budget names the refutation it leaves     *)
(* untouched, and cites all of it.                                          *)
LegalBudget(k) ==
    k.budget # {} =>
        /\ k.exhausted
        /\ \E o \in k.budget :
              /\ k.budget = {o}
              /\ k.closure \in {{}, {o}}
              /\ k.cited = Settling(k, o, FALSE)
              /\ {p.candidate : p \in k.cited} = k.candidates

Proven(k) ==
    /\ k.selection \in Established
    /\ \A o \in Obligation : k.obligations[o] = "SUPPORTED"
    /\ \A p \in Probe : k.probes[p] \in {"FOUND", "NOT_FOUND"}

(* C1 to C5 of a closure (C6 is the absence of errors). *)
Closed(k, o) ==
    /\ o # "IMPLEMENTATION"
    /\ k.obligations[o] = "REFUTED"
    /\ \A c \in k.candidates : k.kind[c] # "opaque"
    /\ \A c \in k.candidates : Effective(k, c)[o] = "REFUTED"
    /\ \A x \in Obligation : k.obligations[x] # "CONFLICTING"
    /\ \A r \in k.contradictions : r.overridden # {}
    /\ k.exhausted => k.budget # {}
    /\ FrontierComplete(k)
    /\ \A i \in 1 .. Len(k.edges) : k.edges[i] # {} /\ o \notin k.edges[i]

Failed(k) == \E o \in Obligation : k.obligations[o] = "ERROR"

(* Mutant of LegalVerdict: a failed analysis may give another verdict. *)
LegalVerdictErrorsOptional(k) ==
    /\ k.verdict = "ANALYSIS_ERROR" => Failed(k)
    /\ ~ Failed(k) => (k.verdict = "PROVEN_EFFECT" <=> Proven(k))
    /\ IF k.verdict = "NO_EFFECT" THEN \E o \in Obligation : k.closure = {o} /\ Closed(k, o)
       ELSE k.closure = {}
LegalVerdict(k) ==
    /\ k.verdict = "ANALYSIS_ERROR" <=> Failed(k)
    /\ ~ Failed(k) => (k.verdict = "PROVEN_EFFECT" <=> Proven(k))
    /\ IF k.verdict = "NO_EFFECT" THEN \E o \in Obligation : k.closure = {o} /\ Closed(k, o)
       ELSE k.closure = {}

(* The constructor of EffectClaim returns, and does not raise. *)
Valid(k) ==
    /\ \A p \in k.packets : LegalPacket(p) /\ p.candidate \in k.candidates
    /\ LegalCandidates(k)
    /\ \A r \in k.contradictions : LegalContradiction(k, r)
    /\ \A x \in Probe : LegalProbe(k, x)
    /\ \A c \in k.candidates : Justified(k, c)
    /\ \A o \in Obligation : k.obligations[o] = Aggregate(StatesOf(k, o))
    /\ k.selection = ExpectedSelection(k)
    /\ LegalAcquisition(k)
    /\ LegalBudget(k)
    /\ LegalVerdict(k)
=============================================================================
