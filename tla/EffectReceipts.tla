---------------------------- MODULE EffectReceipts ----------------------------
(***************************************************************************)
(* EffectReceipt (actenon_scan/effects/receipt.py): what from_claim writes *)
(* into a receipt, and the check every receipt must pass when it is made   *)
(* and again when it is loaded.  The answers that only copy a descriptor   *)
(* of the claim (resource, control, authority), and prose, are left out.   *)
(***************************************************************************)
EXTENDS EffectClaims

(* Mutant of Cited: an answer CONFLICTING names one side. *)
CitedOneSided(k, o) ==
    CASE k.obligations[o] \in {"SUPPORTED", "CONFLICTING"} -> Settling(k, o, TRUE)
      [] k.obligations[o] = "REFUTED" -> Settling(k, o, FALSE)
      [] OTHER -> {}

(* The packets an answer rests on. *)
Cited(k, o) ==
    CASE k.obligations[o] = "SUPPORTED" -> Settling(k, o, TRUE)
      [] k.obligations[o] = "REFUTED" -> Settling(k, o, FALSE)
      [] k.obligations[o] = "CONFLICTING" -> Settling(k, o, TRUE) \cup Settling(k, o, FALSE)
      [] OTHER -> {}

Found(k) == {x \in Probe : k.probes[x] = "FOUND"}
Incomplete(k) == {x \in Probe : k.probes[x] \in {"INCOMPLETE", "missing"}}
Selected(k) == IF k.selection = "SINGLE_ESTABLISHED" THEN k.candidates ELSE {}

(* The statement of a proof: "every BLOCKING counter-evidence probe          *)
(* completed without finding counter-evidence".                             *)
SaysNothingFound(k) == k.verdict = "PROVEN_EFFECT"

ReceiptOf(k) ==
    [claim |-> k, verdict |-> k.verdict, closure |-> k.closure,
     selected |-> Selected(k),
     answers |-> [o \in EvidenceObligation |-> [state |-> k.obligations[o], by |-> Cited(k, o)]],
     found |-> Found(k), incomplete |-> Incomplete(k),
     unresolved |-> k.unresolved, size |-> k.size,
     nothingFound |-> SaysNothingFound(k),
     negative |-> k.verdict = "NO_EFFECT"]

(* One answer by itself: what its state says of the packets it cites. *)
LegalAnswer(a) ==
    /\ a.state = "UNKNOWN" => a.by = {}
    /\ a.state \in {"SUPPORTED", "REFUTED"} => a.by # {}
    /\ a.state = "SUPPORTED" => {p.positive : p \in a.by} = {TRUE}
    /\ a.state = "REFUTED" => {p.positive : p \in a.by} = {FALSE}
    /\ a.state = "CONFLICTING" => {p.positive : p \in a.by} = BOOLEAN

LegalReceipt(r) ==
    /\ Valid(r.claim)
    /\ r.verdict = r.claim.verdict /\ r.closure = r.claim.closure
    /\ r.selected = Selected(r.claim)
    /\ \A o \in EvidenceObligation :
          /\ LegalAnswer(r.answers[o])
          /\ r.answers[o].state = r.claim.obligations[o]
          /\ r.answers[o].by = Cited(r.claim, o)
          /\ \A p \in r.answers[o].by :
                p \in r.claim.packets /\ p.obligation = o /\ p.probative /\ ~ p.uncertain
    /\ r.found = Found(r.claim)
    /\ r.incomplete = Incomplete(r.claim)
    /\ r.unresolved = r.claim.unresolved /\ r.size = r.claim.size
    /\ r.negative <=> r.claim.verdict = "NO_EFFECT"
=============================================================================
