--------------------------- MODULE MCCoverageLedger ---------------------------
(***************************************************************************)
(* CoverageLedger on ledgers of up to two claims.  The first ranges over   *)
(* situations of evidence on two obligations, for one candidate or two,    *)
(* over probes, frontiers and budgets, each with every verdict and         *)
(* closure; the second over one claim of each kind.                        *)
(***************************************************************************)
EXTENDS CoverageLedger

CONSTANTS c1, c2, i1, i2, probe, commitProbe

MCQuestion == [x \in Probe |-> "PERSISTENCE"]

Pk(o, c, positive, source) ==
    [obligation |-> o, candidate |-> c, positive |-> positive, probative |-> TRUE,
     uncertain |-> FALSE, source |-> source]

(* Evidence on one obligation. *)
Situation == {"none", "hypothesis", "pos", "neg", "open", "posWins", "negWins",
              "uncertain", "doubt", "error"}
Side(o, c, sit, positive) ==
    CASE sit \in {"pos", "doubt"} /\ positive -> {Pk(o, c, TRUE, "body")}
      [] sit = "neg" /\ ~ positive -> {Pk(o, c, FALSE, "body")}
      [] sit = "open" -> {Pk(o, c, positive, "body")}
      [] sit = "posWins" -> {Pk(o, c, positive, IF positive THEN "body" ELSE "contract")}
      [] sit = "negWins" -> {Pk(o, c, positive, IF positive THEN "contract" ELSE "body")}
      [] OTHER -> {}
Rest(o, c, sit) ==
    CASE sit = "hypothesis" -> {[Pk(o, c, FALSE, "other") EXCEPT !.probative = FALSE]}
      [] sit \in {"uncertain", "doubt"} -> {[Pk(o, c, FALSE, "body") EXCEPT !.uncertain = TRUE]}
      [] OTHER -> {}
RecordOf(o, c, sit) ==
    IF sit \notin {"open", "posWins", "negWins"} THEN {}
    ELSE {[obligation |-> o, candidate |-> c, pos |-> Side(o, c, sit, TRUE),
           neg |-> Side(o, c, sit, FALSE),
           overridden |-> CASE sit = "posWins" -> Side(o, c, sit, FALSE)
                            [] sit = "negWins" -> Side(o, c, sit, TRUE)
                            [] OTHER -> {}]}

Binding(c, b) == IF b \in {"possible", "selected"} THEN {Pk("IMPLEMENTATION", c, TRUE, b)} ELSE {}

(* What is known of a candidate. *)
About(b, op, per) == [binding |-> b, sit |-> [o \in EvidenceObligation |->
    CASE o = "OPERATION" -> op [] o = "PERSISTENCE" -> per [] OTHER -> "pos"]]

(* What acquisition left behind. *)
Plain == [probes |-> [x \in Probe |-> "NOT_FOUND"], enumerated |-> TRUE, edges |-> << >>,
          size |-> 0, exhausted |-> FALSE, budget |-> {}]

(* The claim the evidence calls for; its verdict is still to be chosen. *)
Derived(id, d, kind, own, q) ==
    LET D == DOMAIN d
        base ==
          [id |-> id, candidates |-> D, kind |-> kind,
           stated |-> {}, own |-> [c \in Candidate |-> [o \in Obligation |-> "UNKNOWN"]],
           obligations |-> [o \in Obligation |-> "UNKNOWN"], selection |-> "UNRESOLVED_IDENTITY",
           packets |-> UNION {Binding(c, d[c].binding) : c \in D}
                       \cup UNION {UNION {Side(o, c, d[c].sit[o], TRUE) \cup Side(o, c, d[c].sit[o], FALSE)
                                            \cup Rest(o, c, d[c].sit[o]) : o \in EvidenceObligation} : c \in D},
           contradictions |-> UNION {UNION {RecordOf(o, c, d[c].sit[o]) : o \in EvidenceObligation} : c \in D},
           probes |-> q.probes, stop |-> "other", unresolved |-> {},
           enumerated |-> q.enumerated, edges |-> q.edges, size |-> q.size,
           exhausted |-> q.exhausted, budget |-> q.budget, cited |-> {},
           closure |-> {}, verdict |-> "ABSTAIN"]
        failed(c, o) == IF o = "IMPLEMENTATION" THEN d[c].binding = "error" ELSE d[c].sit[o] = "error"
        given == [c \in Candidate |-> [o \in Obligation |->
                    IF c \notin D THEN "UNKNOWN"
                    ELSE IF failed(c, o) THEN "ERROR" ELSE Required(base, c, o)]]
        full == [base EXCEPT !.stated = D, !.own = given]
        all == [o \in Obligation |-> Aggregate({given[c][o] : c \in D})]
    IN  [full EXCEPT !.stated = IF own THEN D ELSE {},
                     !.obligations = all,
                     !.selection = ExpectedSelection(full),
                     !.unresolved = {o \in Obligation : all[o] \in {"UNKNOWN", "CONFLICTING"}},
                     !.stop = IF \A o \in Obligation : all[o] \notin {"UNKNOWN", "ERROR"}
                              THEN "SETTLED" ELSE "other",
                     !.cited = UNION {Settling(full, o, FALSE) : o \in q.budget}]

(* Every verdict and closure is offered; the constructor chooses. *)
Verdicts(k) ==
    {[k EXCEPT !.verdict = v] : v \in Verdict}
        \cup {[k EXCEPT !.verdict = "NO_EFFECT", !.closure = {o}] : o \in Obligation}

One(b, op, per) == [c \in {c1} |-> About(b, op, per)]
Resolved == [c \in Candidate |-> "resolved"]
Opaque == [c \in Candidate |-> IF c = c1 THEN "opaque" ELSE "resolved"]

Evidence ==
    {Derived(i1, One("selected", op, per), Resolved, FALSE, Plain) :
        op \in Situation \ {"uncertain", "doubt"}, per \in Situation}
Identity ==
    {Derived(i1, One(b, op, "pos"), kind, own, Plain) :
        b \in {"none", "possible", "selected", "error"}, op \in {"pos", "neg", "error"},
        kind \in {Resolved, Opaque}, own \in BOOLEAN}
Several ==
    {Derived(i1, [c \in {c1, c2} |-> IF c = c1 THEN About(b, op, "pos") ELSE About("possible", op2, per)],
             kind, TRUE, Plain) :
        b \in {"possible", "error"}, op \in {"none", "pos", "neg", "open", "error"},
        op2 \in {"none", "pos", "neg", "open", "error"},
        per \in {"pos", "neg"}, kind \in {Resolved, Opaque}}
Acquisitions ==
    {[probes |-> [x \in Probe |-> IF x = commitProbe THEN u ELSE p], enumerated |-> f.e, edges |-> f.l, size |-> f.n,
      exhausted |-> b # "none", budget |-> IF b = "cleared" THEN {"OPERATION"} ELSE {}] :
        p \in {"FOUND", "NOT_FOUND", "INCOMPLETE", "missing"}, u \in {"FOUND", "NOT_FOUND"},
        f \in {[e |-> TRUE, l |-> << >>, n |-> 0], [e |-> TRUE, l |-> <<{"ACTIVATION"}>>, n |-> 1],
               [e |-> TRUE, l |-> <<{}>>, n |-> 1], [e |-> TRUE, l |-> <<{"OPERATION"}>>, n |-> 1],
               [e |-> TRUE, l |-> <<{"ACTIVATION"}>>, n |-> 2], [e |-> FALSE, l |-> << >>, n |-> 0]},
        b \in {"none", "exhausted", "cleared"}}
Acquired ==
    {Derived(i1, One("selected", op, per), Resolved, FALSE, q) :
        op \in {"pos", "neg"}, per \in {"pos", "posWins", "hypothesis", "doubt"},
        q \in {q \in Acquisitions : q.exhausted => \A x \in Probe : q.probes[x] = "NOT_FOUND"}}

NotStarted(id) ==
    [Derived(id, One("none", "none", "none"), Opaque, TRUE,
             [Plain EXCEPT !.probes = [x \in Probe |-> "missing"]])
       EXCEPT !.packets = {}, !.obligations = [o \in Obligation |-> "UNKNOWN"],
              !.own = [c \in Candidate |-> [o \in Obligation |-> "UNKNOWN"]],
              !.unresolved = Obligation, !.stop = "CLAIM_NOT_INVESTIGATED"]

Second ==
    {Derived(i2, One("selected", op, "pos"), Resolved, FALSE, Plain) :
        op \in {"none", "pos", "neg", "open", "error"}}

MCRecords ==
    UNION {Verdicts(k) : k \in Evidence \cup Identity \cup Several \cup Acquired \cup Second
                                 \cup {NotStarted(i1), NotStarted(i2)}}
=============================================================================
