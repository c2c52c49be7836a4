-------------------------- MODULE RepositoryAnalysis --------------------------
(***************************************************************************)
(* The repository layer of a scan: analyze_repository of                   *)
(* actenon_scan/repository/engine_augment.py and its integration in        *)
(* scan_path.  The per-file scan has run; the layer indexes all files,     *)
(* builds the call graph, finds the agent entrypoints and what they reach, *)
(* adds a finding for every sink only a fully resolved chain of calls      *)
(* reaches, and evidence to what was found before.  Whatever fails, the    *)
(* scan goes on with what it has.                                          *)
(*                                                                         *)
(* transitive_reachable is used by its contract (module CallReachability): *)
(* a shortest chain for every node within the bound.  A whole scan may be  *)
(* followed by `actenon-scan baseline` and a scan with that baseline.      *)
(***************************************************************************)
EXTENDS SymbolIndex, FiniteSets

CONSTANTS
    SinkLists,   \* what detect_sinks may find in the files
    Rules,       \* rule ids
    Effects,     \* the rules effect_for_rule_id knows
    MaxDepth     \* RepositoryAnalysisConfig.max_depth

LOCAL INSTANCE GuardSemantics

(* A guard call beside a sink: its name, its definition, and what the      *)
(* substrate modules find out about it (modules FunctionAnalysis, ...).    *)
Guard == [name : QName, definition : Definition, before : BOOLEAN, dominates : BOOLEAN,
          binding : {"BOUND", "UNBOUND", "UNKNOWN"}]

(* seen: what the per-file scan made of the sink.  hash: snippet_hash, 0   *)
(* for the empty string.  A scan has reports on files of other languages   *)
(* as well; this layer leaves them alone.                                  *)
Sink == [file : Files, scope : QName, line : Nat, rule : Rules,
         seen : {"no", "finding", "guarded"}, guards : SUBSET Guard]

(* What a reader sees of a finding or capability; evidence stands for the  *)
(* parts of its reachability_reason.                                       *)
Report == [file : Files \cup STRING, line : Nat, rule : Rules, hash : Nat, suppressed : BOOLEAN,
           layer : {"file", "repository", "ts", "go"}, evidence : SUBSET Seq(STRING)]

ASSUME AnalysisAssumption ==
    /\ SinkLists \subseteq Seq(Sink)
    /\ Effects \subseteq Rules
    /\ MaxDepth \in Nat \ {0}

VARIABLES
    sinks,         \* the sinks of the repository: constant
    phase,         \* what analyze_repository does next
    edges,         \* the call graph
    entrypoints,   \* qualified names of the agent entrypoints
    reach,         \* what transitive_reachable returned
    disclosed,     \* calls of entrypoints counted as unfollowed local calls
    direct,        \* _seed_direct_sinks: sinks by enclosing function
    todo,          \* functions of `direct` the main loop has still to look at
    findings, capabilities,   \* the lists of the scan, in place
    fresh,         \* result.new_findings
    augmented,     \* result.augmented_findings: indexes into findings
    failed,        \* result.analysis_error is set
    baseline,      \* <<file, hash>> pairs load_baseline returns
    round          \* 1: first scan, 2: the scan with its baseline

resultVars == <<sinks, findings, capabilities, baseline, round>>
workVars == <<edges, entrypoints, reach, disclosed, direct, todo, fresh, augmented, failed>>
vars == <<indexVars, phase, workVars, resultVars>>

-----------------------------------------------------------------------------
(* The per-file scan's reports, with the baseline given.                   *)
FileReport(s, known) ==
    [file |-> s.file, line |-> s.line, rule |-> s.rule, hash |-> s.line,
     suppressed |-> <<s.file, s.line>> \in known, layer |-> "file", evidence |-> {<<"reachable">>}]

FileReports(seen, known) ==
    LET own == Kept(sinks, {s \in ToSet(sinks) : s.seen \in seen})
    IN  [i \in 1 .. Len(own) |-> FileReport(own[i], known)]

ScanFiles(known) ==
    /\ findings' = FileReports({"finding"}, known)
    /\ capabilities' = FileReports({"finding", "guarded"}, known)

NothingYet ==
    /\ edges' = {} /\ entrypoints' = {} /\ reach' = <<>> /\ disclosed' = {} /\ direct' = {}
    /\ todo' = {} /\ fresh' = {} /\ augmented' = {} /\ failed' = FALSE

(* A file that cannot be parsed has no sinks.                              *)
InProgram(s) ==
    /\ program[s.file].parses = "yes"
    /\ \/ s.scope = <<>>
       \/ \E d \in ToSet(program[s.file].defs) :
            s.scope = IF d.cls = "" THEN <<d.name>> ELSE <<d.cls, d.name>>

AnalysisInit(others) ==
    /\ Init
    /\ sinks \in {Kept(list, {s \in ToSet(list) : InProgram(s)}) \o others : list \in SinkLists}
    /\ phase = "index"
    /\ edges = {} /\ entrypoints = {} /\ reach = <<>> /\ disclosed = {} /\ direct = {}
    /\ todo = {} /\ fresh = {} /\ augmented = {} /\ failed = FALSE
    /\ baseline = {} /\ round = 1
    /\ findings = FileReports({"finding"}, {})
    /\ capabilities = FileReports({"finding", "guarded"}, {})

-----------------------------------------------------------------------------
IndexFile ==
    /\ phase = "index"
    /\ \E f \in Files : AddFile(f) \/ SkipFile(f)
    /\ UNCHANGED <<phase, workVars, resultVars>>

FinishIndex ==
    /\ phase = "index"
    /\ Finalize
    /\ phase' = "graph"
    /\ UNCHANGED <<workVars, resultVars>>

(* Any other exception, of a file that cannot be parsed in an unexpected   *)
(* way or of a later pass: what the result holds by then is kept.          *)
Fail ==
    /\ \/ phase = "index" /\ \E f \in waiting : program[f].parses = "crash"
       \/ phase \in {"seed", "analyse"}
    /\ failed' = TRUE
    /\ phase' = "merge"
    /\ UNCHANGED <<indexVars, edges, entrypoints, reach, disclosed, direct, todo, fresh, augmented,
                   resultVars>>

BuildGraph ==
    /\ phase = "graph"
    /\ edges' = CallGraph
    /\ phase' = "entry"
    /\ UNCHANGED <<indexVars, entrypoints, reach, disclosed, direct, todo, fresh, augmented, failed,
                   resultVars>>

(* discover_entrypoints.  Without one the layer returns at once: not even  *)
(* the evidence of the guards is added.                                    *)
IsEntrypoint(q) == Known(q) /\ LookupSymbol(q).tool /\ LookupSymbol(q).kind # "class"

DiscoverEntrypoints ==
    /\ phase = "entry"
    /\ entrypoints' = {q \in {registered[i].qname : i \in 1 .. Len(registered)} : IsEntrypoint(q)}
    /\ phase' = IF entrypoints' = {} THEN "merge" ELSE "reach"
    /\ UNCHANGED <<indexVars, edges, reach, disclosed, direct, todo, fresh, augmented, failed,
                   resultVars>>

Weaker(c, d) ==
    CASE "unresolved" \in {c, d} -> "unresolved"
      [] "heuristic" \in {c, d} /\ "unresolved" \notin {c, d} -> "heuristic"
      [] OTHER -> "resolved"

(* chains[k]: the ends of chains of k calls, with their weakest certainty. *)
Chains ==
    LET chains[k \in 0 .. MaxDepth] ==
          IF k = 0 THEN {[node |-> q, certainty |-> "resolved"] : q \in entrypoints}
          ELSE UNION {{[node |-> e.callee, certainty |-> Weaker(c.certainty, e.certainty)] :
                         e \in {d \in edges : d.caller = c.node}} : c \in chains[k - 1]}
    IN  chains

ShortestChains ==
    LET chains == Chains
        nodes(k) == {c.node : c \in chains[k]}
        new(k) == nodes(k) \ UNION {nodes(j) : j \in 0 .. k - 1}
    IN  UNION {{[node |-> c.node, length |-> k, certainty |-> c.certainty] :
                  c \in {d \in chains[k] : d.node \in new(k)}} : k \in 0 .. MaxDepth}

(* The disclosure of calls of entrypoints that could not be followed: those *)
(* whose callee text looks like an attribute of something else than self   *)
(* are taken for library calls.                                            *)
LooksExternal(callee) == Len(callee) > 1 /\ callee[1] \notin {"self", "cls"}

Reach ==
    /\ phase = "reach"
    /\ LET shortest == ShortestChains
           nodes == {c.node : c \in shortest}
           ends(n) == {c \in shortest : c.node = n}
       IN  reach' \in {r \in [nodes -> shortest] : \A n \in nodes : r[n] \in ends(n)}
    /\ disclosed' = {e \in edges : /\ e.caller \in entrypoints
                                   /\ e.certainty = "unresolved"
                                   /\ ~LooksExternal(e.callee)}
    /\ phase' = "seed"
    /\ UNCHANGED <<indexVars, edges, entrypoints, direct, todo, fresh, augmented, failed, resultVars>>

(* _seed_direct_sinks: the reports of the scan and the sinks of all files, *)
(* where the rule's effect is known and a function encloses the sink.      *)
CallerOf(s) == program[s.file].module \o s.scope

Seedable ==
    {i \in DOMAIN sinks : /\ sinks[i].file \in Files /\ program[sinks[i].file].parses = "yes"
                          /\ sinks[i].rule \in Effects /\ sinks[i].scope # <<>>}

(* A sink counts once for its function, line and rule, whatever its file:  *)
(* the first does, and reports of the scan come first.                     *)
Seeds ==
    LET key(i) == <<CallerOf(sinks[i]), sinks[i].line, sinks[i].rule>>
        late(i) == sinks[i].seen = "no"
        sooner(i, j) == IF late(i) = late(j) THEN i < j ELSE late(j)
    IN  {sinks[i] : i \in {j \in Seedable :
                             ~\E k \in Seedable : key(k) = key(j) /\ sooner(k, j)}}

Seed ==
    /\ phase = "seed"
    /\ direct' = {[caller |-> CallerOf(s), file |-> s.file, line |-> s.line, rule |-> s.rule] :
                    s \in Seeds}
    /\ todo' = {d.caller : d \in direct'}
    /\ phase' = "analyse"
    /\ UNCHANGED <<indexVars, edges, entrypoints, reach, disclosed, fresh, augmented, failed, resultVars>>

(* Mutant of Proven: a chain with a guessed call counts. *)
ProvenOrGuessed(caller) ==
    /\ caller \in DOMAIN reach
    /\ reach[caller].certainty # "unresolved"
    /\ reach[caller].length \in 1 .. MaxDepth - 1

(* _path_to_certainty = PROVEN: resolved, not empty and not cut off by the *)
(* depth bound.  Nothing weaker is reported.                               *)
Proven(caller) ==
    /\ caller \in DOMAIN reach
    /\ reach[caller].certainty = "resolved"
    /\ reach[caller].length \in 1 .. MaxDepth - 1

Reported(loc) ==
    \E r \in ToSet(findings) \cup ToSet(capabilities) : <<r.file, r.line>> = loc

(* The findings the scan has for a location: only the first gets the chain. *)
FirstAt(loc) ==
    LET at == {i \in 1 .. Len(findings) : <<findings[i].file, findings[i].line>> = loc}
    IN  {i \in at : \A j \in at : i <= j}

NewFinding(d) ==
    [file |-> d.file, line |-> d.line, rule |-> d.rule, hash |-> 0, suppressed |-> FALSE,
     layer |-> "repository", evidence |-> {<<"chain">>}]

(* Mutant of AnalyseFunction: a sink on a line that any rule reported is   *)
(* kept out, and so is the rest of its function.                           *)
AnalyseFunctionStops ==
    /\ phase = "analyse"
    /\ \E f \in todo :
         LET here == {d \in direct : d.caller = f}
             new == {d \in here : ~Reported(<<d.file, d.line>>)}
         IN  /\ todo' = todo \ {f}
             /\ fresh' = IF Proven(f) /\ new = here
                         THEN fresh \cup {NewFinding(d) : d \in new} ELSE fresh
             /\ augmented' = IF Proven(f)
                             THEN augmented \cup UNION {FirstAt(<<d.file, d.line>>) : d \in here \ new}
                             ELSE augmented
    /\ UNCHANGED <<indexVars, phase, edges, entrypoints, reach, disclosed, direct, failed, resultVars>>

(* One function of direct_sinks: its sinks become new findings, or evidence *)
(* of the finding the scan has at that line.                               *)
AnalyseFunction ==
    /\ phase = "analyse"
    /\ \E f \in todo :
         LET here == {d \in direct : d.caller = f}
             new == {d \in here : ~Reported(<<d.file, d.line>>)}
         IN  /\ todo' = todo \ {f}
             /\ fresh' = IF Proven(f) THEN fresh \cup {NewFinding(d) : d \in new} ELSE fresh
             /\ augmented' = IF Proven(f)
                             THEN augmented \cup UNION {FirstAt(<<d.file, d.line>>) : d \in here \ new}
                             ELSE augmented
    /\ UNCHANGED <<indexVars, phase, edges, entrypoints, reach, disclosed, direct, failed, resultVars>>

FinishAnalysis ==
    /\ phase = "analyse" /\ todo = {}
    /\ phase' = "substrate"
    /\ UNCHANGED <<indexVars, workVars, resultVars>>

-----------------------------------------------------------------------------
(* _augment_one_substrate: what the guard calls beside the sink are.       *)
KindEvidence(kind) ==
    IF AuthorizesActions(kind) THEN <<"kind", kind>>
    ELSE <<"kind", kind, "does NOT authorize this action">>

(* Guards of no known kind are left out; a style counts when the symbol    *)
(* was found, a binding for AUTHORIZATION alone.                           *)
EvidenceFor(all) ==
    LET guards == {g \in all : GuardKindOf(g.name) # "UNKNOWN_GUARD"}
        inspected == {g \in guards : g.definition.symbol /\ GuardStyle(g.definition) # "UNKNOWN"}
        compared == {g \in guards : GuardKindOf(g.name) = "AUTHORIZATION" /\ g.before /\ g.dominates}
    IN  {KindEvidence(GuardKindOf(g.name)) : g \in guards}
          \cup {<<"cross-file guard", GuardStyle(g.definition)>> : g \in inspected}
          \cup {<<"authority binding", g.binding>> : g \in compared}

(* The sink a report is about: the first call on its line.                 *)
GuardsAt(r) ==
    UNION {s.guards : s \in {t \in ToSet(sinks) :
                               /\ t.file = r.file /\ t.line = r.line
                               /\ t.scope # <<>> /\ t.file \in Files
                               /\ program[t.file].parses = "yes"}}

(* _append_substrate_evidence *)
WithEvidence(r, more) == [r EXCEPT !.evidence = r.evidence \cup more]

(* Every report on its own: one that raises is skipped, the others go on.  *)
AddGuardEvidence ==
    /\ phase = "substrate"
    /\ \E skipped \in SUBSET (ToSet(findings) \cup ToSet(capabilities)) :
         LET augment(r) == IF r \in skipped THEN r ELSE WithEvidence(r, EvidenceFor(GuardsAt(r)))
         IN  /\ findings' = [i \in 1 .. Len(findings) |-> augment(findings[i])]
             /\ capabilities' = [i \in 1 .. Len(capabilities) |-> augment(capabilities[i])]
    /\ phase' = "merge"
    /\ UNCHANGED <<indexVars, workVars, sinks, baseline, round>>

(* Mutant of Merge: the new findings take the place of the others at a     *)
(* failure.                                                                *)
MergeReplaces ==
    /\ phase = "merge"
    /\ findings' = IF failed THEN SetToSeq(fresh)
                   ELSE [i \in 1 .. Len(findings) |->
                           WithEvidence(findings[i], IF i \in augmented THEN {<<"chain">>} ELSE {})]
                          \o SetToSeq(fresh)
    /\ phase' = "done"
    /\ UNCHANGED <<indexVars, workVars, sinks, capabilities, baseline, round>>

(* scan_path: the chain is added to the findings the layer names, then its *)
(* new findings are appended.                                              *)
Merge ==
    /\ phase = "merge"
    /\ findings' = [i \in 1 .. Len(findings) |->
                       WithEvidence(findings[i], IF i \in augmented THEN {<<"chain">>} ELSE {})]
                     \o SetToSeq(fresh)
    /\ phase' = "done"
    /\ UNCHANGED <<indexVars, workVars, sinks, capabilities, baseline, round>>

(* `actenon-scan baseline`, then a scan with that file.  load_baseline     *)
(* keeps the entries that have a snippet hash.                             *)
Rescan ==
    /\ phase = "done" /\ round = 1
    /\ baseline' = {<<r.file, r.hash>> : r \in {t \in ToSet(findings) : ~t.suppressed /\ t.hash # 0}}
    /\ round' = 2
    /\ waiting' = Files /\ registered' = <<>> /\ pending' = <<>>
    /\ bindings' = [f \in Files |-> [n \in Names |-> Unbound]]
    /\ ScanFiles(baseline')
    /\ NothingYet
    /\ phase' = "index"
    /\ UNCHANGED <<program, sinks>>

Next ==
    \/ IndexFile \/ FinishIndex \/ Fail
    \/ BuildGraph \/ DiscoverEntrypoints \/ Reach
    \/ Seed \/ AnalyseFunction \/ FinishAnalysis
    \/ AddGuardEvidence \/ Merge \/ Rescan

Spec == AnalysisInit(<<>>) /\ [][Next]_vars

-----------------------------------------------------------------------------
(* What Python runs for a bare name, where that is simple: the name has at *)
(* most one meaning in its file, and its import counts no dots.            *)
Namespace(f, name) ==
    {i \in 1 .. Len(program[f].defs) : program[f].defs[i].name = name}
      \cup {Len(program[f].defs) + i : i \in {j \in 1 .. Len(program[f].imports) :
                                                program[f].imports[j].bound = name}}

PlainCall(f, call) ==
    /\ Len(call.scope) = 1
    /\ Len(call.callee) = 1 /\ call.callee # <<"()">>
    /\ \A i, j \in 1 .. Len(program[f].calls) :
         i # j /\ program[f].calls[i] = call => program[f].calls[j].pos # call.pos
    /\ \A i, j \in Namespace(f, call.callee[1]) : i = j
    /\ \A i \in 1 .. Len(program[f].imports) :
         program[f].imports[i].form # "star" /\ program[f].imports[i].level = 0
    /\ \A d \in ToSet(program[f].defs) : d.name = call.callee[1] => d.kind # "method"

Runs(f, name) ==
    {Append(program[f].module, d.name) : d \in {e \in ToSet(program[f].defs) : e.name = name}}
      \cup {Append(i.module, i.name) : i \in
              {j \in ToSet(program[f].imports) :
                 /\ j.form = "from" /\ j.bound = name
                 /\ \E g \in Files : /\ program[g].parses = "yes" /\ program[g].module = j.module
                                      /\ \E d \in ToSet(program[g].defs) :
                                           d.kind # "method" /\ d.name = j.name}}

(* No two files are one module (a.py, a/__init__.py), and no class with a  *)
(* method has the name of a module.                                        *)
ModulesDiffer ==
    \A f, g \in {h \in Files : program[h].parses = "yes"} :
      /\ program[f].module = program[g].module => f = g
      /\ \A d \in ToSet(program[f].defs) :
           d.kind = "method" => program[g].module # Append(program[f].module, d.cls)

(* Whatever the order in which files are indexed, a call by name to        *)
(* another function of the repository is an edge to that function and      *)
(* counts as resolved, and no other plain call does (symbol_index.py:      *)
(* deferred imports; call_graph.py: build_call_graph).                     *)
PlainCallsFollowed ==
    phase \notin {"index", "graph"} /\ edges # {} /\ ModulesDiffer =>
      \A f \in {g \in Files : program[g].parses = "yes"} :
        \A call \in {c \in ToSet(program[f].calls) : PlainCall(f, c)} :
          \A e \in {d \in edges : d.file = f /\ d.site = call} :
             /\ e.certainty = "resolved" => e.callee \in Runs(f, call.callee[1])
             /\ Runs(f, call.callee[1]) # {} => e.certainty = "resolved"

(* A finding of the layer is about a sink in a function that a chain of    *)
(* resolved calls, shorter than the bound, leads to from an entrypoint     *)
(* (engine_augment.py: "only emit when path is fully RESOLVED").           *)
NewFindingsAreReached ==
    \A r \in fresh : \E d \in direct :
       /\ d.file = r.file /\ d.line = r.line
       /\ \E k \in 1 .. MaxDepth - 1 :
            [node |-> d.caller, certainty |-> "resolved"] \in Chains[k]

(* After an analysis that did not fail, no sink of known effect is silent  *)
(* when every shortest chain to it is resolved and within the bound: some  *)
(* finding or capability stands at its line.                               *)
ReachedSinksAreReported ==
    phase = "done" /\ ~failed =>
      \A d \in direct :
        LET ends == {c \in ShortestChains : c.node = d.caller}
        IN  /\ ends # {}
            /\ \A c \in ends : c.certainty = "resolved" /\ c.length \in 1 .. MaxDepth - 1
            => Reported(<<d.file, d.line>>)

(* The layer takes nothing back: during a scan no report disappears,       *)
(* changes its rule, place or suppression, or loses evidence, also when    *)
(* the analysis fails half way (scan_path: "never suppressed").            *)
Grows(old, new) ==
    /\ Len(old) <= Len(new)
    /\ \A i \in 1 .. Len(old) : /\ [new[i] EXCEPT !.evidence = old[i].evidence] = old[i]
                                /\ old[i].evidence \subseteq new[i].evidence

NothingTakenBack ==
    [][round' = round => Grows(findings, findings') /\ Grows(capabilities, capabilities')]_vars

=============================================================================
