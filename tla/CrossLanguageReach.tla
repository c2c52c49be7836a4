-------------------------- MODULE CrossLanguageReach --------------------------
(***************************************************************************)
(* What scan_path does after the Python layer (module RepositoryAnalysis)  *)
(* when there are TypeScript or Go files:                                  *)
(* actenon_scan/repository/cross_language_reach.py.  For TypeScript, then  *)
(* for Go, the layer indexes the files, follows calls from the handlers    *)
(* registered as tools, and makes a finding of every sink reached that no  *)
(* report has yet.  _analyze_ts and _analyze_go are one search over two    *)
(* indexes (modules TypeScriptIndex and GoIndex).  The reports of all      *)
(* layers are in the same two lists.                                       *)
(***************************************************************************)
EXTENDS RepositoryAnalysis

CONSTANTS
    Beside(_),          \* the files that may stand beside a Python program: [ts, go]
    LanguageMaxDepth    \* max_depth

VARIABLES
    beside,          \* these files, in the order of the scan: constant
    language,        \* "ts" or "go"
    stage,           \* "wait", "index", "discover", "search", "report", "merge", "done"
    read,            \* files read
    symbols,         \* the symbols registered
    sinksByFunction, \* sinks by enclosing function: [caller, file, line, rule]
    entryNames,      \* the names of the handlers
    entry,           \* the handler searched from
    queue,           \* the paths to go on from
    visited,         \* names visited from this handler
    reachable,       \* name -> shortest path found to it
    unreported,      \* sinks still to be looked at
    unfollowed,      \* local_call_edges: [language, caller, file, call]
    newFindings,     \* result.new_findings
    analysisError    \* result.analysis_error is set

files == beside[language]
Go == INSTANCE GoIndex
Ts == INSTANCE TypeScriptIndex

(* A sink: the function it is in, and the one the layer finds it in, which *)
(* in TypeScript is the one around the first thing on the line.            *)
LanguageSink == [inside : Nat, nearest : Nat, line : Nat, rule : Rules,
                 seen : {"no", "finding", "guarded"}]

(* A file of one of these languages, with its sinks.                       *)
SourceFile(x, Syntax) ==
    /\ x.sinks \in Seq(LanguageSink)
    /\ \A n \in 1 .. Len(x.handlers) : x.handlers[n].inside \in 0 .. Len(x.functions)
    /\ [part \in DOMAIN x \ {"sinks"} |-> x[part]] \in Syntax

ASSUME LanguageMaxDepthAssumption == LanguageMaxDepth \in Nat \ {0}

ASSUME BesideAssumption ==
    \A p \in Programs : \A b \in Beside(p) :
        /\ Len(b.ts) \in Nat /\ \A i \in 1 .. Len(b.ts) : SourceFile(b.ts[i], Ts!File)
        /\ Len(b.go) \in Nat /\ \A i \in 1 .. Len(b.go) : SourceFile(b.go[i], Go!File)

registryVars == <<read, symbols>>
searchVars == <<entry, queue, visited, reachable, unfollowed>>
reportVars == <<unreported, newFindings, analysisError>>
languageVars == <<language, stage, registryVars, sinksByFunction, entryNames, searchVars, reportVars>>
scanVars == <<vars, beside, languageVars>>

-----------------------------------------------------------------------------
(* What the two indexes know.                                              *)
Name(i, k) == IF language = "ts" THEN Ts!Name(i, k) ELSE Go!Name(i, k)
HandlerName(i, n) == IF language = "ts" THEN Ts!HandlerName(i, n) ELSE Go!HandlerName(i, n)
Resolve(i, call) == IF language = "ts" THEN Ts!Resolve(i, call) ELSE Go!Resolve(i, call)
LooksLocal(call) == IF language = "ts" THEN Ts!LooksLocal(call) ELSE Go!LooksLocal(call)

Indexed == {i \in 1 .. read : files[i].reads}

(* The calls in a function, those of handlers in it included, each with    *)
(* its file.                                                               *)
In(i, calls) == [c \in 1 .. Len(calls) |-> <<i, calls[c]>>]

Body(i, k) ==
    (IF k = 0 THEN <<>> ELSE In(i, files[i].functions[k].calls))
      \o FlattenSeq([n \in 1 .. Len(files[i].handlers) |->
           IF files[i].handlers[n].inside = k THEN In(i, files[i].handlers[n].calls) ELSE <<>>])

CallSites(i, k) ==
    IF language = "ts" THEN Kept(Body(i, k), {c \in ToSet(Body(i, k)) : ~Ts!Importing(c[2])}) ELSE Body(i, k)

CallSitesIn(q) ==
    FlattenSeq([i \in 1 .. read |->
      FlattenSeq([n \in 1 .. Len(files[i].functions) + 1 |->
        IF i \in Indexed /\ Name(i, n - 1) = q THEN CallSites(i, n - 1) ELSE <<>>])])

(* Handlers of one name: the calls of the last stand for all.              *)
HandlerCalls(q) ==
    LET handlers == UNION {{i} \X (1 .. Len(files[i].handlers)) : i \in Indexed}
        all == {h \in handlers : HandlerName(h[1], h[2]) = q}
        later(a, b) == a[1] > b[1] \/ (a[1] = b[1] /\ a[2] >= b[2])
        last == CHOOSE a \in all : \A b \in all : later(a, b)
    IN  IF all = {} THEN <<>> ELSE In(last[1], files[last[1]].handlers[last[2]].calls)

HandlerNames ==
    FlattenSeq([i \in 1 .. read |->
      IF i \in Indexed THEN [n \in 1 .. Len(files[i].handlers) |-> HandlerName(i, n)] ELSE <<>>])

(* Sinks in a file that could not be read: the Go layer puts them into the *)
(* package, the TypeScript layer leaves them out.                          *)
SinksFound ==
    FlattenSeq([i \in 1 .. Len(files) |->
      IF language = "ts" /\ i \notin Indexed THEN <<>>
      ELSE [n \in 1 .. Len(files[i].sinks) |->
              LET s == files[i].sinks[n]
              IN  [caller |-> IF language = "ts" THEN Ts!Name(i, s.nearest) ELSE Go!Caller(i, s.nearest),
                   file |-> files[i].path, line |-> s.line, rule |-> s.rule]]])

(* The sinks of these files, as the per-file scan reports them.            *)
SinksBeside(them) ==
    FlattenSeq([i \in 1 .. Len(them) |->
      [n \in 1 .. Len(them[i].sinks) |-> them[i].sinks[n] @@ [file |-> them[i].path, scope |-> <<>>, guards |-> {}]]])

-----------------------------------------------------------------------------
ForgetSearch ==
    /\ read' = 0 /\ symbols' = <<>> /\ sinksByFunction' = <<>> /\ entryNames' = <<>>
    /\ entry' = 0 /\ queue' = <<>> /\ visited' = {} /\ reachable' = <<>> /\ unreported' = <<>>

ScanInit ==
    /\ \E p \in Programs : \E b \in Beside(p) :
         program = p /\ beside = b /\ AnalysisInit(SinksBeside(b.ts) \o SinksBeside(b.go))
    /\ language = "ts" /\ stage = "wait"
    /\ read = 0 /\ symbols = <<>> /\ sinksByFunction = <<>> /\ entryNames = <<>>
    /\ entry = 0 /\ queue = <<>> /\ visited = {} /\ reachable = <<>> /\ unreported = <<>>
    /\ unfollowed = {} /\ newFindings = {} /\ analysisError = FALSE

(* scan_path: only when there are such files. *)
StartLayer ==
    /\ phase = "done" /\ stage = "wait"
    /\ language' = IF beside.ts = <<>> THEN "go" ELSE "ts"
    /\ stage' = IF beside.ts \o beside.go = <<>> THEN "done" ELSE "index"
    /\ UNCHANGED <<vars, beside, registryVars, sinksByFunction, entryNames, searchVars, reportVars>>

(* The analysis of one language is over: the other follows, if there are   *)
(* files of it.                                                            *)
Onward ==
    IF language = "ts" /\ beside.go # <<>>
    THEN /\ language' = "go" /\ stage' = "index"
         /\ ForgetSearch
         /\ UNCHANGED <<unfollowed, newFindings, analysisError>>
    ELSE /\ stage' = "merge"
         /\ UNCHANGED <<language, registryVars, sinksByFunction, entryNames, searchVars, reportVars>>

AddLanguageFile ==
    /\ stage = "index" /\ read < Len(files)
    /\ read' = read + 1
    /\ symbols' = IF files[read'].reads
                  THEN IF language = "ts" THEN Ts!Registered(read') ELSE Go!Registered(read')
                  ELSE symbols
    /\ UNCHANGED <<vars, beside, language, stage, sinksByFunction, entryNames, searchVars, reportVars>>

NoSymbols ==
    /\ stage = "index" /\ read = Len(files) /\ symbols = <<>>
    /\ Onward
    /\ UNCHANGED <<vars, beside>>

FinalizeLanguage ==
    /\ stage = "index" /\ read = Len(files) /\ symbols # <<>>
    /\ stage' = "discover"
    /\ UNCHANGED <<vars, beside, language, registryVars, sinksByFunction, entryNames, searchVars, reportVars>>

(* An exception, in a walk over a tree too deep for it: the languages left *)
(* are not looked at, the scan goes on with what the layer has.            *)
FailLayer ==
    /\ stage = "discover"
    /\ analysisError' = TRUE
    /\ stage' = "merge"
    /\ UNCHANGED <<vars, beside, language, registryVars, sinksByFunction, entryNames, searchVars, unreported, newFindings>>

DiscoverHandlers ==
    /\ stage = "discover" /\ HandlerNames # <<>>
    /\ sinksByFunction' = SinksFound
    /\ entryNames' = HandlerNames
    /\ stage' = "search"
    /\ UNCHANGED <<vars, beside, language, registryVars, searchVars, reportVars>>

NoHandlers ==
    /\ stage = "discover" /\ HandlerNames = <<>>
    /\ Onward
    /\ UNCHANGED <<vars, beside>>

(* Mutant of NextEntry: what one handler reached is not visited again.     *)
NextEntryKeepsVisited ==
    /\ stage = "search" /\ queue = <<>> /\ entry < Len(entryNames)
    /\ entry' = entry + 1
    /\ queue' = << <<entryNames[entry']>> >>
    /\ UNCHANGED <<vars, beside, language, stage, registryVars, sinksByFunction, entryNames, visited, reachable,
                   unfollowed, reportVars>>

NextEntry ==
    /\ stage = "search" /\ queue = <<>> /\ entry < Len(entryNames)
    /\ entry' = entry + 1
    /\ queue' = << <<entryNames[entry']>> >>
    /\ visited' = {}
    /\ UNCHANGED <<vars, beside, language, stage, registryVars, sinksByFunction, entryNames, reachable,
                   unfollowed, reportVars>>

(* One path off the queue: its end is visited once, and followed no        *)
(* further when the path is longer than the bound.                         *)
VisitPath ==
    /\ stage = "search" /\ queue # <<>>
    /\ LET path == Head(queue)
           q == Last(path)
           calls == IF q \in visited \/ Len(path) > LanguageMaxDepth THEN <<>>
                    ELSE HandlerCalls(q) \o CallSitesIn(q)
           target(c) == Resolve(c[1], c[2])
           onward(c) == target(c).certainty # "unresolved" /\ target(c).qname \notin visited \cup {q}
           new == {target(c).qname : c \in {d \in ToSet(calls) : onward(d)}}
           nearer == {t \in new : t \in DOMAIN reachable => Len(path) + 1 < Len(reachable[t])}
       IN  /\ visited' = visited \cup {q}
           /\ queue' = Tail(queue) \o FlattenSeq([n \in 1 .. Len(calls) |->
                          IF onward(calls[n]) THEN <<Append(path, target(calls[n]).qname)>> ELSE <<>>])
           /\ reachable' = [t \in DOMAIN reachable \cup new |->
                              IF t \in nearer THEN Append(path, t) ELSE reachable[t]]
           /\ unfollowed' = unfollowed \cup
                {[language |-> language, caller |-> q, file |-> c[1], call |-> c[2]] :
                   c \in {d \in ToSet(calls) : target(d).certainty = "unresolved" /\ LooksLocal(d[2])}}
    /\ UNCHANGED <<vars, beside, language, stage, registryVars, sinksByFunction, entryNames, entry, reportVars>>

StartReport ==
    /\ stage = "search" /\ queue = <<>> /\ entry = Len(entryNames)
    /\ stage' = "report"
    /\ unreported' = sinksByFunction
    /\ UNCHANGED <<vars, beside, language, registryVars, sinksByFunction, entryNames, searchVars, newFindings, analysisError>>

(* One sink of a function reached: on a line that has a report the first   *)
(* finding gets the chain, at once; on another it becomes a finding.       *)
ReportSink ==
    /\ stage = "report" /\ unreported # <<>>
    /\ unreported' = Tail(unreported)
    /\ LET s == Head(unreported)
           reached == s.caller \in DOMAIN reachable
           old == Reported(<<s.file, s.line>>)
           chained == IF reached /\ old THEN FirstAt(<<s.file, s.line>>) ELSE {}
       IN  /\ newFindings' = IF ~reached \/ old \/ \E r \in newFindings : r.file = s.file /\ r.line = s.line
                             THEN newFindings ELSE newFindings \cup {[NewFinding(s) EXCEPT !.layer = language]}
           /\ findings' = [n \in 1 .. Len(findings) |->
                             IF n \in chained THEN WithEvidence(findings[n], {<<"chain">>}) ELSE findings[n]]
    /\ UNCHANGED <<indexVars, phase, workVars, sinks, capabilities, baseline, round,
                   beside, language, stage, registryVars, sinksByFunction, entryNames, searchVars, analysisError>>

FinishReport ==
    /\ stage = "report" /\ unreported = <<>>
    /\ Onward
    /\ UNCHANGED <<vars, beside>>

(* scan_path: a new finding is a capability as well. *)
MergeFindings ==
    /\ stage = "merge"
    /\ stage' = "done"
    /\ LET new == SetToSeq(newFindings)
       IN  findings' = findings \o new /\ capabilities' = capabilities \o new
    /\ UNCHANGED <<indexVars, phase, workVars, sinks, baseline, round,
                   beside, language, registryVars, sinksByFunction, entryNames, searchVars, reportVars>>

PythonLayer ==
    \/ IndexFile \/ FinishIndex \/ Fail
    \/ BuildGraph \/ DiscoverEntrypoints \/ Reach
    \/ Seed \/ AnalyseFunction \/ FinishAnalysis
    \/ AddGuardEvidence \/ Merge

LanguageLayer ==
    \/ StartLayer \/ AddLanguageFile \/ NoSymbols \/ FinalizeLanguage
    \/ FailLayer \/ NoHandlers \/ DiscoverHandlers
    \/ NextEntry \/ VisitPath \/ StartReport
    \/ ReportSink \/ FinishReport \/ MergeFindings

ScanAgain ==
    /\ stage = "done" /\ Rescan
    /\ language' = "ts" /\ stage' = "wait"
    /\ ForgetSearch
    /\ unfollowed' = {} /\ newFindings' = {} /\ analysisError' = FALSE
    /\ UNCHANGED beside

ScanNext ==
    \/ PythonLayer /\ UNCHANGED <<beside, languageVars>>
    \/ LanguageLayer
    \/ ScanAgain

ScanSpec == ScanInit /\ [][ScanNext]_scanVars

-----------------------------------------------------------------------------
(* Files that can all be read, with sinks found where they are, in which   *)
(* names tell enough (Plain of the two indexes).                           *)
SitesOfAll == UNION {UNION {ToSet(Body(i, k)) : k \in 0 .. Len(files[i].functions)} : i \in 1 .. Len(files)}

Plain ==
    /\ \A i \in 1 .. Len(files) : files[i].reads /\ \A s \in ToSet(files[i].sinks) : s.inside = s.nearest
    /\ IF language = "ts" THEN Ts!Plain(SitesOfAll) ELSE Go!Plain(SitesOfAll)

(* The functions that may run n calls from a handler.                      *)
RunsOf(i, n) ==
    LET targets(calls) == UNION {c[2].to : c \in calls}
        within[d \in 0 .. LanguageMaxDepth] ==
          CASE d = 0 -> {}
            [] d = 1 -> targets(ToSet(In(i, files[i].handlers[n].calls)))
            [] OTHER -> within[d - 1] \cup targets(UNION {ToSet(Body(a[1], a[2])) : a \in within[d - 1]})
    IN  within

(* Every path the layer claims, when it has reported what lies at its end, *)
(* is one the program can take: a handler calls the first function and     *)
(* each function the next, although names are matched across files,        *)
(* imports, packages, classes and receivers (cross_language_reach.py:      *)
(* "NEVER make an unreachable helper reachable").                          *)
ChainsAreCalls ==
    stage = "report" /\ unreported = <<>> /\ Plain => \A q \in DOMAIN reachable :
      LET path == reachable[q]
      IN  /\ Last(path) = q
          /\ path[1] \in ToSet(entryNames)
          /\ \A n \in 1 .. Len(path) - 1 :
               LET calls == IF n = 1 THEN HandlerCalls(path[n]) ELSE CallSitesIn(path[n])
               IN  \E c \in ToSet(calls) : \E a \in c[2].to : Name(a[1], a[2]) = path[n + 1]

(* A sink that a handler can run within the bound is reported, or a call   *)
(* on the way there is disclosed as not followed: what is not understood   *)
(* is not silently dropped, with packages of several files, names defined  *)
(* twice, recursion, and handlers that reach one function at different     *)
(* depths.  Two handlers must not share a name.                            *)
ReachedOrDisclosed ==
    stage = "done" /\ ~analysisError /\ Plain /\ (language = "ts" => Ts!DotsTell(SitesOfAll)) =>
      \A i \in 1 .. Len(files) : \A n \in 1 .. Len(files[i].handlers) :
        LET runs == RunsOf(i, n)
            name == HandlerName(i, n)
            names == {name} \cup {Name(a[1], a[2]) : a \in runs[LanguageMaxDepth - 1]}
            alone == \A j \in 1 .. Len(files) : \A m \in 1 .. Len(files[j].handlers) :
                       HandlerName(j, m) = name => j = i /\ m = n
        IN  alone => \A a \in runs[LanguageMaxDepth] : \A s \in ToSet(files[a[1]].sinks) :
              s.inside = a[2] =>
                \/ Reported(<<files[a[1]].path, s.line>>)
                \/ \E e \in unfollowed : e.language = language /\ e.caller \in names /\ e.call.to # {}

=============================================================================
