# A verification model of actenon-scan

`actenon-scan` finds places where model-controlled input reaches actions that
change, delete, send, deploy or spend. Its promise is about silence: what it
does not report must really be absent, or be disclosed as not examined. This
directory holds TLA+ modules of the parts of the program on which that promise
rests, the TLC runs that check them on small instances, and TLAPS proofs of
what matters most for every value of the constants. Paths below are relative to
`actenon_scan/`.

## Inventory

| Component | State it keeps | Operations | What is hard | What makes it correct |
| --- | --- | --- | --- | --- |
| Command line (`cli.py`) | plan of one scan, exit code | choose target, `--changed-only`, `--jobs`, exit code | an empty diff against a failed one, several paths, limits of `auto_jobs` | exit 0 is earned; nothing asked for is silently left out |
| Orchestration (`engine.py`: `scan_path`, `scan_path_parallel`) | files to scan, shards, results | collect, deal out, merge, fall back, passes per language | workers fail in any order, files vanish, serial and parallel paths drift apart | each file has one verdict, that of its own analysis; sinks behind calls between files are found or it shows that nobody looked |
| Per-file loop and cache (`engine.py`, `cache.py`) | a directory of entries, results of the run | lookup, restore, analyse, write and rename | concurrent scanners, kills, failing writes, damaged or stale entries | a cached result has the findings a fresh scan would give |
| Suppressions and baseline (`suppress.py`, `baseline.py`) | sets for one run | collect, match | comments and baseline change between runs, entries in the cache do not | a finding is hidden only for a reason of this run |
| Reachability detector (`detectors/reachability.py`, rule pass of `engine.py`) | queues and visited sets of two searches per file | prefilter, registration signals, searches, verdict per sink | nested functions, methods of one name, lists of tools that change, hop bounds | what an agent can run along followed calls is reported; reports lie on real chains |
| Guard detector (`detectors/guards.py`, `repository/guard_*.py`) | none | dominance, binding, counterfeits, use of the result, protectors | branches, handlers that swallow, reassigned receivers | a guard that clears a sink has been passed at the sink |
| Control flow, taint, authority binding (`repository/`) | graphs and lattices of one function | dominators, transfer functions, comparison | loops, exceptions, one environment for all points | dominators are those of the graph; BOUND arguments share an origin (which an assignment after the guard breaks) |
| Symbol indexes (`repository/*_symbol_index.py`) | symbols, imports, call sites | add file, finalize, resolve | order of files, re-exports, one name for several things | plain calls are followed; guesses are marked |
| Call graph (`repository/call_graph.py`) | edges by caller and callee; queue, paths, visited set of a search | build, components, `transitive_reachable` | cycles, several entrypoints, a depth bound, certainty of edges | evidence is a real chain; nothing within the bound is missed; a cut is disclosed |
| Effect summaries (`repository/effect_summary.py`) | a summary per function | seed, inherit, iterate | recursion, unknown callees, early stop | no effect missed, none invented, incompleteness inherited |
| Repository layer (`repository/engine_augment.py`, `cross_language_reach.py`) | result record, findings and capabilities of the scan | discover entrypoints, seed sinks, add and augment findings | failure at any stage, three languages after one another | it only adds, and adds for real chains only |
| Authority inventory (`authority/`) | entries of a program, diff of two inventories | evaluate, bind along calls, classify, compare | joins over branches and callers, holes in strings, keys that collide | an entry covers every request of its call; new power shows in the diff |
| Effects: claims, ledger, receipt (`effects/`) | immutable records | aggregate states, validate, count, answer | one fact derived in several places | what is concluded has evidence; whatever one part derives the next accepts |
| Sink detectors (`detectors/sinks.py`, `typescript.py`, `go.py`) | none | match syntax trees | breadth of syntax | pattern by pattern |
| Reports, brief, fix, tests, rules loader, API | none | format, load | - | - |

How they interact: the command line plans a scan, collects suppressions and
calls `scan_path` or `scan_path_parallel`. The latter runs `scan_path` in worker
processes, without the repository layers, and adds a TypeScript pass to what
comes back; all of them share the cache directory. The per-file loop asks the
cache, and on a miss runs the rule pass: sinks, reachability, guards. Then the
serial scan runs the TypeScript and Go passes and the repository layer, which
indexes all files, builds the call graph, searches it from the agent
entrypoints, propagates effects over its components and appends to the findings
of the loop; the cross-language layer does the same with names only. Reports
and the exit code are computed from the one `ScanResult`. The authority
inventory is a command of its own over the same sources.

`PROJECT.json` lists every component with its status, and the hazards of this
code at the line where they bite.

## Modules

| Module | Models | State and actions |
| --- | --- | --- |
| `ReachableSet` | what the search promises | a set that grows along edges (`Find`) |
| `CallReachability` | `transitive_reachable`, `CallPath.certainty` | the queue, `best`, `visited` of the function; one action per loop iteration: `Seed`, `PopVisited`, `PopAtBound`, `PopOpen`, `FollowEdge` |
| `Condensation` | what `CallGraph.sccs` promises | the components given out; `Emit` gives one out after all it calls, and in the end every node has been given out |
| `CallGraphSccs` | `CallGraph.sccs`, the iterative Tarjan algorithm | index, low links, stack and work stack; `Start`, `SkipStart`, `Descend`, `BackEdge`, `CrossEdge`, `CloseNode`, `CloseRoot` |
| `EffectPropagation` | `propagate_effects` | summaries as sets of concrete sinks, loop counters and change flags; `Visit` is one function's visit, `NextPass`, `NextComponent`, `NextIteration`, `Return` are the ends of the nested loops |
| `SymbolIndex` | the Python `RepositoryIndex`, `build_call_graph` | symbols, namespaces and calls as files are added (`AddFile`, `SkipFile`, `Finalize`); `ResolveCall` and `EdgeOf` are functions of that state |
| `RepositoryAnalysis` (extends `SymbolIndex`) | `analyze_repository` and its merge in `scan_path`, evidence on guards, the second scan under a baseline | findings and capabilities of the scan, the stage, entrypoints, chains; one action per stage and per function analysed, `Fail` at any of them, `Merge`, `Rescan` |
| `TypeScriptIndex`, `GoIndex` | `TSRepositoryIndex`, `GoRepositoryIndex` | the symbols registered, as files are read; `Resolve` is a function of that state |
| `CrossLanguageReach` (extends `RepositoryAnalysis`) | `_analyze_ts`, `_analyze_go` and their merge, over instances of the two indexes | queue, visited set and shortest paths per handler, sinks still to look at, for one language after the other; the Python layer's actions come first and share the two lists |
| `FunctionBody` | a Python function and its run | the body as nested statements; the run's place, exceptions and values |
| `ControlFlow` (extends `FunctionBody`) | `cfg.py` | the graph, reverse post-order and immediate dominators, one node a step |
| `GuardSemantics` | `guard_semantics.py`, `guard_resolution.py` | no state: kinds of names, action labels, styles |
| `GuardDetector` (extends `FunctionBody`) | `check_guard` for guards in the body | no state: `WalkDominates`, `Bound`, `Counterfeit`, `CheckGuard` |
| `AuthorityBinding` (extends `FunctionBody`) | `taint.py`, `authority_binding.py` | no state: `TaintEnv`, `Compare`, `BindingState` |
| `FunctionAnalysis` | the three analyses composed with the run of the function they judge | `Analyse`, then `Execute` |
| `PythonFile` | a Python file and the agent that calls its tools | functions, classes, lists of tools; the call stack of a run |
| `FileReachability` (extends `PythonFile`) | `reachability.py`, the rule pass and the guards that stand outside of the body | queues of both searches, functions found, verdicts; `FollowMethod`, `FollowLocal`, `JudgeSink`, ..., then the run |
| `AuthorityRoutes` | `routes.py` and the classification of paths, commands, statements | no state: `ClassifyHttp`, `MatchRoute`, `ResourceMatches` |
| `AuthorityProgram` (extends `AuthorityRoutes`) | the programs the extractor reads | no state: the set of all runs of a tool |
| `AuthorityInventory` (extends `AuthorityProgram`) | `python.py`, `diff.py` | the two inventories, the diff; `Extract`, `Compare`, then `Perform` |
| `ScanCache` | the cache and the per-file loop of `scan_path` | files on disk, entries, and for each scanner its place in the loop, arguments, temporary file and report. `Read`, `Hit`, `LookupRaises`, `AnalyseAndStore`, `AnalyseUnstored`, `Replace`, `WriteFails`, `Finish` are steps of a scanner; `Kill`, `Edit`, `Damage` are the environment |
| `ScanCoverage` | planning in `cli.py`, `scan_path_parallel`, the passes per language and the layers over files | the plan, the pool of shards, outcomes, unsupported files, findings of the layers, exit code. Actions of the parent (each layer is a step: `AnalyseRepository`, `AnalyseCrossLanguage`), of the workers (`StartShard`, `ScanInShard`, `FinishShard`, `FailShard`) and `Delete` |
| `EffectClaims` | what makes an `EffectClaim` legal (`effects/claim.py`, `effects/evidence.py`) | no state: `Valid` is the constructor that returns, in parts named for the checks it runs |
| `EffectReceipts` | `EffectReceipt.from_claim` and the check of every receipt | no state: `ReceiptOf` and `LegalReceipt` |
| `CoverageLedger` | `CoverageLedger.from_claims` and the arithmetic of its constructor | the claims made and a table per count. `MakeClaim` is the constructor of a claim offered any record; `FromClaims`, `Count` and `Build` make the ledger |
| `Filtering` | a sequence without some of its elements, as a recursive function | no state: `Kept` |
| `CallReachabilityProofs`, `CallGraphSccsProofs`, `EffectPropagationProofs`, `CrossLanguageReachProofs`, `ScanCacheProofs`, `ScanCoverageProofs`, `CoverageLedgerProofs`, `FileReachabilityProofs` | theorems about the module they extend | |
| `MC...` | instances for TLC | |

Analyses that judge a program are composed with that program: `FunctionAnalysis`,
`FileReachability` and `AuthorityInventory` first run the analysis and then the
program it was run on, taking any branch, raising wherever it may, with an agent
that calls any tool; the conclusions have to hold of the run. The programs are
marked external in the map: they are Python, not actenon-scan.

Abstractions worth knowing:

* A sink is a line, a snippet and how it is guarded; in `ScanCache` what the
  detectors find in a content is the constant `Analysis`. It may depend on the
  rule set and on the package under scan, and it may break off with an error and
  partial results, as the code's `except Exception` allows.
* A rule set stands for everything the cache key holds besides the content.
  Bytes of an entry are abstracted to: a whole entry, nothing, bytes
  `from_json` rejects, bytes it does not expect.
* A file in `ScanCoverage` is its language and the kinds of pattern that match
  it; the order of a directory walk is any order. A layer that follows calls
  finds the chains (sets of files, with a sink in one of them) that lie within
  the readable files of the scan, or breaks off with some of them and an
  analysis error; how it finds them is in `RepositoryAnalysis` and
  `CrossLanguageReach`. The options that a parallel scan is not given
  (`--resource-boundary`, `--include-fixtures`, `--no-repository-analysis`) are
  part of a request.
* A summary's `effects` map is the set of concrete sinks in its provenance; its
  keys are their types. Calls resolved and heuristic are followed alike, as in
  the code.
* A qualified name is the sequence of its segments, a name of a guard the
  sequence of its words, a string of the authority inventory a sequence of known
  pieces and holes. The gate on action labels compares whole words, the code
  substrings (`authority_binding.py:259`); no name of a run has a word inside
  another. Whether a text matches a configured name is abstracted to
  the name.
* A `try` has one handler and no `finally`. A guard in a `finally` is accepted
  for what follows, since `guards.py:456` compares a call with statements, and
  several handlers are each tested as the one is.
* In `AuthorityInventory` no function is used as a value
  (`authority/python.py:443`), and values and contexts are computed anew each
  time; the code keeps them (lines 439 and 724), which can differ, towards
  unknown, in programs that call themselves. In `Instance` a hole stands for any
  string, a slash included, because a caller may pass one; `model.py:11` speaks
  of whole segments.
* `RepositoryAnalysis` uses `transitive_reachable` by its contract, a shortest
  chain for every node within the bound, which `CallReachability` establishes;
  which of several shortest chains is taken is a choice. What the substrate
  modules say of a guard enters it as data; `FunctionAnalysis` has their
  algorithms.
* In `CrossLanguageReach` a call carries how it is written and, for the
  properties only, the functions it may run. Nothing the layer does reads the
  latter. Which nodes of a tree are symbols, imports, calls and sinks is given
  with the files. `_analyze_ts` and `_analyze_go` are the same code but for the
  index and the sinks of unread files, so their actions are shared.
* An evidence packet is what the checks tell apart: obligation, candidate,
  polarity, probative or hypothesis, uncertainty, and which rule of provenance
  it can satisfy (a binding, code inside the selected body, a contract, other).
  Locators, tiers, extracts and names of budgets are behind that rule.
* `from_claims` counts in one pass per table; a step of `CoverageLedger` adds a
  claim to all tables, which do not depend on each other. Counts by tier,
  budget and language, and prose, are left out. `from_claims` refuses two claims
  of one identity, and the caller gives it the number of invocations: here there
  is one invocation per identity, and no second claim of an identity is made.

## What the runs check

| Run | Shows | Bounds, and why they are enough |
| --- | --- | --- |
| `reach` | evidence is a real and shortest chain, complete within the bound, cuts disclosed, nearest entrypoint first, termination | three and four nodes, edges of every certainty, depth 2: cycles, a node queued twice, a node at the bound with and without successors, two entrypoints all occur |
| `sccs` | the search implements `Condensation`: components are the classes of mutual reachability, each given out once, callees first, and in the end all are | every graph of three nodes, larger ones with nested and linked cycles: resumed iterators, back and cross edges in one component and between two |
| `effects` | no effect missed or invented, incompleteness inherited | graphs with recursion within a component and chains across components, three placements of the sinks, unknown calls |
| `cache` | results fresh, suppressions current (those of the user always, a declared guard's unless a comment took its place, see `declarative_lost`), entries whole, entries survive, scans end | two scanners that overlap or follow one another, two files, three ways of calling (rule set, package, comments, baseline), one disturbance: an edit, a kill or a damage at any point. One is enough for each hazard listed; the proofs cover any number |
| `coverage` | each Python file to scan has the outcome of its own analysis once; sinks behind calls are found unless the result says that a layer did not run or broke off; what is passed over is reported as unsupported, or is one of the known gaps (`PassedOver`); one verdict per file, nothing unasked, clean exit earned, termination | three Python files over two and three workers (with a remainder), a test, a fixture, an excluded file and one of each other language, chains within and across what is scanned, two failures of workers or layers, one deletion, command lines of every form, with and without `--jobs` and the three options it drops; the thresholds 250 files and 8 cores are 3 and 3 |
| `claims` | ledger and receipt accept what legal claims give them; conclusions rest on evidence about every candidate; conflicts conclude nothing | up to two claims; one or two candidates; ten situations of evidence on two obligations (one side, both, resolved either way, uncertain, hypothesis, error), two probes, six frontiers, three budgets, each record with every verdict and closure, of which the constructor keeps the legal ones. The counts are sums over claims, so a disagreement shows with two; the proofs cover any number |
| `repository` | plain calls are followed whatever the order of files; new findings lie on chains Python can take; sinks behind a proven chain are reported; no layer takes back a finding, a capability or evidence; paths in TypeScript and Go are calls; what a handler can run within the bound is reported or disclosed | two Python files, calls in six forms, imports in six, functions and methods, a file that does not parse or breaks the parser; depth 2, with a chain that is longer. Three Go files in two packages, two handlers on one line or two, a chain of four calls with depth 3 so that a function one handler reaches at the bound the other reaches before it, names defined twice, a file that cannot be read. Three TypeScript modules in three layouts of directories, imports of names (renamed or not), of modules and at run time, packages, functions and methods called on objects and on `this`, chains of four calls that go on or back, a named handler, files that differ in their extension only. Both languages after one another |
| `function` | the dominators are those of the graph; a guard that dominates in the graph, or by nesting, has been passed at the sink; bound arguments share an origin, unless a name the guard reads is assigned again before the sink | every function of four statements and a sink with one guard, nested in all ways, and straight functions of two assignments (of two names or of one), a guard and a sink with arguments of every form |
| `python_file` | a sink an agent runs along followed calls is reported; a report lies on a chain of calls; a sink cleared by a guard outside of the body runs behind an authorization | chains of methods and of functions of four calls, one more than the hop bound, nested functions, inheritance, protectors with a reassigned receiver, lists of tools with every operation on them, each with its variants |
| `authority` | requests and writes of a run are instances of the entries of their call; an entry admits what it was made for; new power shows in the diff | a tool and two helpers, every way the extractor follows a url in one step and in pairs, changes from one program to another; one route of every shape |
| `parallel_differs`, `declarative_lost` | disagreements with the documentation, below | the instances of `coverage` (one tree, scanned serially and by two workers, nothing deleted and nothing failing) and `cache` |

`CHECK_DEADLOCK FALSE` is set because every one of these programs ends.

Fairness: `CallReachability`, `CallGraphSccs` and the analyses of
`FunctionAnalysis` are sequential functions, so `WF` of their steps only says
that the interpreter keeps running. In `ScanCache` each scanner's own steps are
weakly fair; nobody has to start, edit, kill or damage. In `ScanCoverage` the
parent and the workers, which are operating-system processes, keep running; a
failure ends a worker, and the pool reports it. Programs under analysis are
never required to run.

Preconditions of the properties, where the code promises nothing beyond them:

* `PlainCallsFollowed` and `ReachedSinksAreReported` speak of calls written in a
  form the index resolves, and of chains that `transitive_reachable` stores.
  The former also asks that no two files are one module (`a.py` and
  `a/__init__.py`, of which the index consults the first) and that no class has
  the name of a module, whose functions its methods would be taken for
  (`ModulesDiffer`). These two were found by trying to prove the property
  without them.
* `ChainsAreCalls` and `ReachedOrDisclosed` speak of code in which names tell
  enough (`Plain` of the two indexes). A call runs what it names
  (`RunsWhatItNames`): in Go by a bare name a function of its package, after a
  dot a function or method of that name; in TypeScript what the import behind
  the name means, or else a function of that name, of its own file if that has
  one and the call is bare or on `this`; and nothing external is named like
  something of the repository. In Go no function is named like a method and
  nothing is called through a capital; in TypeScript a name stands for one thing
  in its file, `./` is used in the root only, no package or handler is named
  like a module. A computed call may run anything.
* TypeScript calls through a dot that are not followed are not disclosed either,
  nor are calls of `require` and `import`; `DotsTell` says which are followed.
  Two handlers that share a name are left out of `ReachedOrDisclosed`.
* `RunIsReported`, `BoundSharesOrigin` and `InventoryCovers` leave out the forms
  listed as disagreements below, each by a named condition (`Plain`,
  `ListsAreClear`, `SafeOr`, `AssignedOnce` or `ReadInOrder`,
  `HelpersReturnArguments`). `Plain` also says that a class inherits from
  classes before it, as Python has it. `ReportedIsCalled` needs `Plain`, and
  that a variable passed as `tools=` was assigned before (`ListsAreAssigned`).

## What is proved

With TLAPS, for every value of the constants that satisfies the named
assumptions (`GraphAssumption`, `SccAssumption`, `InputAssumption`,
`AnalysisAssumption`, `BesideAssumption`, `CacheAssumption`,
`CoverageAssumption`, `ClaimAssumption`, `LedgerAssumption`,
`ProgramAssumption`, `LanguageMaxDepthAssumption`, `FilesAssumption`). They say of what
type the constants are, and two of them more:
`InputAssumption` has the components of the call graph in an order in which
followed calls lead to the same or an earlier one, and `SccAssumption` lists
every function. `propagate_effects` sorts what `CallGraph.sccs` returns into
that order by a search in postorder, which is not modelled; that there is such
an order, since whole components are given out callees first, is
`GivenOutInOrder`.

* `CallReachabilityProofs`: `TypeCorrect`, `EvidenceReal`, `Complete`,
  `CutsDisclosed`, `NearestFirst` and `Refinement`. The
  invariant `EvidenceInv` says of every path in the queue, in `best` and in the
  entry being explored that it is a chain from an entrypoint to its node, and of
  the edges still to follow that they start at the current node; `best` alone is
  not inductive, because its new paths are made from the queue's. The refinement
  maps `found` to the domain of `best`. That nothing within the bound is missed
  and that paths are shortest rests on `OrderInv`: the queue is in the order of
  length and entrypoint and spans at most one length (`QueueOrder`), what is
  visited has the path it keeps (`VisitedOrder`), all callees of a visited node
  below the bound are stored with a path no worse than through it (`Expanded`),
  and what was left at the bound is marked (`CutMarked`). At the end, induction
  over the length of a chain shows that its node is stored
  (`ReachedIsStored`).
* `CallGraphSccsProofs`: `TypeCorrect`, `GivenOutInOrder` (every step gives out
  nothing, or one whole component whose members are new and call only what was
  given out) and `Refinement` (a search that returns has given out every
  function, so `Condensation` is implemented). The invariant `SccInv` relates
  the four structures of the search: indices grow along Tarjan's stack and along
  the work stack, and discovered is what is on the stack or given out
  (`StackInv`, `WorkInv`); a call leads to a discovered node unless an iterator
  still has it (`CallsInv`); from a node on the stack calls lead back to an open
  node that is no younger, and from an open node to all on the stack that are no
  older (`CyclesInv`); a low link is the index of a node reached (`LinksInv`),
  and is no greater than any that calls followed so far lead to from the nodes
  between its node and the next open one (`CoverInv`). If the low link of the
  node on top is its index, no call leaves what is above it on the stack except
  to what was given out, so that part is its component (`FromIsComponent`). If
  it is smaller, an older open node is reached, and the node may be left on
  the stack (`CloseNodeKeeps`).
* `EffectPropagationProofs`: `TypeCorrect`, `SummariesOnlyGrow`,
  `LeastSummaries` (no summary exceeds any closed assignment),
  `NothingInvented`, `QuietClosed` (an iteration without change means that every
  summary accounts for every call) and `NothingMissed`. `QuietClosed` carries,
  through the loops, the functions already visited since the last change, whose
  accounts still hold as long as nothing changes. `NothingMissed` needs that the
  caps never cut the loops short: the invariant `Propagates` says that
  components passed account for their calls (`Fixed`), and that after `n` passes
  over a component an effect type, or the incomplete mark, has spread as far as
  it goes or at least `n` members have it (`Spreading`), so that the passes
  allowed are enough.
* `CrossLanguageReachProofs`: `Additive`, `FindingsAreReached`,
  `ReachedAreReported`, `PlainCalls`, `ChainsHold` and `NothingIsDropped`, about
  the repository layer and the layer of the other languages one after the other.
  For the first three, `LayerInv` says that the lists hold reports
  and what is appended to them is finite (`ListsInv`), what is empty before its
  phase comes (`PhaseInv`), that `reach` has an end of a shortest chain for each
  node it holds and leaves none out (`ReachInv`), which sink each new finding
  comes from (`FreshInv`), and that a sink the layer knows is still to be looked
  at, not proven, on a line with a report, or about to be merged (`LookedAt`).
  `PlainCalls` rests on `GraphInv`, which follows the Python index through its
  three phases: while files are added in any order, the symbols registered are
  those of the files added (`RegisteredInv`) and the imports waiting are theirs,
  with nothing bound (`PendingInv`); once they are bound, a name means what its
  import defines, and is a symbol exactly if the module imported defines it
  (`BindingsMean`). That imports wait for the last file is what makes this
  inductive.
  `ChainsHold` and `NothingIsDropped` need three things. What the two other
  indexes hold (`IndexInv`): the symbols are those of the files read so far, in
  order, and every name is registered. What `Resolve` makes of a call
  (`ResolveMeans`, for both languages): the functions the call may run are
  called what it resolves to, or it is unresolved and disclosed. And the search
  (`SearchInv`): every path in the queue or kept is a walk from a handler over
  resolved calls (`PathsInv`), and for the handler the search is at there is a
  distance for which the queue is in order, what is visited is nearest, and what
  a visited node calls is visited, queued, at the bound or disclosed (`Settled`).
  When the queue is empty that means everything within the bound (`Closed`),
  which later handlers do not disturb, though they share the map of what was
  reached (`ClosedInv`). `ReportInv` takes it from there to the list of reports.
* `ScanCacheProofs`: `TypeCorrect`, `ResultsFresh`, `SuppressionsCurrent`,
  `EntriesStay`, `NothingTorn`. The invariant `CacheInv` says that every whole
  entry, in place or still in a temporary file, describes the content and the
  rules its own key names; without the comparison of the key in the entry it
  would not survive `Damage`.
* `ScanCoverageProofs`: `TypeCorrect`, `EachPythonFileOnce`, `ChainsFound`,
  `VerdictsUnique`, `OnlyAsked` and `CleanExit`. `ScanInv` says of every phase where a Python file
  can be: in the serial list or in an outcome (`SerialInv`), in exactly one
  shard, waiting or done (`PoolInv`), in an outcome from the merge on
  (`CoverInv`, `ExitInv`); outcomes are of different files, asked for and what
  the analysis of the file says (`OutcomesInv`). That the shards `files[i::n]`
  are disjoint and leave nothing out is arithmetic (`RowsDiffer`, `RowOfNumber`).
  `LayerInv` says of the layers that what they found ends chains within the
  files scanned, and that a chain through readable files of a language whose
  layer has run without breaking off is found: nobody takes a finding or an
  error back (`LayersKeep`), later passes and deletions only shrink what is
  readable (`PassesShrink`), and a chain is of one layer's languages
  (`ChainsSplit`).
* `CoverageLedgerProofs`: `TypeCorrect`, `LedgerAlwaysAccepted`,
  `ConclusionsBacked`, `ConflictsNeverConclude` and `ReceiptsAlwaysAccepted`.
  That the ledger is accepted says nothing before the end, so the invariant
  `IInv` carries the ledger's own check for the claims counted so far
  (`Tallied`, `VerdictsAgainstStates`, `ErrorsAgree`) and what is known of the
  claims made (`Made`). Counting a claim keeps each bound because of
  `VerdictOfStates`: what a legal verdict says of the states. The theorems on
  conclusions go from a state of the claim to every candidate
  (`StateOfEveryCandidate`) and from there to a packet
  (`RequiredRestsOnEvidence`), which is not overridden because a candidate has
  one contradiction record per obligation (`OneRecord`).
* `FileReachabilityProofs`: `RunsAreReported`, `ReportsAreCalled` and
  `GuardsAreAsked`, for every file. The searches of the classes and of the
  module level are one kind of search, and `Open` says what one under way still
  owes: its queue is in the order of hops, nobody seen is more than a hop beyond
  the head, and who left the queue below the bound has all it calls among the
  seen. `SearchInv` takes that through the phases, with what is complete of each
  class (`ClassDone`) and of the module level (`LocalDone`). `RealInv` is the
  converse, that all found so far can run within its hops. `JudgeInv` says of
  the sinks judged so far what was reported and suppressed. The run of the file
  comes last: `RunInv` relates the function that runs to one a search has found
  with no more hops than there were calls (`MethodRun`, `LocalRun`), and
  `AskedInv` says that all that authorizes around the running function was
  passed. A class is suppressed on account of an ancestor that declares guards,
  and that the constructor of that ancestor asks is `DeclaredFacts`.

Induction over the natural numbers is used for sets (the numbers with a property
are all of them; `LeastNat`, `IntervalInduction`), because the library's
theorems, which take a predicate, cannot be instantiated here. That a recursive
function exists (`RecursionExists`) and what `Kept` returns (`KeptFacts`) follow
from it. These lemmas are stated in each module that needs them.

Only proved, since TLC's runs check more than they say of the result: that the
search implements `ReachableSet` (`Refinement` of `CallReachabilityProofs`), and
`QuietClosed`.

Only model-checked: liveness (`Terminates` of the search and of the scan,
`ScansEnd`, and that the component search returns, which `Refinement` of
`CallGraphSccsProofs` has as a hypothesis); and `FunctionAnalysis` and
`AuthorityInventory`. The last uses recursive operators over expressions, for
which no induction is at hand; in the first the program is nested statements
read by recursion, and the argument for a property would go by induction over
the statement.

## Disagreements with the documentation

Two have a run of their own:

* `parallel_differs`: `--jobs` promises that "findings are identical to a serial
  scan" (`cli.py:88`, and `tests/test_engine_parallel.py:1`). What the workers find
  is not completed by the repository and cross-language layers; a comment at
  `engine.py:605` calls this a documented limitation, but the help, the README and
  the test do not mention it. There is no Go pass either, and with the extra
  installed Go files are not reported as unsupported (`engine.py:705`). And
  `scan_path_parallel` is not given `--resource-boundary`, `--include-fixtures`
  and `--no-repository-analysis` (`cli.py:691` against line 709), not even for its
  serial scan of a small tree. The run shows a tree with `--include-fixtures
  --jobs 2`: in its last state a fixture and a Go file are missing, and so is a
  sink behind a call from another file.
* `declarative_lost`: "declarative-guard suppression is PRESERVED across a cache
  hit" (`engine.py:895`), but an inline comment overwrites its reason before the
  entry is stored (`engine.py:1130`), and a later run without the comment clears
  it. `SuppressionIsCurrent` excepts exactly the findings whose site a scan with
  a comment has reported before.

The others were met while modelling. The models contain them, and the
properties are stated around them.

Per-file pass (`engine.py`, `detectors/reachability.py`):

* The prefilter is called sound by construction (`engine.py:961`), but dispatch
  on a schema or an action needs no marker: `def go(c: ShellCommand):
  os.system(c.command)` is skipped, and reported once a comment says `# tool`.
* "A guard dominating the call site in the CALLER counts as dominating for the
  callee" (`reachability.py:863`) is not implemented: the helper of a guarded
  tool is reported as unguarded.
* "HIGH: sink is inside a @tool-decorated function" (`reachability.py:33`): a sink
  directly in a tool that is defined inside another function is not reported,
  because the enclosing function is looked up by the outermost lines (line 165).
* A list variable passed as `tools=` counts with what it is assigned anywhere in
  the file, later too, since assignments and passes are collected by `ast.walk`
  (`reachability.py:502-538`).
* Two toolkits with local lists of one name both count as dynamic. A wrapper's
  name matches as a substring in either direction. The `else` of a test for a
  declared name counts as the branch the name selects. A clean-up in `finally`
  is one if `tempfile` appears anywhere in the source.

Guards (`detectors/guards.py`, `repository/`):

* `guards.py:8` wants the guard on every path; one in the body of a `for`, in a
  `try` whose handler is narrow, or before a sink in a handler is accepted.
* A receiver "not shadowed or reassigned" may be an attribute of `self` that is
  assigned again, or a name assigned a value of unknown type. Decorators
  "always dominate", but a tool defined inside a guarded function runs later.
* The walk of the taint analysis enters nested functions despite the comment at
  `taint.py:431`.
* BOUND is "proven that authority parameters and sink parameters trace back to
  the same value" (`authority_binding.py:8`), but one environment per function
  stands for the values at every call (`repository/taint.py:450`):
  `x = p; authorize(x); x = q; sink(x)` is BOUND. So is the result of a helper
  with its argument, whatever the helper returns.
* A guard on `read` and a sink on `delete` of one noun pass the gate on action
  labels.

Repository layer:

* A short heuristic chain takes the place of a longer resolved one
  (`call_graph.py:431`), and only resolved chains give new findings.
* The module of a call in a method is computed with the class in it
  (`call_graph.py:336`), so such calls are unresolved. Relative imports in a
  plain module never resolve (`symbol_index.py:675`) and are counted as
  external. In `helper().strip()` the inner call has no edge. `import b; b.x()`
  is unresolved. A bare `run()` resolves to a method `run`.
* A file that raises anything but the three exceptions caught ends the layer.
* In a recursive component a summary may lack sources of an effect it has,
  because only a new type counts as a change (`effect_summary.py:388`).
* `transitive_reachable` says that a node is enqueued at most once, which is not
  so; a complete chain of exactly `max_depth` calls is marked truncated.
* Findings of this layer ignore inline suppressions, and having no snippet hash
  never match a baseline.

TypeScript (`repository/ts_symbol_index.py`, `repository/cross_language_reach.py`)
and Go (`repository/go_symbol_index.py`); read only, the grammars were not at
hand to run it:

* `./x` is looked up from the root of the repository, not from the directory of
  the importing file (`ts_symbol_index.py:834`).
* `this.x` is RESOLVED to the last method of that name in the file, whatever its
  class: the test for several matches goes over a dictionary keyed by name and
  never finds two (line 1044).
* A package named like a module of the root directory resolves into that module;
  an imported name resolves to a method of that name, or to a symbol of a module
  below; of two files that differ in their extension only the first gives the
  bindings.
* An unresolved call on an object is neither followed nor disclosed, for all
  that the module says of unresolved dynamic calls.
* A sink belongs to the function around the first node of its line, so what is
  on the line of a function's head belongs to the scope around it. Sinks of a
  TypeScript file that could not be read are left out; those of a Go file go to
  the package.
* `DynamicStructuredTool` is made with `new`, which is no `call_expression`, and
  its argument is looked for under a node type of another name
  (`cross_language_reach.py:786`).

* Two Go handlers of a package on one line of different files share a name, and
  the calls of the last replace those of the first (line 566), so sinks only the
  first reaches are missed.
* "Agent reachability: PROVEN" is stated for chains of names matched
  heuristically, while `certainty.py` keeps PROVEN for fully resolved ones.
* In Go a bare call is RESOLVED to a method of that name, builtins such as `delete`
  and `close` included; `pkg.Func` to a method of that name. Bare names are
  looked up in the first file of a package only.
* Library packages are not capitalised, as the comment at line 613 has it: calls
  of `fmt` count as unfollowed local calls, and calls through an exported
  variable are not disclosed. A search cut by depth is not disclosed.
* An exception in the TypeScript pass skips the Go pass.

Scan and cache:

* Files "are reported as unsupported, never counted as clean"
  (`docs/COVERAGE.md:389`), but with `--changed-only` the diff is cut to eight
  suffixes first (`cli.py:1076`): a changed file in a language without an analyser
  is not reported, `.mts`, `.cts` and names git prints in quotation marks
  (`cli.py:1081`) are not scanned. Named one by one, `.mts` and `.cts` are passed
  over too. Of several directories on the command line only the first is scanned
  (`cli.py:493`).
* Two files with the same content share one cache entry, and the second is
  reported under the name of the first; the package under scan is not part of
  the key (`cache.py:113`).
* An entry that is not UTF-8, or no JSON object, ends the scan (`cache.py:293`).
* The plan takes the length of the pair `_collect_files` returns for the number
  of files, so a scan without `--jobs` is never parallel (`cli.py:654`).
* The baseline is matched on file and snippet, not on the rule.

Receipts: the receipt of every `PROVEN_EFFECT` says that the probes completed
without finding counter-evidence; the verdict only needs them to have completed,
and the receipt can list one that found some (`effects/receipt.py:315`).

Authority inventory (`authority/python.py:12-18`: what is not registered "is
*unknown* and stays unknown", nothing is widened):

* `url or "https://d"`, and `if not url: url = default`, are RESOLVED to the
  default although the caller chooses; a loop variable or an unpacking after an
  assignment of a literal keeps the literal; a parameter that is assigned again
  is taken for the caller's; `global` is ignored.
* A base url with a dynamic absolute url is a TEMPLATE under the base.
* An effect through a client that is a parameter, or through a method of an
  unknown receiver, is not listed.
* A hole in the path of an api.github.com request gives a general entry that the
  special route of the request at run time is not an instance of.
* Beyond 32 contexts later call sites keep only their first. Equal literals on
  two lines are UNRESOLVED. Evidence with the same action, resource and call
  path is listed once.

## Not modelled

* Sink detectors match syntax trees against tables; they have no state or order
  a model checker would help with. The same holds for the rules loader, and for
  the text of reports, brief, explain, fix and test generation.
* Parts left out of modelled components are named in `PROJECT.json`.

## Plan

1. `FunctionAnalysis`: `IdomIsDominance` for every graph.
2. The postorder of components in `propagate_effects`, as a step between
   `Condensation` and `EffectPropagation` that discharges `CalleesFirst`.
