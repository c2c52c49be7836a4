----------------------------- MODULE ScanCoverage -----------------------------
(***************************************************************************)
(* Which files a scan examines, and what its exit code says: the planning  *)
(* of `actenon-scan scan` (actenon_scan/cli.py) and the serial and         *)
(* parallel orchestration of scan_path and scan_path_parallel              *)
(* (actenon_scan/engine.py).                                               *)
(*                                                                         *)
(* A file is what the orchestration tells apart: its language and the      *)
(* kinds of pattern that match it.  The analysis of a file is one step,    *)
(* and so is each of the layers that a serial scan adds to it: they follow *)
(* calls from file to file (RepositoryAnalysis, CrossLanguageReach).       *)
(* Worker processes scan their shards concurrently, any of them may fail,  *)
(* and files may be deleted at any time.                                   *)
(***************************************************************************)
EXTENDS Integers, FiniteSets, Filtering

CONSTANTS
    Files,          \* source files
    Language,       \* the language of each: see Languages
    Tests,          \* files named as tests are in their language
    Vendored,       \* files in virtual environments, builds, node_modules
    Pruned,         \* those of them in directories that are not even walked
    Fixtures,       \* Python files under tests/fixtures
    UserExcluded,   \* files an --exclude pattern matches
    Quoted,         \* files whose names git quotes (not plain ASCII)
    Dirty,          \* files the analysis finds something in
    Routes,         \* files it does so only under --resource-boundary
    Broken,         \* files that cannot be decoded, parsed or analysed
    Chains,         \* calls from an entry point to a sink: see Chain
    Requests,       \* ways the command is called: see Request
    MinParallel,    \* MIN_FILES_FOR_AUTO_PARALLEL: 250, above 2
    MinCores,       \* MIN_CORES_FOR_AUTO_PARALLEL
    MaxDeletes, MaxFailures   \* bounds on the environment

(* "mts" are the TypeScript suffixes .mts and .cts; "other" is a language  *)
(* without an analyser.                                                    *)
Languages == {"python", "ts", "mts", "go", "other"}

(* kind "tree": directories, of which only the first is scanned; `files`   *)
(* are below it.  "changed": --changed-only in one directory, `files` being *)
(* the diff.  "file" and "paths": one file, several files, by name.  jobs  *)
(* is 0 if --jobs is not given; ts and go: the extras are installed.       *)
(* boundary, fixtures and noRepository are the options --resource-boundary, *)
(* --include-fixtures and --no-repository-analysis.                        *)
Request ==
    [kind : {"tree", "changed", "file", "paths"}, files : SUBSET Files,
     jobs : Nat, cores : Nat \ {0},
     ts : BOOLEAN, go : BOOLEAN, failOnUnsupported : BOOLEAN,
     boundary : BOOLEAN, fixtures : BOOLEAN, noRepository : BOOLEAN]

(* The files that calls lead through, all of one language, from an entry   *)
(* point to a sink in the last: a sink that the analysis of its own file   *)
(* does not report.                                                        *)
Chain == [files : SUBSET Files, sink : Files]

ASSUME CoverageAssumption ==
    /\ IsFiniteSet(Files)
    /\ Language \in [Files -> Languages]
    /\ Tests \subseteq Files /\ Vendored \subseteq Files /\ Pruned \subseteq Vendored
    /\ Fixtures \subseteq Files /\ Routes \subseteq Files
    /\ UserExcluded \subseteq Files /\ Quoted \subseteq Files
    /\ Dirty \subseteq Files /\ Broken \subseteq Files
    /\ Chains \subseteq Chain
    /\ \A c \in Chains :
          /\ c.sink \in c.files
          /\ \E group \in {{"python"}, {"ts", "mts"}, {"go"}} :
                \A f \in c.files : Language[f] \in group
    /\ Requests \subseteq Request
    /\ MinParallel \in Nat \ {0} /\ MinCores \in Nat \ {0}
    /\ MaxDeletes \in Nat /\ MaxFailures \in Nat

(* What the ScanResult says of a file: its findings, or an analysis error. *)
Outcome == [file : Files, error : BOOLEAN]

Shard == [state : {"waiting", "running", "done", "failed"},
          todo : Seq(Files), outcomes : Seq(Outcome)]

VARIABLES
    request,      \* the command line and the machine
    phase,        \* where the command is
    jobs,         \* processes to use
    explicit,     \* explicit_files, if the scan is `listed`
    listed,
    todo,         \* Python files the serial loop has still to scan
    pool,         \* shards of a parallel scan
    outcomes,     \* findings and analysis errors so far
    unsupported,  \* unsupported_files of the ScanResult
    excludedCount,   \* default_excluded_count of the ScanResult
    reached,      \* files with findings of the layers that follow calls
    layered,      \* repository_analysis_enabled of the ScanResult
    layerFailed,  \* an analysis error says that a layer broke off
    exit,         \* exit code
    notice,       \* the command said that there was nothing to scan
    deleted, failures   \* the environment

plan == <<jobs, explicit, listed>>
layer == <<reached, layered, layerFailed>>
answer == <<outcomes, unsupported, excludedCount, layer>>
vars == <<request, phase, plan, todo, pool, answer, exit, notice, deleted, failures>>

-----------------------------------------------------------------------------
(* Which files belong to which pass. *)

Of(S, languages) == {f \in S : Language[f] \in languages}

Present(S) == S \ deleted

(* The command calls scan_path_parallel, which has no such options.        *)
CalledParallel == jobs > 1 /\ ~listed

Boundary == request.boundary /\ ~CalledParallel
IncludeFixtures == request.fixtures /\ ~CalledParallel

(* Its serial scan has the layers, whatever --no-repository-analysis says. *)
LayersOn == CalledParallel \/ ~request.noRepository

DefaultPatterns(fixtures) ==
    Vendored \cup Tests \cup (IF fixtures THEN {} ELSE Fixtures)

(* _collect_files: a named file is taken as it is. *)
Collected(fixtures) ==
    IF request.kind = "file" THEN Of(Present(request.files), {"python"})
    ELSE Of(Present(request.files), {"python"})
             \ (UserExcluded \cup DefaultPatterns(fixtures))

CollectFiles == Collected(IncludeFixtures)

(* The Python files the user's own patterns did not exclude, but the       *)
(* default patterns do; pruned directories are not even walked.            *)
DefaultExcluded ==
    IF request.kind = "file" THEN {}
    ELSE (Of(Present(request.files), {"python"}) \cap DefaultPatterns(IncludeFixtures))
             \ (UserExcluded \cup Pruned)

PythonFiles ==
    IF listed THEN Of(Present(explicit), {"python"}) ELSE CollectFiles

TypeScriptFiles ==
    IF ~request.ts THEN {}
    ELSE IF listed THEN Of(Present(explicit), {"ts"})
    ELSE IF request.kind = "file" THEN Of(Present(request.files), {"ts", "mts"})
    ELSE Of(Present(request.files), {"ts", "mts"}) \ (UserExcluded \cup Vendored \cup Tests)

(* The default directory patterns are not applied to Go files. *)
GoFiles ==
    IF ~request.go THEN {}
    ELSE IF listed THEN Of(Present(explicit), {"go"}) \ Tests
    ELSE IF request.kind = "file" THEN Of(Present(request.files), {"go"}) \ Tests
    ELSE Of(Present(request.files), {"go"}) \ (UserExcluded \cup Tests)

(* Mutant of NoAnalyser: the extras are taken for installed. *)
NoAnalyserAssumesExtras == {"other"}

(* Languages that this installation has no analyser for. *)
NoAnalyser ==
    {"other"} \cup (IF request.ts THEN {} ELSE {"ts", "mts"})
              \cup (IF request.go THEN {} ELSE {"go"})

UnsupportedFiles ==
    IF listed THEN Of(Present(explicit), NoAnalyser)
    ELSE IF request.kind = "file" THEN Of(Present(request.files), NoAnalyser)
    ELSE Of(Present(request.files), NoAnalyser)
             \ (UserExcluded \cup Vendored \cup Of(Tests, {"ts", "mts"}))

(* A directory walk lists a set of files in some order. *)
Listings(S) ==
    {l \in [1 .. Cardinality(S) -> S] : \A i, j \in DOMAIN l : i # j => l[i] # l[j]}

(* Whether the analysis of a file finds something. *)
Finds(f, boundary) == f \in Dirty \/ (boundary /\ f \in Routes)

OutcomeOf(f) == [file |-> f, error |-> f \in Broken \cup deleted]

AutoJobs(count) ==
    IF request.cores < MinCores \/ count < MinParallel THEN 1
    ELSE IF request.cores > 1 THEN request.cores - 1 ELSE 1

(* What the command line counts: the length of what _collect_files returns, *)
(* a pair of the files and the number excluded by default.                 *)
FileCount == Len(<<CollectFiles, Cardinality(DefaultExcluded)>>)

(* Mutant of ShardFiles: the remainder of the division goes nowhere. *)
ShardFilesRounded(l, n, i) ==
    [k \in 1 .. Len(l) \div n |-> l[(k - 1) * n + i]]

(* Every n-th file, from the i-th. *)
ShardFiles(l, n, i) ==
    [k \in 1 .. ((Len(l) - i) \div n) + 1 |-> l[(k - 1) * n + i]]

-----------------------------------------------------------------------------
Init ==
    /\ request \in Requests
    /\ phase = "plan"
    /\ jobs = 1
    /\ explicit = {} /\ listed = FALSE
    /\ todo = <<>> /\ pool = <<>> /\ outcomes = <<>>
    /\ unsupported = {} /\ excludedCount = 0
    /\ reached = {} /\ layered = FALSE /\ layerFailed = FALSE
    /\ exit = -1 /\ notice = FALSE
    /\ deleted = {} /\ failures = 0

Exit(code) == phase' = "exited" /\ exit' = code

(* A named path that does not exist is refused. *)
RefuseMissing ==
    /\ phase = "plan"
    /\ request.kind \in {"file", "paths"} /\ request.files \cap deleted # {}
    /\ Exit(2)
    /\ UNCHANGED <<request, plan, todo, pool, answer, notice, deleted, failures>>

(* git cannot compute the diff: no clean result for a scan that did not run. *)
RefuseNoDiff ==
    /\ phase = "plan"
    /\ request.kind = "changed"
    /\ Exit(2)
    /\ UNCHANGED <<request, plan, todo, pool, answer, notice, deleted, failures>>

(* Several directories: the first is the target. *)
PlanTree ==
    /\ phase = "plan"
    /\ request.kind = "tree" \/ (request.kind = "file" /\ request.files \cap deleted = {})
    /\ jobs' = IF request.jobs # 0 THEN request.jobs ELSE AutoJobs(FileCount)
    /\ phase' = "start"
    /\ UNCHANGED <<request, explicit, listed, todo, pool, answer, exit, notice,
                   deleted, failures>>

PlanPaths ==
    /\ phase = "plan"
    /\ request.kind = "paths" /\ request.files \cap deleted = {}
    /\ explicit' = request.files /\ listed' = TRUE
    /\ phase' = "start"
    /\ UNCHANGED <<request, jobs, todo, pool, answer, exit, notice, deleted, failures>>

(* The lines of git diff that end in a scannable suffix; a deleted file is *)
(* in the diff, a quoted name ends in a quotation mark.                    *)
ChangedFiles == Of(request.files, {"python", "ts", "go"}) \ Quoted

(* Mutant of NothingChanged: an empty diff falls through to a full scan. *)
NothingChangedScansAll ==
    /\ phase = "plan" /\ request.kind = "changed"
    /\ ChangedFiles \ UserExcluded = {}
    /\ phase' = "start"
    /\ UNCHANGED <<request, plan, todo, pool, answer, exit, notice, deleted, failures>>

(* Nothing scannable changed, or the user's patterns exclude all of it.    *)
NothingChanged ==
    /\ phase = "plan" /\ request.kind = "changed"
    /\ ChangedFiles \ UserExcluded = {}
    /\ notice' = TRUE
    /\ Exit(0)
    /\ UNCHANGED <<request, plan, todo, pool, answer, deleted, failures>>

PlanChanged ==
    /\ phase = "plan" /\ request.kind = "changed"
    /\ ChangedFiles \ UserExcluded # {}
    /\ explicit' = ChangedFiles \ UserExcluded /\ listed' = TRUE
    /\ phase' = "start"
    /\ UNCHANGED <<request, jobs, todo, pool, answer, exit, notice, deleted, failures>>

Parallel ==
    jobs > 1 /\ ~listed /\ request.kind # "file" /\ Cardinality(CollectFiles) >= MinParallel

(* scan_path collects the files, and what it cannot examine, first. *)
BeginSerial ==
    /\ \E l \in Listings(PythonFiles) : todo' = l
    /\ unsupported' = UnsupportedFiles
    /\ excludedCount' = IF listed THEN 0 ELSE Cardinality(DefaultExcluded)
    /\ phase' = "serial"

StartSerial ==
    /\ phase = "start" /\ ~Parallel
    /\ BeginSerial
    /\ UNCHANGED <<request, plan, pool, outcomes, layer, exit, notice, deleted, failures>>

StartPool ==
    /\ phase = "start" /\ Parallel
    /\ \E l \in Listings(CollectFiles) :
          pool' = [i \in 1 .. IF jobs < Len(l) THEN jobs ELSE Len(l) |->
                      [state |-> "waiting", todo |-> ShardFiles(l, jobs, i),
                       outcomes |-> <<>>]]
    /\ phase' = "pool"
    /\ UNCHANGED <<request, plan, todo, answer, exit, notice, deleted, failures>>

-----------------------------------------------------------------------------
(* The files of s that are still there, in their order. *)
Remaining(s) == Kept(s, Files \ deleted)

(* Worker processes: scan_path with the shard as its explicit files, so    *)
(* that a file deleted in the meantime is left out.                        *)
StartShard(i) ==
    /\ pool[i].state = "waiting"
    /\ pool' = [pool EXCEPT ![i].state = "running", ![i].todo = Remaining(@)]
    /\ UNCHANGED <<request, phase, plan, todo, answer, exit, notice, deleted, failures>>

ScanInShard(i) ==
    /\ pool[i].state = "running" /\ pool[i].todo # <<>>
    /\ pool' = [pool EXCEPT ![i].todo = Tail(@),
                            ![i].outcomes = Append(@, OutcomeOf(Head(pool[i].todo)))]
    /\ UNCHANGED <<request, phase, plan, todo, answer, exit, notice, deleted, failures>>

FinishShard(i) ==
    /\ pool[i].state = "running" /\ pool[i].todo = <<>>
    /\ pool' = [pool EXCEPT ![i].state = "done"]
    /\ UNCHANGED <<request, phase, plan, todo, answer, exit, notice, deleted, failures>>

(* The worker raises, or its process dies. *)
FailShard(i) ==
    /\ failures < MaxFailures
    /\ pool[i].state \in {"waiting", "running"}
    /\ pool' = [pool EXCEPT ![i].state = "failed"]
    /\ failures' = failures + 1
    /\ UNCHANGED <<request, phase, plan, todo, answer, exit, notice, deleted>>

PoolEnded == \A i \in DOMAIN pool : pool[i].state \in {"done", "failed"}

PoolFailed == \E i \in DOMAIN pool : pool[i].state = "failed"

(* The outcomes of the first n shards, in the order of the shards. *)
Merged[n \in 0 .. Len(pool)] ==
    IF n = 0 THEN <<>> ELSE Merged[n - 1] \o pool[n].outcomes

(* Mutants of FallBack: what the workers found is kept; and is all there   *)
(* will be.                                                                *)
FallBackKeepsOutcomes ==
    /\ phase = "pool" /\ PoolEnded /\ PoolFailed
    /\ outcomes' = Merged[Len(pool)]
    /\ pool' = <<>>
    /\ BeginSerial
    /\ UNCHANGED <<request, plan, layer, exit, notice, deleted, failures>>

FallBackReturnsPart ==
    /\ phase = "pool" /\ PoolEnded /\ PoolFailed
    /\ outcomes' = Merged[Len(pool)]
    /\ pool' = <<>>
    /\ phase' = "typescript"
    /\ UNCHANGED <<request, plan, todo, unsupported, excludedCount, layer, exit, notice,
                   deleted, failures>>

(* After any failure of the pool, which is shut down first, the whole      *)
(* target is scanned again, serially.                                      *)
FallBack ==
    /\ phase = "pool" /\ PoolEnded /\ PoolFailed
    /\ pool' = <<>>
    /\ BeginSerial
    /\ UNCHANGED <<request, plan, outcomes, layer, exit, notice, deleted, failures>>

(* The results of the workers, which run without the layers. *)
Merge ==
    /\ phase = "pool" /\ PoolEnded /\ ~PoolFailed
    /\ outcomes' = Merged[Len(pool)]
    /\ pool' = <<>>
    /\ phase' = "typescript-pool"
    /\ UNCHANGED <<request, plan, todo, unsupported, excludedCount, layer, exit, notice,
                   deleted, failures>>

-----------------------------------------------------------------------------
(* Mutant of ScanNext: a file that has gone is waited for. *)
ScanNextWaits ==
    /\ phase = "serial" /\ todo # <<>>
    /\ Head(todo) \notin deleted
    /\ outcomes' = Append(outcomes, OutcomeOf(Head(todo)))
    /\ todo' = Tail(todo)
    /\ UNCHANGED <<request, phase, plan, pool, unsupported, excludedCount, layer, exit, notice,
                   deleted, failures>>

(* The serial loop scans a file, or records why it cannot. *)
ScanNext ==
    /\ phase = "serial" /\ todo # <<>>
    /\ outcomes' = Append(outcomes, OutcomeOf(Head(todo)))
    /\ todo' = Tail(todo)
    /\ UNCHANGED <<request, phase, plan, pool, unsupported, excludedCount, layer, exit, notice,
                   deleted, failures>>

(* An error outside the analysis of the file (a corrupt cache entry, say)  *)
(* ends the command: a traceback and no report.                            *)
Raise ==
    /\ phase = "serial" /\ todo # <<>>
    /\ failures < MaxFailures
    /\ failures' = failures + 1
    /\ Exit(1)
    /\ UNCHANGED <<request, plan, todo, pool, answer, notice, deleted>>

FinishPython ==
    /\ phase = "serial" /\ todo = <<>>
    /\ phase' = "typescript"
    /\ UNCHANGED <<request, plan, todo, pool, answer, exit, notice, deleted, failures>>

(* The outcomes of the files of one pass, appended. *)
Examine(S) ==
    \E l \in Listings(S) :
        outcomes' = outcomes \o [i \in DOMAIN l |-> OutcomeOf(l[i])]

(* After the Python files, TypeScript; a parallel scan collects what it    *)
(* cannot examine only now, and returns.                                   *)
ScanTypeScript ==
    /\ phase \in {"typescript", "typescript-pool"}
    /\ Examine(TypeScriptFiles)
    /\ IF phase = "typescript"
       THEN phase' = "go" /\ UNCHANGED unsupported
       ELSE phase' = "report" /\ unsupported' = UnsupportedFiles
    /\ UNCHANGED <<request, plan, todo, pool, excludedCount, layer, exit, notice,
                   deleted, failures>>

ScanGo ==
    /\ phase = "go"
    /\ Examine(GoFiles)
    /\ phase' = "repository"
    /\ UNCHANGED <<request, plan, todo, pool, unsupported, excludedCount, layer, exit, notice,
                   deleted, failures>>

(* Files the passes came to. *)
Scanned == {outcomes[i].file : i \in DOMAIN outcomes}

(* Where the chains within S end. *)
SinksWithin(S) == {c.sink : c \in {d \in Chains : d.files \subseteq S}}

(* Mutant of Augment: the error of an earlier layer is forgotten. *)
AugmentForgetsError(S) ==
    LET found == SinksWithin(S \ (Broken \cup deleted))
    IN  /\ layered' = TRUE
        /\ \/ /\ reached' = reached \cup found
              /\ layerFailed' = FALSE
              /\ UNCHANGED failures
           \/ /\ failures < MaxFailures /\ failures' = failures + 1
              /\ \E part \in SUBSET found : reached' = reached \cup part
              /\ layerFailed' = TRUE

(* A layer reads the files of S again and adds a finding for the sink of   *)
(* every chain it can follow; or breaks off, and an analysis error says so. *)
Augment(S) ==
    LET found == SinksWithin(S \ (Broken \cup deleted))
    IN  /\ layered' = TRUE
        /\ \/ /\ reached' = reached \cup found
              /\ UNCHANGED <<layerFailed, failures>>
           \/ /\ failures < MaxFailures /\ failures' = failures + 1
              /\ \E part \in SUBSET found : reached' = reached \cup part
              /\ layerFailed' = TRUE

(* A layer needs a directory and files of its languages. *)
LayerOver(S) ==
    IF LayersOn /\ request.kind # "file" /\ S # {} THEN Augment(S)
    ELSE UNCHANGED <<layer, failures>>

AnalyseRepository ==
    /\ phase = "repository"
    /\ LayerOver(Of(Scanned, {"python"}))
    /\ phase' = "cross-language"
    /\ UNCHANGED <<request, plan, todo, pool, outcomes, unsupported, excludedCount, exit,
                   notice, deleted>>

AnalyseCrossLanguage ==
    /\ phase = "cross-language"
    /\ LayerOver(Of(Scanned, {"ts", "mts", "go"}))
    /\ phase' = "report"
    /\ UNCHANGED <<request, plan, todo, pool, outcomes, unsupported, excludedCount, exit,
                   notice, deleted>>

Examined == {outcomes[i].file : i \in {j \in DOMAIN outcomes : ~outcomes[j].error}}

(* Files with findings in the ScanResult. *)
Reported == {f \in Examined : Finds(f, Boundary)} \cup reached

ExitCode ==
    IF request.failOnUnsupported /\ unsupported # {} THEN 1
    ELSE IF Reported # {} THEN 1 ELSE 0

Report ==
    /\ phase = "report"
    /\ Exit(ExitCode)
    /\ UNCHANGED <<request, plan, todo, pool, answer, notice, deleted, failures>>

Delete(f) ==
    /\ phase # "exited"
    /\ f \notin deleted /\ Cardinality(deleted) < MaxDeletes
    /\ deleted' = deleted \cup {f}
    /\ UNCHANGED <<request, phase, plan, todo, pool, answer, exit, notice, failures>>

Plan == RefuseMissing \/ RefuseNoDiff \/ PlanTree \/ PlanPaths \/ NothingChanged \/ PlanChanged

ShardStep(i) == StartShard(i) \/ ScanInShard(i) \/ FinishShard(i)

Parent ==
    \/ Plan \/ StartSerial \/ StartPool \/ FallBack \/ Merge
    \/ ScanNext \/ FinishPython \/ ScanTypeScript \/ ScanGo
    \/ AnalyseRepository \/ AnalyseCrossLanguage \/ Report

Next ==
    \/ Parent \/ Raise
    \/ \E i \in DOMAIN pool : ShardStep(i) \/ FailShard(i)
    \/ \E f \in Files : Delete(f)

(* The parent keeps running, and so does every worker until it fails. *)
Spec ==
    /\ Init /\ [][Next]_vars
    /\ WF_vars(Parent)
    /\ WF_vars(\E i \in DOMAIN pool : ShardStep(i))

-----------------------------------------------------------------------------
(* Types of every variable; shards exist only while the pool runs. *)
TypeOK ==
    /\ request \in Requests
    /\ phase \in {"plan", "start", "pool", "serial", "typescript",
                  "typescript-pool", "go", "repository", "cross-language",
                  "report", "exited"}
    /\ jobs \in Nat \ {0}
    /\ explicit \subseteq Files /\ listed \in BOOLEAN
    /\ todo \in Seq(Files)
    /\ pool \in Seq(Shard)
    /\ outcomes \in Seq(Outcome)
    /\ unsupported \subseteq Files
    /\ excludedCount \in Nat
    /\ reached \subseteq Files /\ layered \in BOOLEAN /\ layerFailed \in BOOLEAN
    /\ exit \in {-1, 0, 1, 2} /\ notice \in BOOLEAN
    /\ deleted \subseteq Files /\ failures \in 0 .. MaxFailures
    /\ phase # "pool" => pool = <<>>

(* The scan came to the end of its passes. *)
Completed == phase = "report"

Times(f) == Cardinality({i \in DOMAIN outcomes : outcomes[i].file = f})

(* "A scanner that silently examines less than it was asked to is worse    *)
(* than a slow one": however the files were dealt out to workers and       *)
(* whichever of these failed, each Python file to scan that has not been   *)
(* deleted has one outcome in the result, that of its own analysis.        *)
PythonScannedOnce ==
    Completed =>
        \A f \in PythonFiles :
            /\ Times(f) = 1
            /\ \E i \in DOMAIN outcomes :
                  outcomes[i] = [file |-> f, error |-> f \in Broken]

(* Files that were scanned and can still be read. *)
Readable == Present(PythonFiles \cup TypeScriptFiles \cup GoFiles) \ Broken

(* A sink that calls lead to through files of the scan is reported, or the *)
(* result says that it may not be: repository_analysis_enabled is false,   *)
(* or an analysis error names the layer that broke off.                    *)
ChainsFoundOrDisclosed ==
    Completed /\ layered /\ ~layerFailed => SinksWithin(Readable) \subseteq reached

(* What the serial scan of the same command scans and reports, had no file *)
(* changed.                                                                *)
SerialScanned == Collected(request.fixtures) \cup TypeScriptFiles \cup GoFiles

SerialReported ==
    LET files == SerialScanned \ Broken
    IN  {f \in files : Finds(f, request.boundary)}
            \cup (IF request.noRepository THEN {} ELSE SinksWithin(files))

(* "Findings are identical to a serial scan" (--jobs); "The parallel scan  *)
(* must return exactly what the serial scan returns": of a directory in    *)
(* which nothing changes or fails.  The code breaks this: the results of   *)
(* workers are not completed by the layers and by a Go pass, and           *)
(* scan_path_parallel is not given three of the options.                   *)
ParallelAsSerial ==
    Completed /\ request.kind = "tree" /\ deleted = {} /\ failures = 0 =>
        Scanned = SerialScanned /\ Reported = SerialReported

(* A file has at most one verdict: one outcome, or one entry among the     *)
(* unsupported files, whatever was retried, merged and collected twice.    *)
OneVerdictPerFile ==
    phase \in {"report", "exited"} =>
        \A f \in Files :
            Times(f) + (IF f \in unsupported THEN 1 ELSE 0) <= 1

(* --changed-only reports nothing about a file that has not changed or     *)
(* that the user excluded, and a tree scan nothing the user excluded       *)
(* ("a full scan and N findings they didn't expect"); nor do the layers,   *)
(* wherever calls lead.                                                    *)
OnlyWhatWasAsked ==
    \A f \in Scanned \cup reached :
        /\ f \in request.files
        /\ f \in UserExcluded => request.kind \in {"file", "paths"}
        /\ request.kind = "changed" => f \in ChangedFiles

(* Exit code 0 without a notice is a scan that examined every Python file  *)
(* there was to scan and found nothing, or says for which it could not; if *)
(* the layers ran and none says that it broke off, no chain is left        *)
(* either.  A failed worker, git failure or traceback never makes a        *)
(* finding clean.                                                          *)
CleanExitIsEarned ==
    phase = "exited" /\ exit = 0 /\ ~notice =>
        /\ \A f \in PythonFiles :
              Finds(f, Boundary) =>
                  \E i \in DOMAIN outcomes : outcomes[i] = [file |-> f, error |-> TRUE]
        /\ layered /\ ~layerFailed => SinksWithin(Readable) = {}

(* Every command comes to an exit code. *)
Terminates == <>(phase = "exited")

(* The files that a scan passes over without a word, for reasons the       *)
(* README names: Go files, if the results are those of workers; .mts and   *)
(* .cts among files listed by name or by a diff, with the extra installed; *)
(* and in a diff, what git quotes and what has no scannable suffix.        *)
PassedOver ==
    IF request.kind = "tree" THEN IF CalledParallel /\ ~layered THEN Of(Files, {"go"}) ELSE {}
    ELSE (IF listed /\ request.ts THEN Of(Files, {"mts"}) ELSE {})
            \cup (IF request.kind = "changed" THEN Files \ ChangedFiles ELSE {})

(* README: languages that are not supported "are reported as unsupported,  *)
(* never silently treated as clean"; engine.py: "A scanner that silently   *)
(* examines less than it was asked to is worse than a slow one."  Whatever *)
(* extras are installed and whichever workers fail, each file that no      *)
(* pattern excludes is scanned, or is among the unsupported files, or is   *)
(* one of those in PassedOver.                                             *)
SkippedIsDisclosed ==
    Completed =>
        \A f \in request.files \ (deleted \cup UserExcluded \cup DefaultPatterns(FALSE)
                                   \cup PassedOver) :
            f \in Scanned \cup unsupported
=============================================================================
