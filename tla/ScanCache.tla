------------------------------ MODULE ScanCache ------------------------------
(***************************************************************************)
(* The content-hash cache (actenon_scan/cache.py) as the per-file loop of  *)
(* scan_path (actenon_scan/engine.py) uses it: scanners that share one     *)
(* cache directory, one after another or at the same time (concurrent      *)
(* runs, worker processes of one parallel run), while files are edited,    *)
(* scanners are killed and entries on disk are damaged.                    *)
(*                                                                         *)
(* A result is kept per file.  A rule set stands for everything the key    *)
(* holds besides the content: scanner version, rules, guards, reachability *)
(* configuration.  The scanned path and the package under scan also decide *)
(* a result, and are not in the key.                                       *)
(***************************************************************************)
EXTENDS Integers, Sequences

CONSTANTS
    Scanners,      \* processes that run scan_path
    Paths,         \* files below the scan target
    Contents,      \* file contents
    Rulesets,      \* scanner version and configuration
    Packages,      \* values of self_package
    Lines, Snippets,
    Analysis,      \* what analysing a content finds: see Outcome
    Comments,      \* lines a suppression comment of a content covers
    Calls,         \* the ways scan_path is called: see Call
    Disks,         \* initial contents of the files
    MaxEdits, MaxKills, MaxDamage,  \* bounds on the environment, each
    MaxDisturbances                 \* and together

Unreadable == "unreadable"    \* deleted, or not valid UTF-8

Site == [line : Lines, snippet : Snippets, guarded : BOOLEAN,
         declarative : BOOLEAN]

(* cached: the loop comes to cache.store (a file without sinks does not).  *)
Outcome == [sites : SUBSET Site, error : BOOLEAN, cached : BOOLEAN]

(* files in order; comments: whether the caller collects suppressions. *)
Call == [files : Seq(Paths), rules : Rulesets, package : Packages,
         baseline : SUBSET (Paths \X Snippets), comments : BOOLEAN]

ASSUME CacheAssumption ==
    /\ Unreadable \notin Contents
    /\ Paths # {} /\ Contents # {} /\ Rulesets # {} /\ Packages # {}
    /\ Analysis \in [Contents \X Rulesets \X Packages -> Outcome]
    /\ Comments \in [Contents -> SUBSET Lines]
    /\ Calls \subseteq Call
    /\ Disks \subseteq [Paths -> Contents \cup {Unreadable}]
    /\ MaxEdits \in Nat /\ MaxKills \in Nat /\ MaxDamage \in Nat
    /\ MaxDisturbances \in Nat

Key == Contents \X Rulesets

Reason == {"", "declarative", "inline", "baseline"}

Finding == [site : Site, file : Paths, suppressed : BOOLEAN, reason : Reason]

(* A capability is recorded for every sink, guarded or not. *)
Result == [findings : SUBSET Finding, capabilities : SUBSET Site, error : BOOLEAN]

Entry == [kind : {"entry"}, key : Key, result : Result]

(* What a key's file may hold besides an entry: nothing, something that    *)
(* from_json rejects, or bytes it does not expect (not UTF-8, or JSON that *)
(* is no object).                                                          *)
NoEntry == [kind : {"none", "rejected", "unexpected"}]

Nothing == [kind |-> "none"]

NewEntry(k, result) == [kind |-> "entry", key |-> k, result |-> result]

Args == [files : Seq(Paths), rules : Rulesets, package : Packages,
         suppressions : SUBSET (Paths \X Lines),
         baseline : SUBSET (Paths \X Snippets)]

VARIABLES
    disk,      \* path -> content
    entries,   \* key -> what the cache directory holds for it
    pc,        \* where each scanner is
    args,      \* what each scanner was called with
    left,      \* files it has still to scan
    path, source,  \* the file it is scanning, and what it read
    temp,      \* what its temporary file holds, if it has one
    report,    \* results of the files it has scanned
    edits, kills, damage   \* environment steps so far

environment == <<edits, kills, damage>>
vars == <<disk, entries, pc, args, left, path, source, temp, report, environment>>

KeyOf(p) == <<source[p], args[p].rules>>

-----------------------------------------------------------------------------
(* What the scan reports and suppresses. *)

Inline(a, f, site) == <<f, site.line>> \in a.suppressions

InBaseline(a, f, site) == <<f, site.snippet>> \in a.baseline

(* A finding of a fresh analysis: an inline comment overrides the reason   *)
(* of a declarative guard; the baseline leaves no reason.                  *)
FreshFinding(a, f, site) ==
    [site |-> site, file |-> f,
     suppressed |-> site.declarative \/ Inline(a, f, site) \/ InBaseline(a, f, site),
     reason |-> IF Inline(a, f, site) THEN "inline"
                ELSE IF site.declarative THEN "declarative" ELSE ""]

FreshResult(a, f, content) ==
    LET found == Analysis[content, a.rules, a.package]
    IN  [findings |-> {FreshFinding(a, f, s) : s \in {t \in found.sites : ~t.guarded}},
         capabilities |-> found.sites,
         error |-> found.error]

(* Mutant of Restored: every suppression is decided again, the declarative *)
(* guard's with the user's.                                                *)
RestoredResetsAll(a, f, cf) ==
    LET inline == Inline(a, f, cf.site)
        base   == InBaseline(a, f, cf.site)
    IN  [cf EXCEPT !.suppressed = inline \/ base,
                   !.reason = IF inline THEN "inline" ELSE IF base THEN "baseline" ELSE ""]

(* A finding restored from an entry for file f: a declarative guard's      *)
(* suppression is kept if the entry still gives it as the reason, the      *)
(* user's is decided again.                                                *)
Restored(a, f, cf) ==
    LET kept   == cf.suppressed /\ cf.reason = "declarative"
        inline == Inline(a, f, cf.site)
        base   == InBaseline(a, f, cf.site)
        reason == IF inline THEN "inline" ELSE IF kept THEN "declarative" ELSE ""
    IN  [cf EXCEPT !.suppressed = kept \/ inline \/ base,
                   !.reason = IF base /\ reason = "" THEN "baseline" ELSE reason]

Restore(a, f, result) ==
    [result EXCEPT !.findings = {Restored(a, f, cf) : cf \in result.findings}]

Report(p, f, content, result) ==
    report' = [report EXCEPT ![p] =
                 @ \cup {[path |-> f, content |-> content, result |-> result]}]

Add(p, result) == Report(p, path[p], source[p], result)

ReadError == [findings |-> {}, capabilities |-> {}, error |-> TRUE]

-----------------------------------------------------------------------------
NoArgs == [files |-> <<>>, rules |-> CHOOSE r \in Rulesets : TRUE,
           package |-> CHOOSE s \in Packages : TRUE,
           suppressions |-> {}, baseline |-> {}]

Init ==
    /\ disk \in Disks
    /\ entries = [k \in Key |-> Nothing]
    /\ pc = [p \in Scanners |-> "idle"]
    /\ args = [p \in Scanners |-> NoArgs]
    /\ left = [p \in Scanners |-> <<>>]
    /\ path = [p \in Scanners |-> CHOOSE f \in Paths : TRUE]
    /\ source = [p \in Scanners |-> CHOOSE c \in Contents : TRUE]
    /\ temp = [p \in Scanners |-> Nothing]
    /\ report = [p \in Scanners |-> {}]
    /\ edits = 0 /\ kills = 0 /\ damage = 0

(* The command line collects the suppression comments of the files before  *)
(* the scan reads them again; a caller of the API may pass none.           *)
Collected ==
    UNION {{<<f, l>> : l \in Comments[disk[f]]} : f \in {g \in Paths : disk[g] # Unreadable}}

Start(p) ==
    /\ pc[p] = "idle"
    /\ \E c \in Calls :
          /\ left' = [left EXCEPT ![p] = c.files]
          /\ args' = [args EXCEPT ![p] =
                 [files |-> c.files, rules |-> c.rules, package |-> c.package,
                  suppressions |-> IF c.comments THEN Collected ELSE {},
                  baseline |-> c.baseline]]
    /\ pc' = [pc EXCEPT ![p] = "next"]
    /\ UNCHANGED <<disk, entries, path, source, temp, report, environment>>

(* Mutant of Read: a file that cannot be read is tried again. *)
ReadRetries(p) ==
    /\ pc[p] = "next"
    /\ left[p] # <<>>
    /\ LET f == Head(left[p])
       IN  IF disk[f] = Unreadable
           THEN /\ Report(p, f, Unreadable, ReadError)
                /\ UNCHANGED <<left, pc, path, source>>
           ELSE /\ path' = [path EXCEPT ![p] = f]
                /\ source' = [source EXCEPT ![p] = disk[f]]
                /\ left' = [left EXCEPT ![p] = Tail(left[p])]
                /\ pc' = [pc EXCEPT ![p] = "lookup"]
                /\ UNCHANGED report
    /\ UNCHANGED <<disk, entries, args, temp, environment>>

(* The next file is read; what cannot be read is an analysis error.        *)
Read(p) ==
    /\ pc[p] = "next"
    /\ left[p] # <<>>
    /\ left' = [left EXCEPT ![p] = Tail(left[p])]
    /\ LET f == Head(left[p])
       IN  IF disk[f] = Unreadable
           THEN /\ Report(p, f, Unreadable, ReadError)
                /\ UNCHANGED <<pc, path, source>>
           ELSE /\ path' = [path EXCEPT ![p] = f]
                /\ source' = [source EXCEPT ![p] = disk[f]]
                /\ pc' = [pc EXCEPT ![p] = "lookup"]
                /\ UNCHANGED report
    /\ UNCHANGED <<disk, entries, args, temp, environment>>

(* Mutant of Usable: the key inside the entry is not compared. *)
UsableUnchecked(k) == entries[k].kind = "entry"

(* get: an entry that parses and names the key it was looked up under.     *)
Usable(k) == entries[k].kind = "entry" /\ entries[k].key = k

Hit(p) ==
    /\ pc[p] = "lookup"
    /\ Usable(KeyOf(p))
    /\ Add(p, Restore(args[p], path[p], entries[KeyOf(p)].result))
    /\ pc' = [pc EXCEPT ![p] = "next"]
    /\ UNCHANGED <<disk, entries, args, left, path, source, temp, environment>>

(* Bytes get and from_json do not expect raise out of scan_path. *)
LookupRaises(p) ==
    /\ pc[p] = "lookup"
    /\ entries[KeyOf(p)].kind = "unexpected"
    /\ pc' = [pc EXCEPT ![p] = "failed"]
    /\ UNCHANGED <<disk, entries, args, left, path, source, temp, report, environment>>

(* Mutant of AnalyseAndStore: the entry is written to its final place. *)
AnalyseInPlace(p) ==
    LET result == FreshResult(args[p], path[p], source[p])
        k      == KeyOf(p)
    IN  /\ pc[p] = "lookup"
        /\ ~Usable(k) /\ entries[k].kind # "unexpected"
        /\ Analysis[source[p], args[p].rules, args[p].package].cached
        /\ Add(p, result)
        /\ entries' = [entries EXCEPT ![k] = [kind |-> "rejected"]]
        /\ temp' = [temp EXCEPT ![p] = NewEntry(k, result)]
        /\ pc' = [pc EXCEPT ![p] = "replace"]
        /\ UNCHANGED <<disk, args, left, path, source, environment>>

(* A miss: the file is analysed, and its result written to a temporary     *)
(* file beside the entry.                                                  *)
AnalyseAndStore(p) ==
    LET result == FreshResult(args[p], path[p], source[p])
        k      == KeyOf(p)
    IN  /\ pc[p] = "lookup"
        /\ ~Usable(k) /\ entries[k].kind # "unexpected"
        /\ Analysis[source[p], args[p].rules, args[p].package].cached
        /\ Add(p, result)
        /\ temp' = [temp EXCEPT ![p] = NewEntry(k, result)]
        /\ pc' = [pc EXCEPT ![p] = "replace"]
        /\ UNCHANGED <<disk, entries, args, left, path, source, environment>>

(* A file without sinks goes on to the next file and stores nothing. *)
AnalyseUnstored(p) ==
    /\ pc[p] = "lookup"
    /\ ~Usable(KeyOf(p)) /\ entries[KeyOf(p)].kind # "unexpected"
    /\ ~Analysis[source[p], args[p].rules, args[p].package].cached
    /\ Add(p, FreshResult(args[p], path[p], source[p]))
    /\ pc' = [pc EXCEPT ![p] = "next"]
    /\ UNCHANGED <<disk, entries, args, left, path, source, temp, environment>>

(* os.replace *)
Replace(p) ==
    /\ pc[p] = "replace"
    /\ entries' = [entries EXCEPT ![temp[p].key] = temp[p]]
    /\ temp' = [temp EXCEPT ![p] = Nothing]
    /\ pc' = [pc EXCEPT ![p] = "next"]
    /\ UNCHANGED <<disk, args, left, path, source, report, environment>>

(* Mutant of WriteFails: the entry goes with the temporary file.           *)
WriteFailsUnlinksEntry(p) ==
    /\ pc[p] = "replace"
    /\ entries' = [entries EXCEPT ![temp[p].key] = Nothing]
    /\ temp' = [temp EXCEPT ![p] = Nothing]
    /\ pc' = [pc EXCEPT ![p] = "next"]
    /\ UNCHANGED <<disk, args, left, path, source, report, environment>>

(* The write or the replacement fails: the temporary file is removed, and  *)
(* the scan goes on without the entry.                                     *)
WriteFails(p) ==
    /\ pc[p] = "replace"
    /\ temp' = [temp EXCEPT ![p] = Nothing]
    /\ pc' = [pc EXCEPT ![p] = "next"]
    /\ UNCHANGED <<disk, entries, args, left, path, source, report, environment>>

Finish(p) ==
    /\ pc[p] = "next"
    /\ left[p] = <<>>
    /\ pc' = [pc EXCEPT ![p] = "done"]
    /\ UNCHANGED <<disk, entries, args, left, path, source, temp, report, environment>>

Step(p) ==
    \/ Read(p) \/ Hit(p) \/ LookupRaises(p) \/ AnalyseAndStore(p)
    \/ AnalyseUnstored(p) \/ Replace(p) \/ WriteFails(p) \/ Finish(p)

CanDisturb == edits + kills + damage < MaxDisturbances

(* The process dies; a temporary file it was writing stays. *)
Kill(p) ==
    /\ CanDisturb /\ kills < MaxKills
    /\ pc[p] \in {"next", "lookup", "replace"}
    /\ pc' = [pc EXCEPT ![p] = "killed"]
    /\ kills' = kills + 1
    /\ UNCHANGED <<disk, entries, args, left, path, source, temp, report, edits, damage>>

(* A file is edited, renamed over or deleted. *)
Edit(f) ==
    /\ CanDisturb /\ edits < MaxEdits
    /\ \E c \in (Contents \cup {Unreadable}) \ {disk[f]} :
          disk' = [disk EXCEPT ![f] = c]
    /\ edits' = edits + 1
    /\ UNCHANGED <<entries, pc, args, left, path, source, temp, report, kills, damage>>

(* Something else writes to the cache directory: an entry is lost, cut     *)
(* short, overwritten with other bytes or with another entry.              *)
Damage(k) ==
    /\ CanDisturb /\ damage < MaxDamage
    /\ entries[k] # Nothing
    /\ \E d \in (NoEntry \cup {entries[j] : j \in Key}) \ {entries[k]} :
          entries' = [entries EXCEPT ![k] = d]
    /\ damage' = damage + 1
    /\ UNCHANGED <<disk, pc, args, left, path, source, temp, report, edits, kills>>

Next ==
    \/ \E p \in Scanners : Start(p) \/ Step(p) \/ Kill(p)
    \/ \E f \in Paths : Edit(f)
    \/ \E k \in Key : Damage(k)

(* A scanner that runs keeps running; nobody has to start, edit, damage or *)
(* kill anything.                                                          *)
Spec == Init /\ [][Next]_vars /\ \A p \in Scanners : WF_vars(Step(p))

-----------------------------------------------------------------------------
Item == [path : Paths, content : Contents \cup {Unreadable}, result : Result]

(* Types of every variable; a scanner at "replace" has a temporary file.   *)
TypeOK ==
    /\ disk \in [Paths -> Contents \cup {Unreadable}]
    /\ entries \in [Key -> NoEntry \cup Entry]
    /\ pc \in [Scanners -> {"idle", "next", "lookup", "replace", "done",
                            "failed", "killed"}]
    /\ args \in [Scanners -> Args]
    /\ left \in [Scanners -> Seq(Paths)]
    /\ path \in [Scanners -> Paths]
    /\ source \in [Scanners -> Contents]
    /\ temp \in [Scanners -> {Nothing} \cup Entry]
    /\ report \in [Scanners -> SUBSET Item]
    /\ edits \in 0 .. MaxEdits /\ kills \in 0 .. MaxKills /\ damage \in 0 .. MaxDamage
    /\ \A p \in Scanners : pc[p] = "replace" => temp[p] # Nothing

(* result is what the analysis of a content finds under some package:      *)
(* every sink it has, and no other, with its error.                        *)
Describes(result, content, rules) ==
    \E s \in Packages :
        LET found == Analysis[content, rules, s]
        IN  /\ result.capabilities = found.sites
            /\ {cf.site : cf \in result.findings} = {t \in found.sites : ~t.guarded}
            /\ result.error = found.error

(* "The cache NEVER changes findings (RULE 5)": whatever was edited,       *)
(* reconfigured, killed or damaged before, a scan reports for each file    *)
(* the sinks, capabilities and error that analysing the content it read    *)
(* under its own rule set gives.  Weaker than the rule in the two inputs   *)
(* the key leaves out, the path and the package of the scan; which of the  *)
(* findings are hidden is the matter of SuppressionIsCurrent.              *)
ResultsAreFresh ==
    \A p \in Scanners : \A r \in report[p] :
        IF r.content = Unreadable THEN r.result.error
        ELSE Describes(r.result, r.content, args[p].rules)

(* A scan has reported a finding at this site of the content, under these  *)
(* rules, that an inline comment of its run covered.                       *)
CommentedBefore(content, rules, site) ==
    \E q \in Scanners : \E r \in report[q] :
        r.content = content /\ args[q].rules = rules /\ Inline(args[q], r.path, site)

ReasonHolds(a, f, cf) ==
    /\ cf.reason = "inline" => Inline(a, f, cf.site)
    /\ cf.reason = "baseline" => InBaseline(a, f, cf.site)
    /\ cf.reason = "declarative" => cf.site.declarative

(* "Only reset USER-SUPPLIED suppression (baseline, inline) because that   *)
(* can change between runs": whether or not the result came from the       *)
(* cache, a finding is hidden only for a reason that holds in this run and *)
(* the reason given does, every inline comment and baseline entry of this  *)
(* run hides what it names, and a declarative guard hides its findings     *)
(* unless a scan under the same rules has found an inline comment there    *)
(* before, whose reason then replaced the guard's in the entry (the        *)
(* exception is the bug DeclarativeIsKept shows).                          *)
SuppressionIsCurrent ==
    \A p \in Scanners : \A r \in report[p] : \A cf \in r.result.findings :
        LET user == Inline(args[p], r.path, cf.site) \/ InBaseline(args[p], r.path, cf.site)
        IN  /\ cf.suppressed => user \/ cf.site.declarative
            /\ user => cf.suppressed
            /\ ReasonHolds(args[p], r.path, cf)
            /\ cf.site.declarative =>
                   cf.suppressed \/ CommentedBefore(r.content, args[p].rules, cf.site)

(* "Declarative-guard suppression is PRESERVED across a cache hit (it      *)
(* follows from file content, which is what the cache key hashes)": a      *)
(* finding in a class that guards itself is hidden in every result.  The   *)
(* code breaks this: an analysis stores the inline comment as the one      *)
(* reason, and a hit without that comment clears the finding.              *)
DeclarativeIsKept ==
    \A p \in Scanners : \A r \in report[p] : \A cf \in r.result.findings :
        cf.site.declarative => cf.suppressed

(* "partial writes: atomic writes via temp file + rename; concurrent runs: *)
(* atomic writes prevent corruption": unless something else wrote to the   *)
(* directory, every file in it is a whole entry under its own name, with   *)
(* writers interleaved and killed at any point, and no scan fails.         *)
TornOnlyByDamage ==
    damage = 0 =>
        /\ \A k \in Key : entries[k] = Nothing \/ Usable(k)
        /\ \A p \in Scanners : pc[p] # "failed"

(* Whatever the scanners do, including failed writes, an entry that could  *)
(* be used stays usable: only damage to the directory takes it away.       *)
EntriesSurvive ==
    [][\A k \in Key : Usable(k) /\ damage' = damage => Usable(k)']_vars

(* A scan that starts comes to an end: unreadable files, damaged entries   *)
(* and failing writes do not hold it up.                                   *)
ScansEnd ==
    \A p \in Scanners :
        pc[p] = "next" ~> pc[p] \in {"done", "failed", "killed"}

=============================================================================
