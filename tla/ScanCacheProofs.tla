--------------------------- MODULE ScanCacheProofs ---------------------------
(***************************************************************************)
(* Proofs about ScanCache for any number of scanners, files, contents and  *)
(* rule sets, any analysis and any amount of editing, killing and damage:  *)
(* what a scan reports is always what analysing the content it read gives, *)
(* and hides only what this run has a reason to hide.                      *)
(*                                                                         *)
(* The inductive invariant says of every entry in the directory, and of    *)
(* every temporary file, that it describes the content its key names, and  *)
(* that a finding whose declarative guard it does not give as the reason   *)
(* was reported under an inline comment.                                   *)
(***************************************************************************)
EXTENDS ScanCache, TLAPS

USE DEF Unreadable

(* A reason "declarative" in a stored finding is true of the content. *)
HonestReasons(result) ==
    \A cf \in result.findings : cf.reason = "declarative" => cf.site.declarative

TruthfulEntry(e) ==
    e.kind = "entry" => /\ Describes(e.result, e.key[1], e.key[2])
                        /\ HonestReasons(e.result)

(* What one file's result must satisfy for the run with arguments a. *)
FreshItem(a, r) ==
    IF r.content = Unreadable THEN r.result.error
    ELSE Describes(r.result, r.content, a.rules)

CurrentItem(a, r) ==
    \A cf \in r.result.findings :
        LET user == Inline(a, r.path, cf.site) \/ InBaseline(a, r.path, cf.site)
        IN  /\ cf.suppressed => user \/ cf.site.declarative
            /\ user => cf.suppressed
            /\ ReasonHolds(a, r.path, cf)

(* CommentedBefore of the reports and arguments of any state. *)
Commented(reports, calls, c, r, site) ==
    \E q \in Scanners : \E item \in reports[q] :
        item.content = c /\ calls[q].rules = r /\ Inline(calls[q], item.path, site)

(* An entry gives the declarative guard as the reason, or the finding was  *)
(* reported under an inline comment.                                       *)
KeptEntry(reports, calls, e) ==
    e.kind = "entry" =>
        \A cf \in e.result.findings :
            cf.site.declarative =>
                \/ cf.suppressed /\ cf.reason = "declarative"
                \/ Commented(reports, calls, e.key[1], e.key[2], cf.site)

KeptItem(reports, calls, a, r) ==
    \A cf \in r.result.findings :
        cf.site.declarative =>
            cf.suppressed \/ Commented(reports, calls, r.content, a.rules, cf.site)

KeptInv ==
    /\ \A k \in Key : KeptEntry(report, args, entries[k])
    /\ \A p \in Scanners : KeptEntry(report, args, temp[p])
    /\ \A p \in Scanners : \A r \in report[p] : KeptItem(report, args, args[p], r)

CacheInv ==
    /\ \A k \in Key : TruthfulEntry(entries[k])
    /\ \A p \in Scanners : TruthfulEntry(temp[p])
    /\ \A p \in Scanners : \A r \in report[p] :
          FreshItem(args[p], r) /\ CurrentItem(args[p], r)
    /\ \A p \in Scanners : pc[p] = "idle" => report[p] = {}

-----------------------------------------------------------------------------
(* What analysis and restoration return. *)
LEMMA OutcomeType ==
    ASSUME NEW c \in Contents, NEW r \in Rulesets, NEW s \in Packages
    PROVE  Analysis[c, r, s] \in Outcome
  <1>1. <<c, r, s>> \in Contents \X Rulesets \X Packages
    OBVIOUS
  <1> QED BY <1>1, CacheAssumption

LEMMA FreshFindingType ==
    ASSUME NEW a \in Args, NEW f \in Paths, NEW s \in Site
    PROVE  /\ FreshFinding(a, f, s) \in Finding
           /\ FreshFinding(a, f, s).site = s
           /\ FreshFinding(a, f, s).reason = "declarative" => s.declarative
           /\ FreshFinding(a, f, s).suppressed <=>
                (s.declarative \/ Inline(a, f, s) \/ InBaseline(a, f, s))
           /\ ReasonHolds(a, f, FreshFinding(a, f, s))
  <1>1. (s.declarative \/ Inline(a, f, s) \/ InBaseline(a, f, s)) \in BOOLEAN
    BY DEF Site, Inline, InBaseline
  <1>2. (IF Inline(a, f, s) THEN "inline"
         ELSE IF s.declarative THEN "declarative" ELSE "") \in Reason
    BY DEF Reason
  <1> QED BY <1>1, <1>2 DEF FreshFinding, Finding, Site, Inline, InBaseline, ReasonHolds

LEMMA FreshResultType ==
    ASSUME NEW a \in Args, NEW f \in Paths, NEW c \in Contents
    PROVE  /\ FreshResult(a, f, c) \in Result
           /\ Describes(FreshResult(a, f, c), c, a.rules)
           /\ HonestReasons(FreshResult(a, f, c))
           /\ CurrentItem(a, [path |-> f, content |-> c, result |-> FreshResult(a, f, c)])
  <1> DEFINE found == Analysis[c, a.rules, a.package]
             open  == {t \in found.sites : ~t.guarded}
             fresh == {FreshFinding(a, f, s) : s \in open}
  <1>1. found \in Outcome /\ a.package \in Packages
    BY OutcomeType DEF Args
  <1>2. found.sites \subseteq Site /\ found.error \in BOOLEAN
    BY <1>1 DEF Outcome
  <1>3. FreshResult(a, f, c) = [findings |-> fresh, capabilities |-> found.sites,
                                error |-> found.error]
    BY DEF FreshResult
  <1> HIDE DEF found
  <1>4. \A s \in open : s \in Site
    BY <1>2
  <1>5. fresh \subseteq Finding /\ {cf.site : cf \in fresh} = open
    BY <1>4, FreshFindingType
  <1>6. \A cf \in fresh : cf.reason = "declarative" => cf.site.declarative
    BY <1>4, FreshFindingType
  <1>7. \A cf \in fresh :
            /\ cf.suppressed <=>
                  (cf.site.declarative \/ Inline(a, f, cf.site) \/ InBaseline(a, f, cf.site))
            /\ ReasonHolds(a, f, cf)
    BY <1>4, FreshFindingType
  <1> HIDE DEF fresh
  <1>8. FreshResult(a, f, c) \in Result
    BY <1>2, <1>3, <1>5 DEF Result
  <1>9. Describes(FreshResult(a, f, c), c, a.rules)
    <2> DEFINE result == FreshResult(a, f, c)
    <2>1. result.findings = fresh /\ result.capabilities = found.sites
             /\ result.error = found.error
      BY <1>3
    <2> HIDE DEF result
    <2>2. {cf.site : cf \in result.findings} = open
      BY <2>1, <1>5
    <2>3. Describes(result, c, a.rules)
      BY <1>1, <2>1, <2>2 DEF Describes, found
    <2> QED BY <2>3 DEF result
  <1>10. HonestReasons(FreshResult(a, f, c))
    BY <1>3, <1>6 DEF HonestReasons
  <1>11. CurrentItem(a, [path |-> f, content |-> c, result |-> FreshResult(a, f, c)])
    BY <1>3, <1>7 DEF CurrentItem
  <1> QED BY <1>8, <1>9, <1>10, <1>11

LEMMA RestoredType ==
    ASSUME NEW a \in Args, NEW f \in Paths, NEW cf \in Finding,
           cf.reason = "declarative" => cf.site.declarative
    PROVE  /\ Restored(a, f, cf) \in Finding
           /\ Restored(a, f, cf).site = cf.site
           /\ LET user == Inline(a, f, cf.site) \/ InBaseline(a, f, cf.site)
              IN  /\ Restored(a, f, cf).suppressed => user \/ cf.site.declarative
                  /\ user => Restored(a, f, cf).suppressed
                  /\ ReasonHolds(a, f, Restored(a, f, cf))
  <1> DEFINE kept   == cf.suppressed /\ cf.reason = "declarative"
             inline == Inline(a, f, cf.site)
             base   == InBaseline(a, f, cf.site)
             early  == IF inline THEN "inline" ELSE IF kept THEN "declarative" ELSE ""
             reason == IF base /\ early = "" THEN "baseline" ELSE early
             hidden == kept \/ inline \/ base
  <1>1. Restored(a, f, cf) = [cf EXCEPT !.suppressed = hidden, !.reason = reason]
    BY DEF Restored
  <1>2. reason \in Reason
    BY DEF Reason
  <1>3. hidden \in BOOLEAN
    BY DEF Finding, Inline, InBaseline
  <1>4. hidden => inline \/ base \/ cf.site.declarative
    OBVIOUS
  <1>5. inline \/ base => hidden
    OBVIOUS
  <1>6. /\ reason = "inline" => inline
        /\ reason = "baseline" => base
        /\ reason = "declarative" => cf.site.declarative
    OBVIOUS
  <1>7. cf = [site |-> cf.site, file |-> cf.file, suppressed |-> cf.suppressed,
              reason |-> cf.reason]
    BY DEF Finding
  <1> HIDE DEF hidden, reason
  <1>8. Restored(a, f, cf) = [site |-> cf.site, file |-> cf.file,
                              suppressed |-> hidden, reason |-> reason]
    BY <1>1, <1>7 DEF Finding
  <1> QED BY <1>2, <1>3, <1>4, <1>5, <1>6, <1>8 DEF Finding, ReasonHolds

LEMMA RestoreType ==
    ASSUME NEW a \in Args, NEW f \in Paths, NEW c \in Contents, NEW result \in Result,
           Describes(result, c, a.rules), HonestReasons(result)
    PROVE  /\ Restore(a, f, result) \in Result
           /\ Describes(Restore(a, f, result), c, a.rules)
           /\ CurrentItem(a, [path |-> f, content |-> c, result |-> Restore(a, f, result)])
  <1> DEFINE again == {Restored(a, f, cf) : cf \in result.findings}
  <1>1. result.findings \subseteq Finding
    BY DEF Result
  <1>2. Restore(a, f, result) = [findings |-> again, capabilities |-> result.capabilities,
                                 error |-> result.error]
    BY DEF Restore, Result
  <1>3. again \subseteq Finding
    BY <1>1, RestoredType DEF HonestReasons
  <1>4. {cf.site : cf \in again} = {cf.site : cf \in result.findings}
    BY <1>1, RestoredType DEF HonestReasons
  <1>5. \A cf \in again :
            LET user == Inline(a, f, cf.site) \/ InBaseline(a, f, cf.site)
            IN  /\ cf.suppressed => user \/ cf.site.declarative
                /\ user => cf.suppressed
                /\ ReasonHolds(a, f, cf)
    BY <1>1, RestoredType DEF HonestReasons
  <1> HIDE DEF again
  <1>6. Restore(a, f, result) \in Result
    BY <1>2, <1>3 DEF Result
  <1>7. Describes(Restore(a, f, result), c, a.rules)
    <2> DEFINE restored == Restore(a, f, result)
    <2>1. restored.findings = again /\ restored.capabilities = result.capabilities
             /\ restored.error = result.error
      BY <1>2
    <2> HIDE DEF restored
    <2>2. {cf.site : cf \in restored.findings} = {cf.site : cf \in result.findings}
      BY <2>1, <1>4
    <2>3. Describes(restored, c, a.rules)
      BY <2>1, <2>2 DEF Describes
    <2> QED BY <2>3 DEF restored
  <1>8. CurrentItem(a, [path |-> f, content |-> c, result |-> Restore(a, f, result)])
    BY <1>2, <1>5 DEF CurrentItem
  <1> QED BY <1>6, <1>7, <1>8

-----------------------------------------------------------------------------
LEMMA CollectedType ==
    ASSUME TypeOK
    PROVE  Collected \in SUBSET (Paths \X Lines)
  <1>1. ASSUME NEW f \in Paths, disk[f] # Unreadable
        PROVE  Comments[disk[f]] \subseteq Lines
    BY <1>1, CacheAssumption DEF TypeOK
  <1> QED BY <1>1 DEF Collected

LEMMA FirstFile ==
    ASSUME NEW s \in Seq(Paths), s # <<>>
    PROVE  Head(s) \in Paths /\ Tail(s) \in Seq(Paths)
  OBVIOUS

LEMMA InitType == Init => TypeOK
  <1> SUFFICES ASSUME Init PROVE TypeOK
    OBVIOUS
  <1>1. NoArgs \in Args
    BY CacheAssumption DEF NoArgs, Args
  <1>2. (CHOOSE f \in Paths : TRUE) \in Paths /\ (CHOOSE c \in Contents : TRUE) \in Contents
    BY CacheAssumption
  <1>3. Nothing \in NoEntry
    BY DEF Nothing, NoEntry
  <1>4. edits \in 0 .. MaxEdits /\ kills \in 0 .. MaxKills /\ damage \in 0 .. MaxDamage
    BY CacheAssumption DEF Init
  <1>5. disk \in [Paths -> Contents \cup {Unreadable}]
    BY CacheAssumption DEF Init
  <1> QED BY <1>1, <1>2, <1>3, <1>4, <1>5 DEF Init, TypeOK

(* What is appended to a report is an item. *)
LEMMA ReportType ==
    ASSUME TypeOK, NEW p \in Scanners, NEW f \in Paths,
           NEW c \in Contents \cup {Unreadable}, NEW result \in Result,
           Report(p, f, c, result)
    PROVE  report' \in [Scanners -> SUBSET Item]
  BY DEF TypeOK, Report, Item

LEMMA ScannerType ==
    ASSUME TypeOK, NEW p \in Scanners
    PROVE  /\ args[p] \in Args /\ path[p] \in Paths /\ source[p] \in Contents
           /\ KeyOf(p) \in Key
           /\ pc[p] = "replace" => temp[p] \in Entry
           /\ Usable(KeyOf(p)) => /\ entries[KeyOf(p)] \in Entry
                                  /\ entries[KeyOf(p)].result \in Result
  <1>1. args[p] \in Args /\ path[p] \in Paths /\ source[p] \in Contents
    BY DEF TypeOK
  <1>2. KeyOf(p) \in Key
    BY <1>1 DEF KeyOf, Key, Args
  <1>3. pc[p] = "replace" => temp[p] \in Entry
    BY DEF TypeOK
  <1>4. \A e \in NoEntry \cup Entry : e.kind = "entry" => e \in Entry /\ e.result \in Result
    BY DEF NoEntry, Entry
  <1> QED BY <1>1, <1>2, <1>3, <1>4 DEF TypeOK, Usable

LEMMA NewEntryType ==
    ASSUME NEW k \in Key, NEW result \in Result
    PROVE  /\ NewEntry(k, result) \in Entry
           /\ NewEntry(k, result) # Nothing
           /\ NewEntry(k, result).key = k
           /\ NewEntry(k, result).result = result
  <1>1. NewEntry(k, result) = [kind |-> "entry", key |-> k, result |-> result]
    BY DEF NewEntry
  <1>2. NewEntry(k, result).kind = "entry" /\ Nothing.kind = "none"
    BY <1>1 DEF Nothing
  <1> QED BY <1>1, <1>2 DEF Entry

LEMMA StepType ==
    ASSUME TypeOK, NEW p \in Scanners, Start(p) \/ Step(p)
    PROVE  TypeOK'
  <1>1. CASE Start(p)
    <2> PICK c \in Calls : args' = [args EXCEPT ![p] =
               [files |-> c.files, rules |-> c.rules, package |-> c.package,
                suppressions |-> IF c.comments THEN Collected ELSE {},
                baseline |-> c.baseline]]
            /\ left' = [left EXCEPT ![p] = c.files]
      BY <1>1 DEF Start
    <2>1. c \in Call
      BY CacheAssumption
    <2>2. (IF c.comments THEN Collected ELSE {}) \in SUBSET (Paths \X Lines)
      BY CollectedType
    <2>3. [files |-> c.files, rules |-> c.rules, package |-> c.package,
           suppressions |-> IF c.comments THEN Collected ELSE {},
           baseline |-> c.baseline] \in Args
      BY <2>1, <2>2 DEF Call, Args
    <2>4. args' \in [Scanners -> Args] /\ left' \in [Scanners -> Seq(Paths)]
      BY <2>1, <2>3 DEF TypeOK, Call
    <2> QED BY <1>1, <2>4 DEF Start, TypeOK, environment
  <1>2. CASE Read(p)
    <2>1. left[p] \in Seq(Paths) /\ left[p] # <<>>
      BY <1>2 DEF Read, TypeOK
    <2>2. Head(left[p]) \in Paths /\ Tail(left[p]) \in Seq(Paths)
      BY <2>1, FirstFile
    <2>3. left' \in [Scanners -> Seq(Paths)]
      BY <1>2, <2>2 DEF Read, TypeOK
    <2>4. ReadError \in Result
      BY DEF ReadError, Result
    <2>5. CASE disk[Head(left[p])] = Unreadable
      <3>1. Report(p, Head(left[p]), Unreadable, ReadError)
        BY <1>2, <2>5 DEF Read
      <3>2. report' \in [Scanners -> SUBSET Item]
        BY <2>2, <2>4, <3>1, ReportType
      <3> QED BY <1>2, <2>3, <2>5, <3>2 DEF Read, TypeOK, environment
    <2>6. CASE disk[Head(left[p])] # Unreadable
      <3>1. disk[Head(left[p])] \in Contents
        BY <2>2, <2>6 DEF TypeOK
      <3>2. path' \in [Scanners -> Paths] /\ source' \in [Scanners -> Contents]
        BY <1>2, <2>2, <2>6, <3>1 DEF Read, TypeOK
      <3> QED BY <1>2, <2>3, <2>6, <3>2 DEF Read, TypeOK, environment
    <2> QED BY <2>5, <2>6
  <1>3. CASE Hit(p)
    <2> DEFINE e == entries[KeyOf(p)]
    <2>1. e.result.findings \subseteq Finding /\ e.result \in Result
      BY <1>3, ScannerType DEF Hit, Result
    <2>2. \A cf \in Finding : Restored(args[p], path[p], cf) \in Finding
      <3> TAKE cf \in Finding
      <3> DEFINE suppressed == Restored(args[p], path[p], cf).suppressed
                 reason == Restored(args[p], path[p], cf).reason
      <3>1. suppressed \in BOOLEAN /\ reason \in Reason
        BY DEF Restored, Finding, Reason, Inline, InBaseline
      <3>2. Restored(args[p], path[p], cf) = [cf EXCEPT !.suppressed = suppressed,
                                                       !.reason = reason]
        BY DEF Restored, Finding
      <3> HIDE DEF suppressed, reason
      <3> QED BY <3>1, <3>2 DEF Finding
    <2>3. {Restored(args[p], path[p], cf) : cf \in e.result.findings} \subseteq Finding
      BY <2>1, <2>2
    <2>4. Restore(args[p], path[p], e.result) \in Result
      BY <2>1, <2>3 DEF Restore, Result
    <2>5. report' \in [Scanners -> SUBSET Item]
      BY <1>3, <2>4, ReportType, ScannerType DEF Hit, Add
    <2> QED BY <1>3, <2>5 DEF Hit, TypeOK, environment
  <1>4. CASE LookupRaises(p)
    BY <1>4 DEF LookupRaises, TypeOK, environment
  <1>5. CASE AnalyseAndStore(p)
    <2> DEFINE result == FreshResult(args[p], path[p], source[p])
    <2>1. result \in Result
      BY ScannerType, FreshResultType
    <2>2. Add(p, result) /\ temp' = [temp EXCEPT ![p] = NewEntry(KeyOf(p), result)]
      BY <1>5 DEF AnalyseAndStore
    <2> HIDE DEF result
    <2>3. report' \in [Scanners -> SUBSET Item]
      BY <2>1, <2>2, ReportType, ScannerType DEF Add
    <2>4. NewEntry(KeyOf(p), result) \in Entry /\ NewEntry(KeyOf(p), result) # Nothing
      BY <2>1, NewEntryType, ScannerType
    <2> QED BY <1>5, <2>2, <2>3, <2>4 DEF AnalyseAndStore, TypeOK, environment
  <1>6. CASE AnalyseUnstored(p)
    <2>1. report' \in [Scanners -> SUBSET Item]
      BY <1>6, ReportType, ScannerType, FreshResultType DEF AnalyseUnstored, Add
    <2> QED BY <1>6, <2>1 DEF AnalyseUnstored, TypeOK, environment
  <1>7. CASE Replace(p)
    <2>1. temp[p] \in Entry /\ temp[p].key \in Key
      BY <1>7, ScannerType DEF Replace, Entry
    <2>2. entries' \in [Key -> NoEntry \cup Entry]
      BY <1>7, <2>1 DEF Replace, TypeOK
    <2> QED BY <1>7, <2>2 DEF Replace, TypeOK, environment
  <1>8. CASE WriteFails(p)
    BY <1>8 DEF WriteFails, TypeOK, environment
  <1>9. CASE Finish(p)
    BY <1>9 DEF Finish, TypeOK, environment
  <1> QED BY <1>1, <1>2, <1>3, <1>4, <1>5, <1>6, <1>7, <1>8, <1>9 DEF Step

(* Files, cache directory and processes may change at any moment. *)
LEMMA DisturbType ==
    ASSUME TypeOK,
           \/ \E p \in Scanners : Kill(p)
           \/ \E f \in Paths : Edit(f)
           \/ \E k \in Key : Damage(k)
    PROVE  TypeOK'
  <1>1. ASSUME NEW p \in Scanners, Kill(p) PROVE TypeOK'
    BY <1>1, CacheAssumption DEF Kill, TypeOK
  <1>2. ASSUME NEW f \in Paths, Edit(f) PROVE TypeOK'
    BY <1>2, CacheAssumption DEF Edit, TypeOK
  <1>3. ASSUME NEW k \in Key, Damage(k) PROVE TypeOK'
    BY <1>3, CacheAssumption DEF Damage, TypeOK
  <1> QED BY <1>1, <1>2, <1>3

(* TypeOK holds in every reachable state. *)
THEOREM TypeCorrect == Spec => []TypeOK
  <1>1. ASSUME TypeOK, [Next]_vars PROVE TypeOK'
    <2>1. CASE UNCHANGED vars
      BY <1>1, <2>1 DEF vars, environment, TypeOK
    <2>2. CASE Next
      BY <1>1, <2>2, StepType, DisturbType DEF Next
    <2> QED BY <1>1, <2>1, <2>2
  <1> QED BY InitType, <1>1, PTL DEF Spec

-----------------------------------------------------------------------------
LEMMA InitInv == Init => CacheInv
  BY DEF Init, CacheInv, TruthfulEntry, Nothing

(* A step that keeps the old items of every report, and their arguments,   *)
(* has to be checked only for the item it adds.                            *)
LEMMA OneItemMore ==
    ASSUME TypeOK, CacheInv, NEW p \in Scanners, pc[p] # "idle",
           NEW f \in Paths, NEW c \in Contents \cup {Unreadable}, NEW result \in Result,
           Report(p, f, c, result), args' = args,
           LET r == [path |-> f, content |-> c, result |-> result]
           IN  FreshItem(args[p], r) /\ CurrentItem(args[p], r)
    PROVE  /\ \A q \in Scanners : \A r \in report'[q] :
                 FreshItem(args'[q], r) /\ CurrentItem(args'[q], r)
           /\ \A q \in Scanners \ {p} : report'[q] = report[q]
  <1> DEFINE new == [path |-> f, content |-> c, result |-> result]
  <1>1. report' = [report EXCEPT ![p] = report[p] \cup {new}]
    BY DEF Report
  <1>2. FreshItem(args[p], new) /\ CurrentItem(args[p], new)
    OBVIOUS
  <1> HIDE DEF new
  <1>3. ASSUME NEW q \in Scanners, NEW r \in report'[q]
        PROVE  FreshItem(args[q], r) /\ CurrentItem(args[q], r)
    BY <1>1, <1>2, <1>3 DEF TypeOK, CacheInv
  <1> QED BY <1>1, <1>3 DEF TypeOK

LEMMA StepInv ==
    ASSUME TypeOK, CacheInv, NEW p \in Scanners, Start(p) \/ Step(p)
    PROVE  CacheInv'
  <1> USE DEF TypeOK
  <1>1. CASE Start(p)
    <2>1. report[p] = {} /\ report' = report /\ entries' = entries /\ temp' = temp
      BY <1>1 DEF Start, CacheInv
    <2>2. \A q \in Scanners \ {p} : args'[q] = args[q] /\ pc'[q] = pc[q]
      BY <1>1 DEF Start
    <2>3. pc'[p] # "idle"
      BY <1>1 DEF Start
    <2>4. \A q \in Scanners : \A r \in report'[q] :
             FreshItem(args'[q], r) /\ CurrentItem(args'[q], r)
      BY <2>1, <2>2 DEF CacheInv
    <2>5. \A q \in Scanners : pc'[q] = "idle" => report'[q] = {}
      BY <2>1, <2>2, <2>3 DEF CacheInv
    <2>6. /\ \A k \in Key : TruthfulEntry(entries'[k])
          /\ \A q \in Scanners : TruthfulEntry(temp'[q])
      BY <2>1 DEF CacheInv
    <2> QED BY <2>4, <2>5, <2>6 DEF CacheInv, TruthfulEntry
  <1>2. CASE Read(p)
    <2>1. Head(left[p]) \in Paths
      BY <1>2, FirstFile DEF Read
    <2>2. CASE disk[Head(left[p])] = Unreadable
      <3>1. Report(p, Head(left[p]), Unreadable, ReadError) /\ pc[p] # "idle" /\ args' = args
        BY <1>2, <2>2 DEF Read
      <3>2. ReadError \in Result
        BY DEF ReadError, Result
      <3>3. LET r == [path |-> Head(left[p]), content |-> Unreadable, result |-> ReadError]
            IN  FreshItem(args[p], r) /\ CurrentItem(args[p], r)
        BY DEF FreshItem, CurrentItem, ReadError
      <3>4. /\ \A q \in Scanners : \A r \in report'[q] :
                   FreshItem(args'[q], r) /\ CurrentItem(args'[q], r)
            /\ \A q \in Scanners \ {p} : report'[q] = report[q]
        BY <2>1, <3>1, <3>2, <3>3, OneItemMore
      <3> QED BY <1>2, <2>2, <3>1, <3>4 DEF Read, CacheInv, TruthfulEntry
    <2>3. CASE disk[Head(left[p])] # Unreadable
      BY <1>2, <2>3 DEF Read, CacheInv, TruthfulEntry
    <2> QED BY <2>2, <2>3
  <1>3. CASE Hit(p)
    <2> DEFINE e == entries[KeyOf(p)]
               result == Restore(args[p], path[p], e.result)
    <2>1. /\ KeyOf(p) \in Key /\ e.kind = "entry" /\ e.key = KeyOf(p)
          /\ e.result \in Result /\ args[p] \in Args /\ path[p] \in Paths
          /\ source[p] \in Contents
      BY <1>3, ScannerType DEF Hit, Usable
    <2>2. Describes(e.result, source[p], args[p].rules) /\ HonestReasons(e.result)
      <3>1. e.key[1] = source[p] /\ e.key[2] = args[p].rules
        BY <2>1 DEF KeyOf
      <3>2. TruthfulEntry(e)
        BY <2>1 DEF CacheInv
      <3> HIDE DEF e
      <3>3. Describes(e.result, e.key[1], e.key[2]) /\ HonestReasons(e.result)
        BY <2>1, <3>2 DEF TruthfulEntry
      <3> QED BY <3>1, <3>3
    <2> HIDE DEF e
    <2>3. /\ result \in Result
          /\ Describes(result, source[p], args[p].rules)
          /\ CurrentItem(args[p], [path |-> path[p], content |-> source[p],
                                   result |-> result])
      BY <2>1, <2>2, RestoreType
    <2>4. Report(p, path[p], source[p], result) /\ pc[p] # "idle" /\ args' = args
      BY <1>3 DEF Hit, Add, e
    <2> HIDE DEF result
    <2>5. FreshItem(args[p], [path |-> path[p], content |-> source[p], result |-> result])
      BY <2>1, <2>3, CacheAssumption DEF FreshItem
    <2>6. /\ \A q \in Scanners : \A r \in report'[q] :
                 FreshItem(args'[q], r) /\ CurrentItem(args'[q], r)
          /\ \A q \in Scanners \ {p} : report'[q] = report[q]
      BY <2>1, <2>3, <2>4, <2>5, OneItemMore
    <2> QED BY <1>3, <2>4, <2>6 DEF Hit, CacheInv, TruthfulEntry
  <1>4. CASE LookupRaises(p)
    BY <1>4 DEF LookupRaises, CacheInv, TruthfulEntry
  <1>5. CASE AnalyseAndStore(p) \/ AnalyseUnstored(p)
    <2> DEFINE result == FreshResult(args[p], path[p], source[p])
    <2>1. args[p] \in Args /\ path[p] \in Paths /\ source[p] \in Contents /\ KeyOf(p) \in Key
      BY ScannerType
    <2>2. /\ result \in Result
          /\ Describes(result, source[p], args[p].rules)
          /\ HonestReasons(result)
          /\ CurrentItem(args[p], [path |-> path[p], content |-> source[p],
                                   result |-> result])
      BY <2>1, FreshResultType
    <2>3. Report(p, path[p], source[p], result) /\ pc[p] # "idle" /\ args' = args
      BY <1>5 DEF AnalyseAndStore, AnalyseUnstored, Add
    <2>4. temp' = temp \/ temp' = [temp EXCEPT ![p] = NewEntry(KeyOf(p), result)]
      BY <1>5 DEF AnalyseAndStore, AnalyseUnstored
    <2> HIDE DEF result
    <2>5. FreshItem(args[p], [path |-> path[p], content |-> source[p], result |-> result])
      BY <2>1, <2>2, CacheAssumption DEF FreshItem
    <2>6. /\ \A q \in Scanners : \A r \in report'[q] :
                 FreshItem(args'[q], r) /\ CurrentItem(args'[q], r)
          /\ \A q \in Scanners \ {p} : report'[q] = report[q]
      BY <2>1, <2>2, <2>3, <2>5, OneItemMore
    <2>7. TruthfulEntry(NewEntry(KeyOf(p), result))
      BY <2>1, <2>2, NewEntryType DEF TruthfulEntry, KeyOf
    <2>8. \A q \in Scanners : TruthfulEntry(temp'[q])
      BY <2>4, <2>7 DEF CacheInv
    <2>9. \A q \in Scanners : pc'[q] = "idle" => report'[q] = {}
      BY <1>5, <2>3, <2>6 DEF CacheInv, AnalyseAndStore, AnalyseUnstored
    <2>10. entries' = entries
      BY <1>5 DEF AnalyseAndStore, AnalyseUnstored
    <2> QED BY <2>6, <2>8, <2>9, <2>10 DEF CacheInv, TruthfulEntry
  <1>6. CASE Replace(p)
    <2>1. temp[p].key \in Key
      BY <1>6, ScannerType DEF Replace, Entry
    <2>2. \A k \in Key : entries'[k] = temp[p] \/ entries'[k] = entries[k]
      BY <1>6, <2>1 DEF Replace
    <2>3. \A k \in Key : TruthfulEntry(entries'[k])
      BY <2>2 DEF CacheInv
    <2>4. \A q \in Scanners : TruthfulEntry(temp'[q])
      BY <1>6 DEF Replace, CacheInv, TruthfulEntry, Nothing
    <2>5. report' = report /\ args' = args /\ \A q \in Scanners : pc'[q] = "idle" => pc[q] = "idle"
      BY <1>6 DEF Replace
    <2> QED BY <2>3, <2>4, <2>5 DEF CacheInv, TruthfulEntry
  <1>7. CASE WriteFails(p)
    <2>1. \A q \in Scanners : TruthfulEntry(temp'[q])
      BY <1>7 DEF WriteFails, CacheInv, TruthfulEntry, Nothing
    <2>2. /\ report' = report /\ args' = args /\ entries' = entries
          /\ \A q \in Scanners : pc'[q] = "idle" => pc[q] = "idle"
      BY <1>7 DEF WriteFails
    <2> QED BY <2>1, <2>2 DEF CacheInv, TruthfulEntry
  <1>8. CASE Finish(p)
    BY <1>8 DEF Finish, CacheInv, TruthfulEntry
  <1> QED BY <1>1, <1>2, <1>3, <1>4, <1>5, <1>6, <1>7, <1>8 DEF Step

LEMMA DisturbInv ==
    ASSUME TypeOK, CacheInv,
           \/ \E p \in Scanners : Kill(p)
           \/ \E f \in Paths : Edit(f)
           \/ \E k \in Key : Damage(k)
    PROVE  CacheInv'
  <1>1. ASSUME NEW p \in Scanners, Kill(p) PROVE CacheInv'
    BY <1>1 DEF Kill, CacheInv, TypeOK, TruthfulEntry
  <1>2. ASSUME NEW f \in Paths, Edit(f) PROVE CacheInv'
    BY <1>2 DEF Edit, CacheInv, TruthfulEntry
  <1>3. ASSUME NEW k \in Key, Damage(k) PROVE CacheInv'
    <2>1. ASSUME NEW j \in Key PROVE TruthfulEntry(entries'[j])
      <3>1. \/ entries'[j] \in NoEntry
            \/ \E i \in Key : entries'[j] = entries[i]
        BY <1>3 DEF Damage, TypeOK
      <3>2. \A n \in NoEntry : TruthfulEntry(n)
        BY DEF NoEntry, TruthfulEntry
      <3> QED BY <3>1, <3>2 DEF CacheInv
    <2>2. report' = report /\ args' = args /\ temp' = temp /\ pc' = pc
      BY <1>3 DEF Damage
    <2> QED BY <2>1, <2>2 DEF CacheInv, TruthfulEntry
  <1> QED BY <1>1, <1>2, <1>3

(* Reports only grow, and keep the arguments they were made with. *)
Grows ==
    \A q \in Scanners : report[q] # {} =>
        args'[q] = args[q] /\ report[q] \subseteq report'[q]

LEMMA CommentedStays ==
    ASSUME Grows, NEW c, NEW r, NEW s, Commented(report, args, c, r, s)
    PROVE  Commented(report', args', c, r, s)
  <1>1. PICK q \in Scanners :
           \E item \in report[q] : /\ item.content = c /\ args[q].rules = r
                                  /\ Inline(args[q], item.path, s)
    BY DEF Commented
  <1>2. args'[q] = args[q] /\ report[q] \subseteq report'[q]
    BY <1>1 DEF Grows
  <1> QED BY <1>1, <1>2 DEF Commented

(* What a step has to show besides: the new entries and the new items.     *)
LEMMA KeptStep ==
    ASSUME KeptInv, Grows,
           \A k \in Key : \/ \E j \in Key : entries'[k] = entries[j]
                          \/ \E q \in Scanners : entries'[k] = temp[q]
                          \/ entries'[k].kind # "entry",
           \A q \in Scanners : temp'[q] = temp[q] \/ KeptEntry(report', args', temp'[q]),
           \A q \in Scanners : \A r \in report'[q] :
               r \in report[q] \/ KeptItem(report', args', args'[q], r)
    PROVE  KeptInv'
  <1>1. ASSUME NEW e, KeptEntry(report, args, e) PROVE KeptEntry(report', args', e)
    BY <1>1, CommentedStays DEF KeptEntry
  <1>2. ASSUME NEW q \in Scanners, NEW r \in report'[q], r \in report[q]
        PROVE  KeptItem(report', args', args'[q], r)
    <2>1. args'[q] = args[q] /\ KeptItem(report, args, args[q], r)
      BY <1>2 DEF KeptInv, Grows
    <2> QED BY <2>1, CommentedStays DEF KeptItem
  <1>3. ASSUME NEW k \in Key PROVE KeptEntry(report', args', entries'[k])
    <2>1. CASE entries'[k].kind # "entry"
      BY <2>1 DEF KeptEntry
    <2>2. CASE \E j \in Key : entries'[k] = entries[j]
      BY <1>1, <2>2 DEF KeptInv
    <2>3. CASE \E q \in Scanners : entries'[k] = temp[q]
      BY <1>1, <2>3 DEF KeptInv
    <2> QED BY <2>1, <2>2, <2>3
  <1>4. ASSUME NEW q \in Scanners PROVE KeptEntry(report', args', temp'[q])
    BY <1>1 DEF KeptInv
  <1>5. ASSUME NEW q \in Scanners, NEW r \in report'[q]
        PROVE  KeptItem(report', args', args'[q], r)
    BY <1>2
  <1> QED BY <1>3, <1>4, <1>5 DEF KeptInv

(* One item more in one report. *)
LEMMA ReportGrows ==
    ASSUME TypeOK, NEW p \in Scanners, NEW f, NEW c, NEW result,
           Report(p, f, c, result), args' = args
    PROVE  LET new == [path |-> f, content |-> c, result |-> result]
           IN  /\ Grows
               /\ new \in report'[p]
               /\ \A q \in Scanners : \A r \in report'[q] :
                     r \in report[q] \/ (q = p /\ r = new)
  <1> DEFINE new == [path |-> f, content |-> c, result |-> result]
  <1> HIDE DEF new
  <1>1. report' = [report EXCEPT ![p] = report[p] \cup {new}]
    BY DEF Report, new
  <1>2. report \in [Scanners -> SUBSET Item]
    BY DEF TypeOK
  <1>3. Grows
    BY <1>1, <1>2 DEF Grows
  <1>4. /\ new \in report'[p]
        /\ \A q \in Scanners : \A r \in report'[q] :
               r \in report[q] \/ (q = p /\ r = new)
    BY <1>1, <1>2
  <1> QED BY <1>3, <1>4 DEF new

LEMMA KeptKeeps ==
    ASSUME TypeOK, CacheInv, KeptInv, [Next]_vars
    PROVE  KeptInv'
  <1>1. ASSUME UNCHANGED <<entries, temp, report>>, Grows PROVE KeptInv'
    BY <1>1, KeptStep DEF KeptInv, Grows
  <1>2. ASSUME NEW p \in Scanners, Start(p) PROVE KeptInv'
    <2>1. report[p] = {} /\ UNCHANGED <<entries, temp, report>>
      BY <1>2 DEF Start, CacheInv
    <2>2. \A q \in Scanners \ {p} : args'[q] = args[q]
      BY <1>2 DEF Start, TypeOK
    <2> QED BY <1>1, <2>1, <2>2 DEF Grows
  <1>3. ASSUME NEW p \in Scanners, Read(p) PROVE KeptInv'
    <2>1. CASE disk[Head(left[p])] = Unreadable
      <3>1. /\ Report(p, Head(left[p]), Unreadable, ReadError)
            /\ UNCHANGED <<args, entries, temp>>
        BY <1>3, <2>1 DEF Read
      <3> DEFINE new == [path |-> Head(left[p]), content |-> Unreadable, result |-> ReadError]
      <3>2. /\ Grows
            /\ \A q \in Scanners : \A r \in report'[q] :
                   r \in report[q] \/ (q = p /\ r = new)
        BY <3>1, ReportGrows
      <3>3. KeptItem(report', args', args'[p], new)
        BY DEF KeptItem, ReadError
      <3> QED BY <3>1, <3>2, <3>3, KeptStep
    <2>2. CASE disk[Head(left[p])] # Unreadable
      BY <1>1, <1>3, <2>2 DEF Read, Grows
    <2> QED BY <2>1, <2>2
  <1>4. ASSUME NEW p \in Scanners, Hit(p) PROVE KeptInv'
    <2> DEFINE e == entries[KeyOf(p)]
               result == Restore(args[p], path[p], e.result)
               new == [path |-> path[p], content |-> source[p], result |-> result]
    <2>1. /\ KeyOf(p) \in Key /\ e.kind = "entry" /\ e.key = KeyOf(p) /\ e.result \in Result
          /\ KeptEntry(report, args, e)
      BY <1>4, ScannerType DEF Hit, Usable, KeptInv
    <2>2. e.key[1] = source[p] /\ e.key[2] = args[p].rules
      BY <2>1 DEF KeyOf
    <2>3. Report(p, path[p], source[p], result) /\ UNCHANGED <<args, entries, temp>>
      BY <1>4 DEF Hit, Add
    <2> HIDE DEF result
    <2>4. /\ Grows
          /\ \A q \in Scanners : \A r \in report'[q] :
                 r \in report[q] \/ (q = p /\ r = new)
      BY <2>3, ReportGrows
    <2>5. KeptItem(report', args', args'[p], new)
      <3>1. \A cf \in e.result.findings : cf \in Finding
        BY <2>1 DEF Result
      <3>2. result.findings = {Restored(args[p], path[p], cf) : cf \in e.result.findings}
        BY <2>1 DEF Restore, Result, result
      <3> HIDE DEF e
      <3>3. ASSUME NEW cf \in e.result.findings,
                   Restored(args[p], path[p], cf).site.declarative
            PROVE  \/ Restored(args[p], path[p], cf).suppressed
                   \/ Commented(report', args', source[p], args[p].rules,
                                Restored(args[p], path[p], cf).site)
        <4>1. /\ Restored(args[p], path[p], cf).site = cf.site
              /\ cf.suppressed /\ cf.reason = "declarative" =>
                     Restored(args[p], path[p], cf).suppressed
          BY <3>1 DEF Restored, Finding
        <4>2. CASE cf.suppressed /\ cf.reason = "declarative"
          BY <4>1, <4>2
        <4>3. CASE Commented(report, args, e.key[1], e.key[2], cf.site)
          BY <2>2, <2>4, <4>1, <4>3, CommentedStays
        <4> QED BY <2>1, <3>3, <4>1, <4>2, <4>3 DEF KeptEntry
      <3> QED BY <2>3, <3>2, <3>3 DEF KeptItem
    <2> QED BY <2>3, <2>4, <2>5, KeptStep
  <1>5. ASSUME NEW p \in Scanners, AnalyseAndStore(p) \/ AnalyseUnstored(p) PROVE KeptInv'
    <2> DEFINE result == FreshResult(args[p], path[p], source[p])
               new == [path |-> path[p], content |-> source[p], result |-> result]
    <2>1. Report(p, path[p], source[p], result) /\ UNCHANGED <<args, entries>>
      BY <1>5 DEF AnalyseAndStore, AnalyseUnstored, Add
    <2>2. /\ Grows /\ new \in report'[p]
          /\ \A q \in Scanners : \A r \in report'[q] :
                 r \in report[q] \/ (q = p /\ r = new)
      BY <2>1, ReportGrows
    <2>3. \A q \in Scanners : temp'[q] = temp[q] \/ temp'[q] = NewEntry(KeyOf(p), result)
      BY <1>5 DEF AnalyseAndStore, AnalyseUnstored, TypeOK
    <2>4. \A cf \in result.findings :
             cf.site.declarative =>
                 \/ cf.suppressed /\ cf.reason = "declarative"
                 \/ Inline(args[p], path[p], cf.site)
      <3>1. result.findings = {FreshFinding(args[p], path[p], s) :
                s \in {t \in Analysis[source[p], args[p].rules, args[p].package].sites : ~t.guarded}}
        BY DEF FreshResult
      <3>2. ASSUME NEW s, s.declarative
            PROVE  LET cf == FreshFinding(args[p], path[p], s)
                   IN  /\ cf.site = s
                       /\ \/ cf.suppressed /\ cf.reason = "declarative"
                          \/ Inline(args[p], path[p], s)
        BY <3>2 DEF FreshFinding
      <3>3. \A s : FreshFinding(args[p], path[p], s).site = s
        BY DEF FreshFinding
      <3> HIDE DEF result
      <3> QED BY <3>1, <3>2, <3>3
    <2>5. \A cf \in result.findings :
             cf.site.declarative =>
                 \/ cf.suppressed /\ cf.reason = "declarative"
                 \/ Commented(report', args', source[p], args[p].rules, cf.site)
      <3> HIDE DEF result
      <3>1. \A cf : Inline(args[p], path[p], cf.site) =>
                Commented(report', args', source[p], args[p].rules, cf.site)
        BY <2>1, <2>2 DEF Commented
      <3> QED BY <2>4, <3>1
    <2> HIDE DEF result
    <2>6. KeptItem(report', args', args'[p], new)
      BY <2>1, <2>5 DEF KeptItem
    <2>7. KeptEntry(report', args', NewEntry(KeyOf(p), result))
      BY <2>5 DEF KeptEntry, NewEntry, KeyOf
    <2> QED BY <2>1, <2>2, <2>3, <2>6, <2>7, KeptStep
  <1>6. ASSUME NEW p \in Scanners, Replace(p) \/ WriteFails(p) PROVE KeptInv'
    <2>1. UNCHANGED <<args, report>> /\ Grows
      BY <1>6 DEF Replace, WriteFails, Grows
    <2>2. \A k \in Key : entries'[k] = entries[k] \/ entries'[k] = temp[p]
      BY <1>6 DEF Replace, WriteFails, TypeOK
    <2>3. \A q \in Scanners : temp'[q] = temp[q] \/ temp'[q] = Nothing
      BY <1>6 DEF Replace, WriteFails, TypeOK
    <2>4. KeptEntry(report', args', Nothing)
      BY DEF KeptEntry, Nothing
    <2> QED BY <2>1, <2>2, <2>3, <2>4, KeptStep DEF KeptInv
  <1>7. ASSUME NEW k \in Key, Damage(k) PROVE KeptInv'
    <2>1. UNCHANGED <<args, report, temp>> /\ Grows
      BY <1>7 DEF Damage, Grows
    <2>2. \A j \in Key : \/ \E i \in Key : entries'[j] = entries[i]
                         \/ entries'[j] \in NoEntry
      BY <1>7 DEF Damage, TypeOK
    <2>3. \A n \in NoEntry : n.kind # "entry"
      BY DEF NoEntry
    <2>4. /\ \A j \in Key : \/ \E i \in Key : entries'[j] = entries[i]
                            \/ \E q \in Scanners : entries'[j] = temp[q]
                            \/ entries'[j].kind # "entry"
          /\ \A q \in Scanners : temp'[q] = temp[q]
          /\ \A q \in Scanners : \A r \in report'[q] : r \in report[q]
      BY <2>1, <2>2, <2>3
    <2> QED BY <2>1, <2>4, KeptStep
  <1>8. ASSUME NEW p \in Scanners, LookupRaises(p) \/ Finish(p) \/ Kill(p) PROVE KeptInv'
    BY <1>1, <1>8 DEF LookupRaises, Finish, Kill, Grows
  <1>9. ASSUME NEW f \in Paths, Edit(f) PROVE KeptInv'
    BY <1>1, <1>9 DEF Edit, Grows
  <1>10. CASE UNCHANGED vars
    BY <1>1, <1>10 DEF vars, Grows
  <1> QED BY <1>2, <1>3, <1>4, <1>5, <1>6, <1>7, <1>8, <1>9, <1>10 DEF Next, Step

LEMMA Always == Spec => [](TypeOK /\ CacheInv /\ KeptInv)
  <1>1. ASSUME TypeOK /\ CacheInv /\ KeptInv, [Next]_vars
        PROVE  (TypeOK /\ CacheInv /\ KeptInv)'
    <2>1. CASE UNCHANGED vars
      BY <1>1, <2>1, KeptKeeps DEF vars, environment, TypeOK, CacheInv, TruthfulEntry
    <2>2. CASE Next
      BY <1>1, <2>2, StepType, DisturbType, StepInv, DisturbInv, KeptKeeps DEF Next
    <2> QED BY <1>1, <2>1, <2>2
  <1>2. Init => KeptInv
    BY DEF Init, KeptInv, KeptEntry, Nothing
  <1> QED BY InitType, InitInv, <1>1, <1>2, PTL DEF Spec

(* Every file's reported result is what analysing the content that was     *)
(* read gives under the scan's own rule set, whatever happened to the      *)
(* files, the processes and the cache directory before.                    *)
THEOREM ResultsFresh == Spec => []ResultsAreFresh
  <1>1. TypeOK /\ CacheInv => ResultsAreFresh
    BY DEF CacheInv, FreshItem, ResultsAreFresh
  <1> QED BY Always, <1>1, PTL

(* A finding is hidden exactly for the reasons of this run, but for one    *)
(* whose declarative guard an inline comment has replaced in the entry.    *)
THEOREM SuppressionsCurrent == Spec => []SuppressionIsCurrent
  <1>1. TypeOK /\ CacheInv /\ KeptInv => SuppressionIsCurrent
    BY DEF CacheInv, CurrentItem, KeptInv, KeptItem, Commented, CommentedBefore,
           SuppressionIsCurrent
  <1> QED BY Always, <1>1, PTL

-----------------------------------------------------------------------------
LEMMA UsableSurvives ==
    ASSUME TypeOK, [Next]_vars, NEW k \in Key, Usable(k), damage' = damage
    PROVE  Usable(k)'
  <1>1. CASE UNCHANGED vars
    BY <1>1 DEF vars, Usable
  <1>2. ASSUME NEW p \in Scanners, Replace(p) PROVE Usable(k)'
    <2>1. temp[p] \in Entry /\ entries \in [Key -> NoEntry \cup Entry]
      BY <1>2, ScannerType DEF Replace, TypeOK
    <2> QED BY <1>2, <2>1 DEF Replace, Usable, Entry
  <1>3. ASSUME NEW p \in Scanners, Start(p) \/ Step(p) \/ Kill(p), ~Replace(p)
        PROVE  Usable(k)'
    <2>1. entries' = entries
      BY <1>3 DEF Start, Step, Read, Hit, LookupRaises, AnalyseAndStore, AnalyseUnstored,
                  WriteFails, Finish, Kill
    <2> QED BY <2>1 DEF Usable
  <1>4. ASSUME NEW f \in Paths, Edit(f) PROVE Usable(k)'
    BY <1>4 DEF Edit, Usable
  <1>5. ASSUME NEW j \in Key, Damage(j) PROVE FALSE
    <2>1. damage \in Nat /\ damage' = damage + 1
      BY <1>5, CacheAssumption DEF Damage, TypeOK
    <2> QED BY <2>1
  <1> QED BY <1>1, <1>2, <1>3, <1>4, <1>5 DEF Next

(* No scanner, whatever fails in it, takes a usable entry away.            *)
THEOREM EntriesStay == Spec => EntriesSurvive
  <1>1. TypeOK /\ [Next]_vars =>
            [\A k \in Key : Usable(k) /\ damage' = damage => Usable(k)']_vars
    BY UsableSurvives
  <1> QED BY TypeCorrect, <1>1, PTL DEF Spec, EntriesSurvive

(* Without damage the directory holds whole entries under their own names, *)
(* and no scan fails, however writers interleave and die.                  *)
THEOREM NothingTorn == Spec => []TornOnlyByDamage
  <1>1. Init => TornOnlyByDamage
    BY DEF Init, TornOnlyByDamage
  <1>2. ASSUME TypeOK, TornOnlyByDamage, [Next]_vars PROVE TornOnlyByDamage'
    <2> SUFFICES ASSUME damage' = 0
                 PROVE  /\ \A k \in Key : entries'[k] = Nothing \/ Usable(k)'
                        /\ \A p \in Scanners : pc'[p] # "failed"
      BY DEF TornOnlyByDamage
    <2>1. damage = 0
      <3>1. damage \in Nat /\ (damage' = damage \/ damage' = damage + 1)
        <4>1. damage \in Nat
          BY <1>2, CacheAssumption DEF TypeOK
        <4>2. ASSUME NEW p \in Scanners, Start(p) \/ Step(p) PROVE damage' = damage
          BY <4>2 DEF Start, Step, Read, Hit, LookupRaises, AnalyseAndStore,
                      AnalyseUnstored, Replace, WriteFails, Finish, environment
        <4>3. ASSUME NEW p \in Scanners, Kill(p) PROVE damage' = damage
          BY <4>3 DEF Kill
        <4>4. ASSUME NEW f \in Paths, Edit(f) PROVE damage' = damage
          BY <4>4 DEF Edit
        <4>5. ASSUME NEW k \in Key, Damage(k) PROVE damage' = damage + 1
          BY <4>5 DEF Damage
        <4>6. UNCHANGED vars => damage' = damage
          BY DEF vars, environment
        <4> QED BY <1>2, <4>1, <4>2, <4>3, <4>4, <4>5, <4>6 DEF Next
      <3> QED BY <3>1
    <2>2. /\ \A k \in Key : entries[k] = Nothing \/ Usable(k)
          /\ \A p \in Scanners : pc[p] # "failed"
      BY <1>2, <2>1 DEF TornOnlyByDamage
    <2>3. ASSUME NEW k \in Key PROVE entries'[k] = Nothing \/ Usable(k)'
      <3>1. CASE Usable(k)
        BY <1>2, <2>1, <3>1, UsableSurvives
      <3>2. CASE entries[k] = Nothing /\ entries'[k] # Nothing
        <4>1. PICK p \in Scanners : Replace(p)
          BY <1>2, <2>1, <3>2
             DEF TypeOK, vars, environment, Next, Start, Step, Read, Hit, LookupRaises,
                 AnalyseAndStore, AnalyseUnstored, WriteFails, Finish, Kill, Edit, Damage
        <4>2. temp[p] \in Entry
          BY <1>2, <4>1, ScannerType DEF Replace
        <4>3. entries'[k] = temp[p] /\ temp[p].key = k
          BY <1>2, <3>2, <4>1 DEF Replace, TypeOK
        <4> QED BY <4>2, <4>3 DEF Usable, Entry
      <3> QED BY <2>2, <3>1, <3>2
    <2>4. ASSUME NEW p \in Scanners PROVE pc'[p] # "failed"
      <3>1. \A q \in Scanners : ~LookupRaises(q)
        <4> SUFFICES ASSUME NEW q \in Scanners, LookupRaises(q) PROVE FALSE
          OBVIOUS
        <4>1. KeyOf(q) \in Key /\ entries[KeyOf(q)].kind = "unexpected"
          BY <1>2, ScannerType DEF LookupRaises
        <4> QED BY <2>2, <4>1 DEF Usable, Nothing
      <3>2. CASE UNCHANGED vars
        BY <2>2, <3>2 DEF vars
      <3>3. CASE \E q \in Scanners : Start(q) \/ Step(q) \/ Kill(q)
        BY <1>2, <2>2, <3>1, <3>3
           DEF TypeOK, Start, Step, Read, Hit, AnalyseAndStore, AnalyseUnstored, Replace,
               WriteFails, Finish, Kill
      <3>4. CASE (\E f \in Paths : Edit(f)) \/ (\E k \in Key : Damage(k))
        BY <2>2, <3>4 DEF Edit, Damage
      <3> QED BY <1>2, <3>2, <3>3, <3>4 DEF Next
    <2> QED BY <2>3, <2>4
  <1> QED BY TypeCorrect, <1>1, <1>2, PTL DEF Spec
=============================================================================
