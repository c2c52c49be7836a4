--------------------------- MODULE FileReachability ---------------------------
(***************************************************************************)
(* The per-file rule pass of engine.py over one Python file: the pre-      *)
(* filter, the registration signals of detectors/reachability.py and its   *)
(* two bounded searches along calls, and what is reported of each sink.    *)
(*                                                                         *)
(* The pass ends before the file runs (module PythonFile); what it says    *)
(* has to hold of every run.                                               *)
(***************************************************************************)
EXTENDS PythonFile

VARIABLES
    phase,        \* "read", "classes", "locals", "sinks", then "done" or "skipped"
    searched,     \* the class whose methods are searched
    queue,        \* functions to follow calls from: <<function, hops>>
    visited,      \* functions queued since the search began
    sameClass,    \* method -> hops from an entry point of its class
    localCalls,   \* function -> hops from a top-level entry point
    judged,       \* the last function whose sink was judged
    capabilities, \* records [function, confidence, hops, guarded]
    findings      \* records [function, confidence, suppressed]

passVars == <<phase, searched, queue, visited, sameClass, localCalls, judged, capabilities, findings>>
vars == <<file, runVars, passVars>>

MaxHops == 3    \* DEFAULT_SAME_CLASS_MAX_HOPS, and the default of max_hops

-----------------------------------------------------------------------------
(* The state of a list variable: nothing before its first assignment,      *)
(* "dynamic" once it is changed in any way.                                *)
ListState(name, var) ==
    LET after(s, o) ==
          IF o.var # var THEN s
          ELSE CASE o.op \in {"assign", "annotated"} ->
                      IF s # "unset" THEN "dynamic"
                      ELSE IF name \in o.elements THEN "clean" ELSE "neutral"
                 [] o.op = "other" -> "dynamic"
                 [] o.op = "grow" -> IF s # "unset" THEN "dynamic" ELSE s
                 [] OTHER -> s
        state[k \in 0 .. Len(file.lists)] ==
          IF k = 0 THEN "unset" ELSE after(state[k - 1], file.lists[k])
    IN  state[Len(file.lists)]

InToolList(name) ==
    \E k \in 1 .. Len(file.lists) :
       LET o == file.lists[k]
       IN  \/ o.op = "direct" /\ name \in o.elements
           \/ o.op = "pass" /\ ListState(name, o.var) = "clean"

ToolDecorated(i) == "tool" \in Fn(i).decorators
RouteDecorated(i) == file.resource /\ "route" \in Fn(i).decorators
Wrapped(i) == Fn(i).name \in file.wrapped
ToolMethod(i) == Fn(i).class # 0 /\ IsToolClass(Fn(i).class) /\ Fn(i).name \in ToolMethods
Appended(i) == Fn(i).class # 0 /\ IsToolClass(Fn(i).class)
                 /\ Fn(i).name \in ClassOf(Fn(i).class).appended

Announced(i) ==
    \/ ToolDecorated(i) \/ RouteDecorated(i) \/ Wrapped(i)
    \/ ToolMethod(i) \/ InToolList(Fn(i).name) \/ Appended(i)

(* Two signals look at the sink itself: in a branch on a declared tool     *)
(* name, on either side of it; on an action parameter's command.           *)
SchemaDispatch(i) == Fn(i).branch # ""
ActionDispatch(i) == Fn(Outermost(i)).action /\ Fn(i).payload

High(i) == Announced(Outermost(i)) \/ SchemaDispatch(i) \/ ActionDispatch(i)

-----------------------------------------------------------------------------
(* Names a class defines twice are left out, with all that is in them.     *)
MethodMap(c) == {i \in Methods(c) : Cardinality(Named(Methods(c), Fn(i).name)) = 1}

(* Mutant of Callers: functions inside methods are forgotten.              *)
CallersUnnested(c) == MethodMap(c)

Callers(c) == MethodMap(c) \cup UNION {Nested(i) : i \in MethodMap(c)}
EntryPoints(c) == {i \in Callers(c) : Announced(i)}

(* A function's calls are collected with those of the functions in it.     *)
CallsIn(i) == Fn(i).calls \cup UNION {Fn(k).calls : k \in Nested(i)}

MethodsCalled(c, i) ==
    {m \in MethodMap(c) : \E call \in CallsIn(i) :
        /\ call.name = Fn(m).name
        /\ \/ call.how \in {"self", "executor"}
           \/ call.how = "class" /\ call.of = ClassOf(c).name}

TopLevelMap == {i \in TopLevel : Cardinality(Named(TopLevel, Fn(i).name)) = 1}
First(S) == IF S = {} THEN 0 ELSE CHOOSE i \in S : \A k \in S : i <= k

LocalsCalled(i) ==
    {t \in TopLevelMap : \E call \in CallsIn(i) : call.how = "bare" /\ call.name = Fn(t).name}
      \cup ({LET c == First({d \in Classes : ClassOf(d).name = call.of})
             IN  IF c = 0 THEN 0 ELSE First(Named(Methods(c), call.name))
               : call \in {x \in CallsIn(i) : x.how = "var"}} \ {0})

Enqueue(S, h) ==
    LET add[k \in 0 .. Len(file.functions)] ==
          IF k = 0 THEN <<>> ELSE IF k \in S THEN Append(add[k - 1], <<k, h>>) ELSE add[k - 1]
    IN  add[Len(file.functions)]

(* No token of the file could register a tool: nothing of it is looked at. *)
(* The framework's name is no such token.                                  *)
Marked ==
    \/ file.mentions
    \/ file.wrapped # {} \/ file.lists # <<>>
    \/ \E c \in Classes : IsToolClass(c)
    \/ \E i \in Functions : ToolDecorated(i) \/ RouteDecorated(i) \/ Fn(i).name \in ToolMethods

-----------------------------------------------------------------------------
(* Mutant of RecordedClass: one assignment of the protecting class will do.*)
RecordedAnyway(receiver) == IF Protector \in receiver THEN {Protector} ELSE receiver \ {"?"}
(* The classes recorded for a variable; more than one is a conflict.       *)
RecordedClass(receiver) == receiver \ {"?"}

(* A callback that is only ever handed to a protector, never called.       *)
Protected(i) ==
    /\ Fn(i).outer # 0 /\ Fn(i).handed # {}
    /\ \A r \in Fn(i).handed : RecordedClass(r) = {Protector}
    /\ \A k \in {Outermost(i)} \cup Nested(Outermost(i)) :
         \A call \in Fn(k).calls : ~(call.how = "bare" /\ call.name = Fn(i).name)

(* A decorator counts on the outermost function only.                      *)
GuardDecorated(i) == "guard" \in Fn(i).decorators
ApprovalFlagged(i) == "approval" \in Fn(i).decorators
Guarded(i) == GuardDecorated(Outermost(i)) \/ ApprovalFlagged(Outermost(i)) \/ Protected(i)

(* Classes that declare a guard, by name; subclasses inherit it.           *)
DeclaredClasses ==
    LET direct == {ClassOf(c).name : c \in {d \in Classes : ClassOf(d).declares}} \cup file.permitted
        more(S) == S \cup {ClassOf(c).name : c \in {d \in Classes : ClassOf(d).bases \cap S # {}}}
        grown[k \in 0 .. Len(file.classes)] == IF k = 0 THEN direct ELSE more(grown[k - 1])
    IN  grown[Len(file.classes)]

Declared(i) ==
    \/ \E k \in Enclosing(i) \ {0} : "declared" \in Fn(k).decorators
    \/ /\ SelfClass(i) # 0
       /\ LET c == ClassOf(SelfClass(i)) IN ({c.name} \cup c.bases) \cap DeclaredClasses # {}

(* The clean-up of a temporary file, if the file mentions any.             *)
CleansUp(i) == Fn(i).sink = "cleanup" /\ \E k \in Functions : Fn(k).makesTemp

SinkFunctions == {i \in Functions : Fn(i).sink # "none"}

-----------------------------------------------------------------------------
PassInit ==
    /\ phase = "read" /\ searched = 0
    /\ queue = <<>> /\ visited = {} /\ sameClass = <<>> /\ localCalls = <<>>
    /\ judged = 0 /\ capabilities = {} /\ findings = {}

Read ==
    /\ phase = "read"
    /\ phase' = IF ~Marked THEN "skipped"
                ELSE IF SinkFunctions = {} /\ file.top = "none" THEN "done" ELSE "classes"
    /\ UNCHANGED <<searched, queue, visited, sameClass, localCalls, judged, capabilities, findings>>

(* A class without entry points leaves the queue empty. *)
NextClass ==
    /\ phase = "classes" /\ queue = <<>> /\ searched < Len(file.classes)
    /\ searched' = searched + 1
    /\ queue' = Enqueue(EntryPoints(searched + 1), 0)
    /\ visited' = EntryPoints(searched + 1)
    /\ UNCHANGED <<phase, sameClass, localCalls, judged, capabilities, findings>>

(* Mutant of Discover: calls are followed without being counted.           *)
DiscoverUncounted(called) == [found |-> called \ visited, hops |-> Head(queue)[2]]

Discover(called) ==
    LET new == called \ visited
        h == Head(queue)[2]
    IN  IF h >= MaxHops THEN [found |-> {}, hops |-> h] ELSE [found |-> new, hops |-> h + 1]

Extend(map, d) == [i \in DOMAIN map \cup d.found |-> IF i \in d.found THEN d.hops ELSE map[i]]

FollowMethod ==
    /\ phase = "classes" /\ queue # <<>>
    /\ LET d == Discover(MethodsCalled(searched, Head(queue)[1]))
       IN  /\ visited' = visited \cup d.found
           /\ sameClass' = Extend(sameClass, d)
           /\ queue' = Tail(queue) \o Enqueue(d.found, d.hops)
    /\ UNCHANGED <<phase, searched, localCalls, judged, capabilities, findings>>

StartLocals ==
    /\ phase = "classes" /\ queue = <<>> /\ searched = Len(file.classes)
    /\ phase' = "locals"
    /\ LET from == IF file.followLocal THEN {i \in TopLevelMap : Announced(i)} ELSE {}
       IN  queue' = Enqueue(from, 0) /\ visited' = from
    /\ UNCHANGED <<searched, sameClass, localCalls, judged, capabilities, findings>>

FollowLocal ==
    /\ phase = "locals" /\ queue # <<>>
    /\ LET d == Discover(LocalsCalled(Head(queue)[1]))
       IN  /\ visited' = visited \cup d.found
           /\ localCalls' = Extend(localCalls, d)
           /\ queue' = Tail(queue) \o Enqueue(d.found, d.hops)
    /\ UNCHANGED <<phase, searched, sameClass, judged, capabilities, findings>>

StartSinks ==
    /\ phase = "locals" /\ queue = <<>>
    /\ phase' = "sinks"
    /\ UNCHANGED <<searched, queue, visited, sameClass, localCalls, judged, capabilities, findings>>

(* How the pass takes the sink in function i for reachable: none, high, or *)
(* medium with the number of calls.                                        *)
Verdict(i) ==
    LET o == Outermost(i)
    IN  CASE High(i) -> [confidence |-> "high", hops |-> 0]
          [] ~High(i) /\ o \in DOMAIN sameClass -> [confidence |-> "medium", hops |-> sameClass[o]]
          [] ~High(i) /\ o \in DOMAIN localCalls \ DOMAIN sameClass ->
               [confidence |-> "medium", hops |-> localCalls[o]]
          [] OTHER -> [confidence |-> "none", hops |-> 0]

JudgeSink ==
    /\ phase = "sinks" /\ \E i \in SinkFunctions : i > judged
    /\ judged' = First({i \in SinkFunctions : i > judged})
    /\ LET v == Verdict(judged')
           drop == v.confidence = "none" \/ CleansUp(judged')
           guarded == Guarded(judged')
       IN  /\ capabilities' = IF drop THEN capabilities
                              ELSE capabilities \cup {[function |-> judged', confidence |-> v.confidence,
                                                       hops |-> v.hops, guarded |-> guarded]}
           /\ findings' = IF drop \/ guarded THEN findings
                          ELSE findings \cup {[function |-> judged', confidence |-> v.confidence,
                                               suppressed |-> Declared(judged')]}
    /\ UNCHANGED <<phase, searched, queue, visited, sameClass, localCalls>>

(* Outside of functions: not in a main block, not in the body of a class.  *)
AtImport == file.top = "plain"
ImportsFramework == file.framework /\ ~file.ownPackage

(* A sink outside every function (function 0): off unless asked for.       *)
JudgeModule ==
    /\ phase = "sinks" /\ \A i \in SinkFunctions : i <= judged
    /\ phase' = "done"
    /\ LET reached == AtImport /\ ImportsFramework /\ file.moduleLevel
       IN  /\ capabilities' = IF ~reached THEN capabilities
                              ELSE capabilities \cup {[function |-> 0, confidence |-> "medium",
                                                       hops |-> 0, guarded |-> FALSE]}
           /\ findings' = IF ~reached THEN findings
                          ELSE findings \cup {[function |-> 0, confidence |-> "medium", suppressed |-> FALSE]}
    /\ UNCHANGED <<searched, queue, visited, sameClass, localCalls, judged>>

Scan == Read \/ NextClass \/ FollowMethod \/ StartLocals \/ FollowLocal \/ StartSinks
          \/ JudgeSink \/ JudgeModule

Init == RunInit /\ PassInit

Over == phase \in {"done", "skipped"}

Next ==
    \/ Scan /\ UNCHANGED <<file, runVars>>
    \/ Over /\ Run /\ UNCHANGED passVars

Spec == Init /\ [][Next]_vars

-----------------------------------------------------------------------------
(* A file whose names mean one thing each: no scope and no class is        *)
(* defined twice, a function registered by its name is the only one of it, *)
(* a class inherits from classes before it only, and one constructed with  *)
(* permissions is not subclassed.                                          *)
Plain ==
    /\ \A i, k \in Functions : i # k /\ Fn(i).name = Fn(k).name =>
         /\ <<Fn(i).class, Fn(i).outer>> # <<Fn(k).class, Fn(k).outer>>
         /\ Fn(i).class # 0 \/ Fn(k).class # 0
         /\ Fn(i).name \notin file.wrapped \cup UNION {file.lists[n].elements : n \in 1 .. Len(file.lists)}
    /\ \A c, d \in Classes : c # d => ClassOf(c).name # ClassOf(d).name
    /\ \A c, d \in Classes : ClassOf(d).name \in ClassOf(c).bases => d < c
    /\ \A c \in Classes : ClassOf(c).bases \cap file.permitted = {}

(* A variable passed as tools= was assigned before.                        *)
ListsAreAssigned ==
    \A k \in 1 .. Len(file.lists) :
       file.lists[k].op = "pass" =>
         \E j \in 1 .. k - 1 : /\ file.lists[j].var = file.lists[k].var
                               /\ file.lists[j].op \in {"assign", "annotated"}

(* Once, and not changed.                                                  *)
ListsAreClear ==
    /\ ListsAreAssigned
    /\ \A i, j, k \in 1 .. Len(file.lists) :
         /\ file.lists[k].op = "pass" /\ file.lists[i].op # "pass" /\ file.lists[j].op # "pass"
         /\ file.lists[i].var = file.lists[k].var /\ file.lists[j].var = file.lists[k].var
         => i = j

(* Calls the searches say they follow: from a tool through the methods of  *)
(* its class; from a top-level tool through top-level functions and the    *)
(* methods of variables; three calls at most.  A tool inside a method      *)
(* counts for what it calls outside of that method.                        *)
Followed ==
    /\ hops <= MaxHops
    /\ \/ SelfClass(entry) # 0 /\ ways \subseteq {"nested", "method"}
       \/ entry \in TopLevel /\ file.followLocal /\ ways \subseteq {"nested", "local"}
    /\ Fn(entry).outer # 0 => Outermost(at) # Outermost(entry) /\ "nested" \notin ways

(* No sink an agent can run along such calls goes unreported, and no file  *)
(* is skipped that has one (reachability.py:                               *)
(* detect_same_class_method_reachability, detect_module_level_reachability;*)
(* engine.py: _reachability_markers).                                      *)
RunIsReported ==
    Over /\ at \in SinkFunctions /\ Offered(entry) /\ Followed
      /\ Plain /\ ListsAreClear /\ ~CleansUp(at) =>
        \E x \in capabilities : x.function = at

(* What is reported at h hops, an agent can run with h calls: no chain is  *)
(* made up, also where names, lists and nested functions are matched by    *)
(* their text only (reachability.py: ReachabilityResult, hops).            *)
ReportedIsCalled ==
    Plain /\ ListsAreAssigned => \A x \in capabilities : x.function # 0 => x.function \in RunsWithin(x.hops)

(* When a sink said to be guarded, or suppressed for a declared guard,     *)
(* runs, an authorization has been passed on the way to it.  A tool        *)
(* defined inside a guarded function is run after that function returned.  *)
(* (guards.py: check_guard; engine.py: _is_in_declarative_guarded_class.)  *)
GuardedRunsAsked ==
    /\ Over /\ at \in SinkFunctions /\ Plain
    /\ Fn(entry).outer = 0
    /\ \A r \in Fn(at).handed : Cardinality(r) # 1 => "?" \notin r
    /\ \/ \E x \in capabilities : x.function = at /\ x.guarded
       \/ \E x \in findings : x.function = at /\ x.suppressed
    => asked

=============================================================================
