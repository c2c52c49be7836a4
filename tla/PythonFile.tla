------------------------------ MODULE PythonFile ------------------------------
(***************************************************************************)
(* One Python file as actenon-scan's per-file rules see it, and what an    *)
(* agent can make it do: the agent calls a function registered as a tool,  *)
(* functions call one another, and some of them hold a sink.               *)
(*                                                                         *)
(* Functions are numbered in source order.  One stands directly in the     *)
(* module, directly in a class, or inside another function.                *)
(***************************************************************************)
EXTENDS Integers, Sequences, FiniteSets

CONSTANTS
    Files,        \* the files to look at
    ToolBase,     \* the name of the framework's tool class
    ToolMethods,  \* the methods a framework calls on a tool
    Protector     \* the class whose method verifies before it calls back

(* self.m(), Class.m(), m(), v.m() with v = Class(...), to_thread(self.m), *)
(* and anything else that ends up calling self.m.                          *)
Hows == {"self", "class", "bare", "var", "executor", "handoff"}
Call == [how : Hows, of : STRING, name : STRING]

(* class, outer: what it stands in, 0 for the module.  action: a parameter *)
(* has an ...Action annotation; payload: the sink reads that parameter's   *)
(* command.  branch: the sink is in a branch of a test on a tool name that *)
(* a schema of the file declares.  sink: "cleanup" deletes in a finally.   *)
(* handed: the function is an argument of calls on receivers, each given   *)
(* by the classes assigned to it, "?" for an assignment that says none.    *)
Function == [name : STRING, class : Nat, outer : Nat,
             decorators : SUBSET {"tool", "route", "guard", "approval", "declared"},
             action : BOOLEAN, payload : BOOLEAN, branch : {"", "then", "else"},
             sink : {"none", "call", "cleanup"}, makesTemp : BOOLEAN,
             calls : SUBSET Call, handed : SUBSET SUBSET STRING]

(* appended: the self.m in .append(self.m) of its __init__.  declares: a   *)
(* class attribute or decorator requires authorization.                    *)
Class == [name : STRING, bases : SUBSET STRING, appended : SUBSET STRING, declares : BOOLEAN]

(* What happens to lists, in source order.  "direct": a literal passed as  *)
(* tools=; "pass": a variable passed as tools=; "other": a variable is     *)
(* assigned something else; "grow": append, extend or insert.              *)
ListOp == [op : {"direct", "assign", "annotated", "other", "grow", "pass"},
           var : STRING, elements : SUBSET STRING]

(* wrapped: arguments of tool-wrapper calls.  permitted: callables called  *)
(* with permissions=... or the like.  top: where a sink outside functions  *)
(* is.  schema: it declares tools in a schema literal.                     *)
File == [functions : Seq(Function), classes : Seq(Class), lists : Seq(ListOp),
         wrapped : SUBSET STRING, permitted : SUBSET STRING, schema : BOOLEAN,
         top : {"none", "plain", "main", "class"}, framework : BOOLEAN, ownPackage : BOOLEAN,
         mentions : BOOLEAN, resource : BOOLEAN, moduleLevel : BOOLEAN, followLocal : BOOLEAN]

WellFormed(f) ==
    /\ f \in File
    /\ \A i \in 1 .. Len(f.functions) :
         LET g == f.functions[i]
         IN  /\ g.outer < i /\ g.class <= Len(f.classes)
             /\ g.class = 0 \/ g.outer = 0
             /\ g.branch # "" => f.schema

ASSUME FilesAssumption == \A f \in Files : WellFormed(f)

VARIABLES
    file,     \* the file: constant
    at,       \* the function that runs, 0 when none does
    entry,    \* the registered function the agent called
    hops,     \* calls since, entering a function nested in the running one not counted
    ways,     \* how those calls were made
    asked     \* an authorization was passed since the agent's call

runVars == <<at, entry, hops, ways, asked>>

Fn(i) == file.functions[i]
Functions == 1 .. Len(file.functions)
Classes == 1 .. Len(file.classes)
ClassOf(c) == file.classes[c]

(* i and the functions it is nested in. *)
Enclosing(i) ==
    LET up[k \in 0 .. Len(file.functions)] == IF k = 0 THEN {} ELSE {k} \cup up[Fn(k).outer]
    IN  up[i]
Nested(i) == {k \in Functions : i \in Enclosing(k) /\ k # i}
Outermost(i) == CHOOSE k \in Enclosing(i) : Fn(k).outer = 0
TopLevel == {i \in Functions : Fn(i).class = 0 /\ Fn(i).outer = 0}
Methods(c) == {i \in Functions : Fn(i).class = c}
Named(S, name) == {i \in S : Fn(i).name = name}

(* A later definition of a name replaces an earlier one. *)
Last(S) == IF S = {} THEN 0 ELSE CHOOSE i \in S : \A k \in S : k <= i
ClassNamed(name) == Last({c \in Classes : ClassOf(c).name = name})

(* Classes before c that c inherits from. *)
Bases(c) == {b \in 1 .. c - 1 : ClassOf(b).name \in ClassOf(c).bases}
Ancestors(c) ==
    LET anc[k \in 0 .. Len(file.classes)] == {k} \cup UNION {anc[b] : b \in IF k = 0 THEN {} ELSE Bases(k)}
    IN  anc[c]
MethodOf(c, name) ==
    LET owners == {a \in Ancestors(c) \ {0} : Named(Methods(a), name) # {}}
    IN  IF owners = {} THEN 0 ELSE Last(Named(Methods(Last(owners)), name))

SelfClass(i) == Fn(Outermost(i)).class

(* The function a name means inside i: the innermost scope that defines it.*)
BareTarget(i, name) ==
    LET inside == Named({k \in Functions : Fn(k).outer \in Enclosing(i)}, name)
    IN  IF inside # {} THEN Last(inside) ELSE Last(Named(TopLevel, name))

Target(i, c) ==
    CASE c.how \in {"self", "executor", "handoff"} ->
           IF SelfClass(i) = 0 THEN 0 ELSE MethodOf(SelfClass(i), c.name)
      [] c.how \in {"class", "var"} ->
           IF ClassNamed(c.of) = 0 THEN 0 ELSE MethodOf(ClassNamed(c.of), c.name)
      [] c.how = "bare" -> BareTarget(i, c.name)

(* The kinds of calls the scanner follows in one file, and the others.     *)
Way(i, c) ==
    LET t == Target(i, c)
        own == c.how \in {"self", "executor"} \/ (c.how = "class" /\ ClassNamed(c.of) = SelfClass(i))
    IN  IF Fn(t).outer # 0 THEN "nested"
        ELSE IF own /\ Fn(t).class = SelfClass(i) THEN "method"
        ELSE IF c.how = "bare" \/ (c.how = "var" /\ Fn(t).class = ClassNamed(c.of)) THEN "local"
        ELSE "unseen"

-----------------------------------------------------------------------------
(* What makes a function a tool.  A list counts with what it holds when it *)
(* is passed.                                                              *)
Holds(k, var) ==
    LET content[j \in 0 .. Len(file.lists)] ==
          IF j = 0 THEN {}
          ELSE LET o == file.lists[j]
               IN  IF o.var # var \/ o.op \in {"direct", "pass"} THEN content[j - 1]
                   ELSE IF o.op = "grow" THEN content[j - 1] \cup o.elements ELSE o.elements
    IN  content[k]

Listed == UNION {LET o == file.lists[k]
                 IN  CASE o.op = "direct" -> o.elements
                       [] o.op = "pass" -> Holds(k, o.var)
                       [] OTHER -> {} : k \in 1 .. Len(file.lists)}

IsToolClass(c) == ToolBase \in ClassOf(c).bases

Offered(i) ==
    LET f == Fn(i)
    IN  \/ "tool" \in f.decorators
        \/ file.resource /\ "route" \in f.decorators
        \/ f.name \in file.wrapped \cup Listed
        \/ /\ f.class # 0 /\ IsToolClass(f.class)
           /\ f.name \in ToolMethods \cup ClassOf(f.class).appended

(* A dispatcher an agent's calls or actions are sent to by name or type. *)
Dispatcher(i) ==
    \E k \in {i} \cup Nested(i) :
       Fn(k).branch # "" \/ (Fn(i).action /\ Fn(k).payload)

Registered(i) == Offered(i) \/ Dispatcher(i)

(* Calling i, or being in it, passes an authorization. *)
Authorizes(i) ==
    \/ Fn(i).decorators \cap {"guard", "approval", "declared"} # {}
    \/ /\ Fn(i).class # 0
       /\ \E c \in Ancestors(Fn(i).class) \ {0} :
            ClassOf(c).declares \/ ClassOf(c).name \in file.permitted

RunInit ==
    /\ file \in Files
    /\ at = 0 /\ entry = 0 /\ hops = 0 /\ ways = {} /\ asked = FALSE

Invoke(i) ==
    /\ at = 0 /\ Registered(i)
    /\ at' = i /\ entry' = i /\ hops' = 0 /\ ways' = {} /\ asked' = Authorizes(i)

(* MaxDepth bounds the calls of a run: one more than the scanner follows.  *)
MaxDepth == 4

CallOut(c) ==
    LET t == Target(at, c)
    IN  /\ at # 0 /\ c \in Fn(at).calls /\ t # 0
        /\ at' = t
        /\ hops' = hops + (IF Way(at, c) = "nested" THEN 0 ELSE 1) /\ hops' <= MaxDepth
        /\ ways' = ways \cup {Way(at, c)}
        /\ asked' = (asked \/ Authorizes(t))
        /\ UNCHANGED entry

(* The running function hands a function inside it to a receiver's method, *)
(* which calls it back; a protecting one verifies first.                   *)
HandOver(i, receiver, is) ==
    /\ at # 0 /\ Fn(i).outer = at /\ receiver \in Fn(i).handed
    /\ is \in IF receiver = {} THEN {"?"} ELSE receiver
    /\ at' = i
    /\ ways' = ways \cup {"nested"}
    /\ asked' = (asked \/ is = Protector \/ Authorizes(i))
    /\ UNCHANGED <<entry, hops>>

Finish == at # 0 /\ at' = 0 /\ entry' = 0 /\ hops' = 0 /\ ways' = {} /\ asked' = FALSE

Run ==
    /\ \/ \E i \in Functions : Invoke(i)
       \/ at # 0 /\ \E c \in Fn(at).calls : CallOut(c)
       \/ \E i \in Functions : \E r \in Fn(i).handed : \E is \in r \cup {"?"} : HandOver(i, r, is)
       \/ Finish
    /\ UNCHANGED file

(* The functions that can run after at most k counted calls, k <= MaxDepth.*)
RunsWithin(k) ==
    LET open(S) == S \cup UNION {Nested(i) : i \in S}
        ran[n \in 0 .. MaxDepth] ==
          IF n = 0 THEN open({i \in Functions : Registered(i)})
          ELSE ran[n - 1] \cup open((UNION {{Target(i, c) : c \in Fn(i).calls} : i \in ran[n - 1]}) \ {0})
    IN  ran[k]
=============================================================================
