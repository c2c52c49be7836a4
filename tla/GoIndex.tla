------------------------------- MODULE GoIndex -------------------------------
(***************************************************************************)
(* The index of Go files: actenon_scan/repository/go_symbol_index.py, and  *)
(* what cross_language_reach.py makes of names and handlers in Go.         *)
(* Everything is known by name only.                                       *)
(***************************************************************************)
EXTENDS Integers, FiniteSets, SequencesExt

VARIABLES
    files,    \* the Go files, in the order of the scan
    read,     \* how many of them have been read
    symbols   \* the symbols registered: [qname, name, recv, file]

(* A call: its last name, how it is written, whether the first letter is a *)
(* capital, and the functions it may run: none outside of the repository.  *)
Call == [form : {"bare", "dotted", "computed"}, name : STRING, capital : BOOLEAN,
         to : SUBSET (Nat \X Nat)]

(* A handler is a function literal registered as a tool, in function       *)
(* `inside` of its file, or in none (0).                                   *)
Handler == [line : STRING, inside : Nat, calls : Seq(Call)]
Function == [recv : STRING, name : STRING, calls : Seq(Call)]
File == [path : STRING, dir : Seq(STRING), reads : BOOLEAN, functions : Seq(Function),
         handlers : Seq(Handler)]

Indexed == {i \in 1 .. read : files[i].reads}

-----------------------------------------------------------------------------
(* Names.  A package is its directory; a method has its receiver's type in *)
(* its name, a handler its package, or file in the root, and its line.     *)
Name(i, k) ==
    LET f == files[i].functions[k]
    IN  IF k = 0 THEN IF files[i].dir = <<>> THEN <<"<package>">> ELSE files[i].dir
        ELSE files[i].dir \o (IF f.recv = "" THEN <<>> ELSE <<f.recv>>) \o <<f.name>>

HandlerName(i, n) ==
    <<"<handler>">> \o (IF files[i].dir = <<>> THEN <<files[i].path>> ELSE files[i].dir)
      \o <<files[i].handlers[n].line>>

(* Of two functions of one name in a package the first is registered.      *)
SymbolOf(i, k) ==
    LET f == files[i].functions[k]
    IN  [qname |-> Name(i, k), name |-> f.name, recv |-> f.recv, file |-> i]

Registered(i) ==
    LET known[k \in 0 .. Len(files[i].functions)] ==
          IF k = 0 THEN symbols
          ELSE IF \E s \in ToSet(known[k - 1]) : s.qname = Name(i, k) THEN known[k - 1]
          ELSE Append(known[k - 1], SymbolOf(i, k))
    IN  known[Len(files[i].functions)]

(* _go_find_enclosing_function_qname_for_line; an unread file has no names. *)
Caller(i, k) == IF i \in Indexed THEN Name(i, k) ELSE <<"<package>">>

-----------------------------------------------------------------------------
(* The file a bare name is looked up in: the first of the package, and in  *)
(* the root directory the file of the call itself.                         *)
ModuleInfo(i) ==
    IF files[i].dir = <<>> THEN i
    ELSE LET same == {j \in Indexed : files[j].dir = files[i].dir} IN CHOOSE j \in same : \A k \in same : j <= k

Named(S, name) == {s \in S : s.name = name}
Unresolved == [qname |-> <<>>, certainty |-> "unresolved"]
Resolved(S, certainty) == [qname |-> (CHOOSE s \in S : TRUE).qname, certainty |-> certainty]

(* Mutant of Resolve: the first of several methods is taken.               *)
ResolveFirst(i, call) ==
    LET all == Named(ToSet(symbols), call.name)
        local == {s \in all : s.file = ModuleInfo(i)}
    IN  CASE call.form = "bare" /\ Cardinality(local) = 1 -> Resolved(local, "resolved")
          [] call.form = "dotted" /\ all # {} -> Resolved(all, "heuristic")
          [] OTHER -> Unresolved

(* resolve_call_target: a bare name in the file, functions and methods     *)
(* alike, then among all functions; a name after a dot among all methods,  *)
(* then among all functions; a choice of several is no answer.             *)
Resolve(i, call) ==
    LET all == Named(ToSet(symbols), call.name)
        local == {s \in all : s.file = ModuleInfo(i)}
        functions == {s \in all : s.recv = ""}
        methods == all \ functions
        one(S) == Cardinality(S) = 1
    IN  CASE call.form = "bare" /\ one(local) -> Resolved(local, "resolved")
          [] call.form = "bare" /\ local = {} /\ one(functions) -> Resolved(functions, "heuristic")
          [] call.form = "dotted" /\ one(methods) -> Resolved(methods, "heuristic")
          [] call.form = "dotted" /\ ~one(methods) /\ one(functions) -> Resolved(functions, "heuristic")
          [] OTHER -> Unresolved

(* Unresolved calls through a capital are taken for library calls.  (What  *)
(* is called begins with "<" in no Go program, as the code allows for.)    *)
LooksLocal(call) == call.form = "bare" \/ ~call.capital

-----------------------------------------------------------------------------
(* Go code in which names tell enough.  A call c of file c[1] runs what it *)
(* names: by a bare name a function of its package, after a dot a function *)
(* or method of that name; outside of the repository nothing that has a    *)
(* name of it.                                                             *)
Functions == UNION {{i} \X (1 .. Len(files[i].functions)) : i \in 1 .. Len(files)}
FunctionAt(a) == files[a[1]].functions[a[2]]

RunsWhatItNames(c) ==
    /\ c[2].to = {} => \A a \in Functions : FunctionAt(a).name # c[2].name
    /\ c[2].to \subseteq Functions
    /\ c[2].form # "computed" => \A a \in c[2].to : FunctionAt(a).name = c[2].name
    /\ c[2].form = "bare" => \A a \in c[2].to : FunctionAt(a).recv = "" /\ files[a[1]].dir = files[c[1]].dir

(* No function is named like a method, nothing is called through a         *)
(* capital, and no directory is called <handler>.                          *)
Plain(calls) ==
    /\ \A a, b \in Functions :
         FunctionAt(a).name = FunctionAt(b).name => (FunctionAt(a).recv = "") = (FunctionAt(b).recv = "")
    /\ \A c \in calls : RunsWhatItNames(c) /\ ~c[2].capital
    /\ \A i \in 1 .. Len(files) : files[i].dir # <<>> => files[i].dir[1] # "<handler>"
=============================================================================
