--------------------------- MODULE TypeScriptIndex ---------------------------
(***************************************************************************)
(* The index of TypeScript and JavaScript files:                           *)
(* actenon_scan/repository/ts_symbol_index.py, and what                    *)
(* cross_language_reach.py makes of names and handlers in TypeScript.      *)
(* Imports are resolved when all files are read.                           *)
(***************************************************************************)
EXTENDS Integers, FiniteSets, SequencesExt

VARIABLES
    files,    \* the TypeScript files, in the order of the scan
    read,     \* how many of them have been read
    symbols   \* the symbols registered: [qname, name, cls, file]

(* A call: its callee split at the dots, whether it has a bracket in it,   *)
(* and the functions it may run: none outside of the repository.           *)
Call == [callee : Seq(STRING) \ {<<>>}, computed : BOOLEAN, to : SUBSET (Nat \X Nat)]

(* Classes, functions, methods and named arrow functions; cls: the class   *)
(* around it.  A handler is an anonymous (name "") or named function       *)
(* expression registered as a tool, in function `inside` or in none (0).   *)
Function == [cls : STRING, name : STRING, calls : Seq(Call)]
Handler == [line : STRING, name : STRING, inside : Nat, calls : Seq(Call)]

(* An import of a name, of a module (default, namespace, require) or at    *)
(* run time (import()); the specifier starts with ./ (up = 0), with `up`   *)
(* times ../, or is the name of a package (~local).                        *)
Import == [kind : {"name", "module", "dynamic"}, local : BOOLEAN, up : Nat, path : Seq(STRING),
           name : STRING, bound : STRING]
File == [path : STRING, dir : Seq(STRING), module : Seq(STRING) \ {<<>>}, reads : BOOLEAN,
         functions : Seq(Function), imports : Seq(Import), handlers : Seq(Handler)]

Indexed == {i \in 1 .. read : files[i].reads}

-----------------------------------------------------------------------------
(* Names.  A module is its path without the extension; names of nested     *)
(* functions do not show it.                                               *)
Name(i, k) ==
    LET f == files[i].functions[k]
    IN  files[i].module \o (IF k = 0 THEN <<>> ELSE IF f.cls = "" THEN <<f.name>> ELSE <<f.cls, f.name>>)

HandlerName(i, n) ==
    LET h == files[i].handlers[n]
    IN  IF h.name # "" THEN Append(files[i].module, h.name)
        ELSE <<"<handler>">> \o Append(files[i].module, h.line)

Registered(i) ==
    symbols \o [k \in 1 .. Len(files[i].functions) |->
                  LET f == files[i].functions[k]
                  IN  [qname |-> Name(i, k), name |-> f.name, cls |-> f.cls, file |-> i]]

(* _index_call_sites leaves these out; the search for the calls of a       *)
(* handler does not.                                                       *)
Importing(call) == call.callee \in {<<"require">>, <<"import">>}

-----------------------------------------------------------------------------
Earliest(S) == CHOOSE n \in S : \A m \in S : n <= m
Latest(S) == CHOOSE n \in S : \A m \in S : m <= n

(* Of files that differ in their extension only, the first stands for all. *)
ModuleInfo(i) == Earliest({j \in Indexed : files[j].module = files[i].module})

QNames == {s.qname : s \in ToSet(symbols)}
NamedSo(name) == {n \in 1 .. Len(symbols) : symbols[n].name = name}

(* _resolve_module_path, <<>> if there is no such module: ./ is taken from *)
(* the root of the repository, ../ from the directory of the file.         *)
ModuleOf(j, imp) ==
    LET dir == files[j].dir
        path == SubSeq(dir, 1, IF imp.up = 0 THEN 0 ELSE Len(dir) - imp.up) \o imp.path
    IN  IF imp.local /\ imp.up <= Len(dir) /\ \E k \in Indexed : files[k].module = path
        THEN path ELSE <<>>

(* _find_symbol_in_module: methods too, and in the modules below.          *)
SymbolIn(module, name) ==
    LET within == {n \in NamedSo(name) : IsStrictPrefix(module, symbols[n].qname)}
    IN  IF within = {} THEN <<>> ELSE symbols[Earliest(within)].qname

(* _resolve_import: the symbol bound, <<>> if none, and the module its     *)
(* attributes are looked up in.                                            *)
Binding(j, imp) ==
    LET module == ModuleOf(j, imp)
        outside == IF imp.local THEN <<"./">> \o imp.path ELSE imp.path
    IN  CASE imp.kind = "dynamic" \/ module = <<>> -> [symbol |-> <<>>, module |-> outside]
          [] imp.kind = "module" /\ module # <<>> -> [symbol |-> <<>>, module |-> module]
          [] OTHER -> [symbol |-> SymbolIn(module, imp.name), module |-> module]

Unresolved == [qname |-> <<>>, certainty |-> "unresolved"]
Known(q, certainty) == [qname |-> q, certainty |-> certainty]

(* The only symbol of that name in the repository, registered once.        *)
Guess(name) ==
    LET all == NamedSo(name)
    IN  IF Cardinality(all) = 1 THEN Known(symbols[Earliest(all)].qname, "heuristic") ELSE Unresolved

(* resolve_call_target: a bare name is what it is bound to, else the last  *)
(* symbol of the name in the file, else a guess; a method of `this` is the *)
(* last one of the name in the file; a name behind others is looked up in  *)
(* what the first one is bound to, else guessed.                           *)
Resolve(i, call) ==
    LET j == ModuleInfo(i)
        head == call.callee[1]
        name == Last(call.callee)
        local == {n \in NamedSo(name) : symbols[n].file = j}
        imports == {n \in 1 .. Len(files[j].imports) : files[j].imports[n].bound = head}
        binding == Binding(j, files[j].imports[Latest(imports)])
        attribute == (IF binding.symbol # <<>> THEN binding.symbol ELSE binding.module) \o Tail(call.callee)
        bare == Len(call.callee) = 1
    IN  CASE call.computed -> Unresolved
          [] ~call.computed /\ head = "this" ->
               IF local # {} /\ symbols[Latest(local)].cls # "" THEN Known(symbols[Latest(local)].qname, "resolved")
               ELSE Unresolved
          [] ~call.computed /\ head # "this" /\ imports # {} /\ (bare \/ binding.module # <<>>) ->
               IF bare THEN IF binding.symbol # <<>> THEN Known(binding.symbol, "resolved") ELSE Unresolved
               ELSE IF attribute \in QNames THEN Known(attribute, "resolved") ELSE Unresolved
          [] OTHER ->
               IF bare /\ local # {} THEN Known(symbols[Latest(local)].qname, "resolved") ELSE Guess(name)

(* Unresolved calls of a name or through `this`: others are not disclosed. *)
LooksLocal(call) == Len(call.callee) = 1 \/ call.callee[1] = "this"

-----------------------------------------------------------------------------
(* What a call runs in TypeScript, where names tell it.  A name bound by   *)
(* an import, or reached through one, is looked up in the module meant;    *)
(* any other name means a function of that name, of the same file if there *)
(* is one and the name is bare or behind `this`.                           *)
Functions == UNION {{i} \X (1 .. Len(files[i].functions)) : i \in 1 .. Len(files)}
Imports == UNION {{i} \X ToSet(files[i].imports) : i \in 1 .. Len(files)}
NameOf(a) == files[a[1]].functions[a[2]].name
Called(q) == {a \in Functions : Name(a[1], a[2]) = q}

Meant(m) == SubSeq(files[m[1]].dir, 1, Len(files[m[1]].dir) - m[2].up) \o m[2].path
MeansModule(m) ==
    /\ m[2].local /\ m[2].kind # "dynamic" /\ m[2].up <= Len(files[m[1]].dir)
    /\ \E i \in 1 .. Len(files) : files[i].module = Meant(m)
Imported(m) == Append(Meant(m), m[2].name)
Base(m) == IF m[2].kind = "name" /\ Called(Imported(m)) # {} THEN Imported(m) ELSE Meant(m)

Bound(c) == {m \in Imports : m[1] = c[1] /\ m[2].bound = c[2].callee[1] /\ c[2].callee[1] # "this"}

(* The call runs the function called q, if there is one. *)
Runs(c, q) == Called(q) # {} => c[2].to # {} /\ c[2].to \subseteq Called(q)

RunsWhatItNames(c) ==
    LET name == Last(c[2].callee)
        bare == Len(c[2].callee) = 1
        own == {a \in Functions : a[1] = c[1] /\ NameOf(a) = name}
    IN  /\ c[2].to \subseteq Functions
        /\ c[2].to = {} => \A a \in Functions : NameOf(a) # name
        /\ c[2].computed \/ \A m \in Bound(c) : MeansModule(m) =>
             IF bare THEN m[2].kind = "name" => Runs(c, Imported(m)) ELSE Runs(c, Base(m) \o Tail(c[2].callee))
        /\ c[2].computed \/ Bound(c) # {} \/
             /\ \A a \in c[2].to : NameOf(a) = name
             /\ (bare \/ c[2].callee[1] = "this") /\ own # {} => c[2].to \subseteq own

(* TypeScript in which names tell enough: a name stands for one thing in   *)
(* its file, a module for one file; no package is named like a module, and *)
(* no handler like anything else; ./ is used in the root only; and what is *)
(* imported by name and is in the module at all is at its top.             *)
Plain(calls) ==
    /\ \A i, j \in 1 .. Len(files) :
         /\ files[i].module = files[j].module => i = j
         /\ \A h \in ToSet(files[i].handlers) : Append(files[i].module, h.name) # files[j].module
    /\ \A i \in 1 .. Len(files) : files[i].module[1] \notin {"./", "<handler>"}
    /\ \A a, b \in Functions : a[1] = b[1] /\ NameOf(a) = NameOf(b) => a = b
    /\ \A a \in Functions : \A i \in 1 .. Len(files) :
         /\ Name(a[1], a[2]) # files[i].module
         /\ \A h \in ToSet(files[i].handlers) : Append(files[i].module, h.name) # Name(a[1], a[2])
    /\ \A m, n \in Imports : m[1] = n[1] /\ m[2].bound = n[2].bound => m = n
    /\ \A m \in Imports :
         /\ m[2].local /\ m[2].up = 0 => files[m[1]].dir = <<>>
         /\ ~m[2].local => m[2].path # <<>> /\ \A i \in 1 .. Len(files) : files[i].module[1] # m[2].path[1]
         /\ m[2].kind = "name" => \A a \in Functions :
              NameOf(a) = m[2].name /\ IsStrictPrefix(Meant(m), Name(a[1], a[2])) => Name(a[1], a[2]) = Imported(m)
    /\ \A c \in calls : RunsWhatItNames(c)

(* Calls through a dot that are not followed are not disclosed, nor calls  *)
(* of require and import, which run nothing of the repository.  These are  *)
(* followed: of what an import makes known, and of a name there is once.   *)
Followed(c) ==
    /\ ~c[2].computed
    /\ IF Bound(c) = {} THEN Cardinality({a \in Functions : NameOf(a) = Last(c[2].callee)}) = 1
       ELSE \E m \in Bound(c) : MeansModule(m) /\ Called(Base(m) \o Tail(c[2].callee)) # {}

DotsTell(calls) ==
    \A c \in calls : c[2].to # {} => ~Importing(c[2]) /\ (LooksLocal(c[2]) \/ Followed(c))
=============================================================================
