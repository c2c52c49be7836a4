----------------------------- MODULE SymbolIndex -----------------------------
(***************************************************************************)
(* RepositoryIndex of actenon_scan/repository/symbol_index.py and          *)
(* build_call_graph of call_graph.py: the definitions of all files, the    *)
(* names every module's imports bind, and the target of every call.        *)
(*                                                                         *)
(* A qualified name is the sequence of its segments.  A file's syntax tree *)
(* is abstracted to its definitions, imports and calls, each in the order  *)
(* ast.walk yields them; a call keeps the position of its expression,      *)
(* which f() and the outer call of f().strip() share.                      *)
(***************************************************************************)
EXTENDS Integers, SequencesExt, Filtering

CONSTANTS
    Files,       \* the files given to the layer
    Names,       \* identifiers and path segments; "" for none
    Programs     \* the repositories to analyse: [Files -> File]

Certainty == {"resolved", "heuristic", "unresolved"}

QName == Seq(Names)

(* cls: the class a method is defined in, "" at top level.                 *)
Def == {d \in [kind : {"function", "class", "method"}, cls : Names, name : Names, tool : BOOLEAN] :
          (d.kind = "method") = (d.cls # "")}

(* form "import": import module as bound; "from": from module import name  *)
(* as bound; "star": from module import *.  level counts leading dots.     *)
Import == [form : {"import", "from", "star"}, level : Nat, module : QName,
           name : Names, bound : Names]

(* scope: the innermost enclosing function, with its class.  callee: the   *)
(* segments of f, x.f, x.y.f; "()" is a receiver that is no name.          *)
Call == [scope : QName, callee : QName, pos : Nat]

File == [module : QName \ {<<>>}, parses : {"yes", "no", "crash"},
         defs : Seq(Def), imports : Seq(Import), calls : Seq(Call)]

ASSUME ProgramAssumption == \A p \in Programs : p \in [Files -> File]

VARIABLES
    program,      \* constant
    waiting,      \* files not added yet
    registered,   \* symbols in the order they were registered
    pending,      \* imports whose resolution is deferred: <<file, import>>
    bindings      \* file -> name -> target of the import that binds it

indexVars == <<program, waiting, registered, pending, bindings>>

(* The result of resolving a name: symbol tells whether it is a known one. *)
Target(qname, certainty, symbol, module) ==
    [qname |-> qname, certainty |-> certainty, symbol |-> symbol, module |-> module]

Unbound == Target(<<>>, "unresolved", FALSE, <<"unbound">>)

Added == Files \ waiting

SymbolOf(f, def) ==
    LET cls == IF def.cls = "" THEN <<>> ELSE program[f].module \o <<def.cls>>
        base == IF def.cls = "" THEN program[f].module ELSE cls
    IN  [qname |-> Append(base, def.name), name |-> def.name, kind |-> def.kind,
         cls |-> cls, file |-> f, tool |-> def.tool]

Known(q) == \E i \in 1 .. Len(registered) : registered[i].qname = q

(* _symbols_by_local_name[name] *)
Candidates(name) == Kept(registered, {s \in ToSet(registered) : s.name = name})

(* _symbols_by_qname[q] and a module's local_symbols[name] are dicts: the  *)
(* symbol registered last has the key.                                     *)
LastOf(seq) == seq[Len(seq)]

LookupSymbol(q) == LastOf(Kept(registered, {s \in ToSet(registered) : s.qname = q}))

Locals(f, name) == Kept(registered, {s \in ToSet(registered) : s.file = f /\ s.name = name})

-----------------------------------------------------------------------------
Init ==
    /\ program \in Programs
    /\ waiting = Files
    /\ registered = <<>>
    /\ pending = <<>>
    /\ bindings = [f \in Files |-> [n \in Names |-> Unbound]]

(* Top-level functions and classes first, then the methods of each class.  *)
SymbolsIn(f) ==
    LET defs == program[f].defs
        methods == {d \in ToSet(defs) : d.kind = "method"}
        ordered == Kept(defs, ToSet(defs) \ methods) \o Kept(defs, methods)
    IN  [i \in 1 .. Len(ordered) |-> SymbolOf(f, ordered[i])]

(* UnicodeDecodeError, OSError and SyntaxError: the file is left out.      *)
SkipFile(f) ==
    /\ f \in waiting /\ program[f].parses = "no"
    /\ waiting' = waiting \ {f}
    /\ UNCHANGED <<program, registered, pending, bindings>>

-----------------------------------------------------------------------------
(* _resolve_module_dotted: <<found, module>>.  The name of the importing   *)
(* file itself, package or not, is what the dots of a relative import are  *)
(* counted from, and the result is not looked up.                          *)
ModuleDotted(f, imp) ==
    LET package == program[f].module
        up == imp.level - 1
    IN  IF imp.level > 0
        THEN IF up > 0 /\ up >= Len(package) THEN <<FALSE, imp.module>>
             ELSE <<TRUE, SubSeq(package, 1, Len(package) - up) \o imp.module>>
        ELSE <<\E g \in Added : program[g].parses = "yes" /\ program[g].module = imp.module,
               imp.module>>

IsModule(q) == Known(q) /\ LookupSymbol(q).kind = "module"

(* _module_qname_for_symbol *)
ModuleOf(sym) ==
    IF sym.cls # <<>> THEN SubSeq(sym.cls, 1, Len(sym.cls) - 1)
    ELSE SubSeq(sym.qname, 1, Len(sym.qname) - 1)

(* What an import statement binds. *)
ImportTarget(f, imp) ==
    LET dotted == ModuleDotted(f, imp)
        q == Append(dotted[2], imp.name)
    IN  CASE imp.form = "import" ->
               Target(imp.module,
                      IF IsModule(imp.module) \/ IsModule(SubSeq(imp.module, 1, 1))
                      THEN "resolved" ELSE "heuristic",
                      FALSE, imp.module)
          [] imp.form = "star" -> Target(Append(imp.module, "*"), "unresolved", FALSE, imp.module)
          [] imp.form = "from" /\ dotted[1] /\ Known(q) ->
               Target(q, "resolved", TRUE, ModuleOf(LookupSymbol(q)))
          [] imp.form = "from" /\ ~(dotted[1] /\ Known(q)) ->
               Target(q, "heuristic", FALSE, dotted[2])

(* Mutant of AddFile: imports are resolved while the file is added. *)
AddFileEagerly(f) ==
    /\ f \in waiting /\ program[f].parses = "yes"
    /\ waiting' = waiting \ {f}
    /\ registered' = registered \o SymbolsIn(f)
    /\ UNCHANGED <<program, pending>>
    /\ bindings' = [bindings EXCEPT ![f] =
         [n \in Names |->
            LET own == Kept(program[f].imports, {i \in ToSet(program[f].imports) : i.bound = n})
            IN  IF own = <<>> THEN Unbound ELSE ImportTarget(f, LastOf(own))]]

(* add_file: imports are only collected. *)
AddFile(f) ==
    /\ f \in waiting /\ program[f].parses = "yes"
    /\ waiting' = waiting \ {f}
    /\ registered' = registered \o SymbolsIn(f)
    /\ pending' = pending \o [i \in 1 .. Len(program[f].imports) |-> <<f, program[f].imports[i]>>]
    /\ UNCHANGED <<program, bindings>>

(* finalize: all imports of all files, the last one to bind a name wins,   *)
(* a star import only binds a name no other import binds (setdefault).     *)
Finalize ==
    /\ waiting = {}
    /\ bindings' =
         [f \in Files |-> [n \in Names |->
            LET all == Kept(pending, {p \in ToSet(pending) : p[1] = f /\ p[2].bound = n})
                named == Kept(all, {p \in ToSet(all) : p[2].form # "star"})
            IN  CASE named # <<>> -> ImportTarget(f, LastOf(named)[2])
                  [] named = <<>> /\ all # <<>> -> ImportTarget(f, all[1][2])
                  [] OTHER -> bindings[f][n]]]
    /\ pending' = <<>>
    /\ UNCHANGED <<program, waiting, registered>>

-----------------------------------------------------------------------------
(* _resolve_call_target for a bare name.                                   *)
ResolveName(f, name) ==
    LET bound == bindings[f][name]
        local == Locals(f, name)
        named == Candidates(name)
    IN  CASE bound # Unbound ->
               IF bound.symbol THEN bound ELSE Target(bound.qname, "unresolved", FALSE, <<>>)
          [] bound = Unbound /\ local # <<>> ->
               Target(LastOf(local).qname, "resolved", TRUE, <<>>)
          [] bound = Unbound /\ local = <<>> /\ Len(named) = 1 ->
               Target(named[1].qname, "heuristic", TRUE, <<>>)
          [] OTHER -> Target(<<>>, "unresolved", FALSE, <<>>)

(* self.attr: the method of that name the module's table holds.            *)
ResolveSelf(f, attr) ==
    LET local == Locals(f, attr)
    IN  IF local # <<>> /\ LastOf(local).cls # <<>>
        THEN Target(LastOf(local).qname, "resolved", TRUE, <<>>)
        ELSE Target(<<>>, "unresolved", FALSE, <<>>)

(* x.f and x.y.f: only through an import that is resolved.                 *)
ResolveAttribute(f, callee) ==
    LET bound == bindings[f][callee[1]]
        q == bound.module \o Tail(callee)
    IN  CASE bound.certainty # "resolved" -> Target(<<>>, "unresolved", FALSE, <<>>)
          [] bound.certainty = "resolved" /\ Known(q) -> Target(q, "resolved", TRUE, <<>>)
          [] bound.certainty = "resolved" /\ ~Known(q) ->
               Target(q, IF Len(callee) = 2 THEN "heuristic" ELSE "unresolved", FALSE, <<>>)

(* resolve_call_target: the file is found by its module name.              *)
FilesOf(module) == {f \in Added : program[f].parses = "yes" /\ program[f].module = module}
FileOf(module) == CHOOSE f \in FilesOf(module) : TRUE

ResolveCall(module, callee) ==
    LET here == FilesOf(module)
        f == FileOf(module)
    IN  CASE here = {} \/ callee[1] = "()" -> Target(<<>>, "unresolved", FALSE, <<>>)
          [] here # {} /\ Len(callee) = 1 /\ callee[1] # "()" -> ResolveName(f, callee[1])
          [] here # {} /\ Len(callee) = 2 /\ callee[1] = "self" -> ResolveSelf(f, callee[2])
          [] OTHER -> ResolveAttribute(f, callee)

(* _module_qname_of_caller: the last segment is dropped, no more.          *)
ModuleOfCaller(caller) ==
    IF Len(caller) = 1 THEN caller ELSE SubSeq(caller, 1, Len(caller) - 1)

(* _find_call: the first call of the walk at the site's position.          *)
Relocated(f, call) ==
    LET same == Kept(program[f].calls, {c \in ToSet(program[f].calls) : c.pos = call.pos})
    IN  same[1]

(* The edge recorded for a call site, its callee's text where the target   *)
(* has no name.                                                            *)
EdgeOf(f, call) ==
    LET caller == program[f].module \o call.scope
        target == ResolveCall(ModuleOfCaller(caller), Relocated(f, call).callee)
    IN  [caller |-> caller,
         callee |-> IF target.qname # <<>> THEN target.qname ELSE call.callee,
         certainty |-> target.certainty, file |-> f, site |-> call]

(* build_call_graph: one edge for every call site of the files that parse. *)
CallGraph ==
    UNION {{EdgeOf(f, program[f].calls[i]) : i \in 1 .. Len(program[f].calls)} :
             f \in {g \in Files : program[g].parses = "yes"}}
=============================================================================
