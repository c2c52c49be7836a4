-------------------------- MODULE AuthorityInventory --------------------------
(***************************************************************************)
(* The authority inventory and its diff (actenon_scan/authority: python.py *)
(* and diff.py).  A small abstract interpreter says where every request    *)
(* and every write of a program may go, reading each statement once and in *)
(* no order; the diff of two inventories is what a reviewer is shown of a  *)
(* change.  Afterwards the changed program runs.                           *)
(***************************************************************************)
EXTENDS AuthorityProgram

CONSTANTS
    Changes,        \* the changes considered: <<program before, program after>>
    FileOrder,      \* the functions in the order the file defines them
    Secrets,        \* the configuration variables with a secret's name
    MaxDepth,       \* callers followed from an effect
    MaxContexts     \* bindings of one function

VARIABLES
    before, after,  \* the two programs compared
    pending,        \* the calls of each still to be read
    evidence,       \* the entries of each inventory
    diff,           \* added, removed and unresolved entries
    performed       \* the effects of one run of the changed program

vars == <<before, after, pending, evidence, diff, performed>>

-----------------------------------------------------------------------------
(* A value: a string of atoms with the places it comes from, a client      *)
(* object with its base, None, or unknown; equal values have equal sources.*)
Value(k, parts, src) == [k |-> k, parts |-> parts, src |-> src]

UnknownValue == Value("unknown", <<Hole("")>>, {})

Known(v) == v.k = "str" /\ ~HasHole(v.parts)

(* _as_str *)
Parts(v) == IF v.k = "client" THEN <<Hole("")>> ELSE v.parts

(* Mutant of Join: the first of several definitions stands for all.        *)
JoinFirst(vals) == IF vals = <<>> THEN UnknownValue ELSE vals[1]

(* _join: None is no alternative; different strings never join, clients    *)
(* keep the base of the first if they agree on it.                         *)
Join(vals) ==
    LET some == SelectSeq(vals, LAMBDA v : v.k # "none")
        all == IF some = <<>> THEN vals ELSE some
        kept == ToSet(all)
    IN  CASE Cardinality(kept) = 1 -> CHOOSE v \in kept : TRUE
          [] Cardinality(kept) > 1 /\ \A v \in kept : v.k = "client" ->
               Value("client", IF all[1].parts = <<>> THEN <<>> ELSE <<Hole("")>>, {})
          [] OTHER -> UnknownValue

(* _merge_parts does nothing to atoms; _join_url puts one slash between    *)
(* two known parts.                                                        *)
JoinUrl(base, url) ==
    LET known == (base # <<>> => ~Last(base).hole) /\ (url # <<>> => ~url[1].hole)
        ends == base # <<>> /\ Last(base) = Slash
        starts == url # <<>> /\ url[1] = Slash
    IN  base \o (CASE known /\ ends /\ starts -> Tail(url)
                   [] known /\ ~ends /\ ~starts /\ url # <<>> -> <<Slash>> \o url
                   [] OTHER -> url)

(* The expressions _record_assign keeps for a name of f: an augmented or   *)
(* loop assignment counts as a definition that is None.                    *)
NoneExpr == Expr("none", "", <<>>, 0, <<>>)

Defs(program, f, n) ==
    FlattenSeq([i \in 1 .. Len(program[f].body) |->
      LET s == program[f].body[i]
      IN  CASE s.target = n /\ s.op = "assign" -> s.of
            [] s.target = n /\ s.op = "aug" -> <<NoneExpr>> \o s.of
            [] s.target = n /\ s.op = "rebind" -> <<NoneExpr, NoneExpr>>
            [] OTHER -> <<>>])

(* _own_returns *)
Returns(program, f) ==
    LET all == SelectSeq(program[f].body, LAMBDA s : s.op = "return")
    IN  [i \in 1 .. Len(all) |-> all[i].of[1]]

NoBinding == [n \in {} |-> UnknownValue]

(* _env: the value of a secret is never written down.                      *)
EnvValue(n, line, default) ==
    CASE n \in DOMAIN Env /\ n \in Secrets -> UnknownValue
      [] n \in DOMAIN Env /\ n \notin Secrets -> Value("str", Env[n], {<<n, line>>})
      [] n \notin DOMAIN Env /\ Known(default) -> [default EXCEPT !.src = @ \cup {<<n, line>>}]
      [] n \notin DOMAIN Env /\ ~Known(default) -> default

RECURSIVE Eval(_, _, _, _, _, _), LookUp(_, _, _, _, _, _), Returned(_, _, _, _, _, _)

(* _bind_args: what a call passes, evaluated where it is made. *)
BindArgs(program, f, bind, e, active, depth) ==
    LET params == program[e.n].params
        given == {i \in 1 .. Len(e.of) : i <= Len(params)}
    IN  [p \in {params[i] : i \in given} |->
           Eval(program, f, bind, e.of[CHOOSE i \in given : params[i] = p], active, depth)]

(* _eval_defs; depth is that of the caller.                                *)
EvalDefs(program, f, bind, n, active, depth) ==
    LET defs == Defs(program, f, n)
        vals == [i \in 1 .. Len(defs) |-> Eval(program, f, bind, defs[i], active, depth + 1)]
    IN  IF depth >= 12 THEN UnknownValue
        ELSE IF Len(vals) # 1 THEN Join(vals)
        ELSE IF vals[1].k = "str" THEN [vals[1] EXCEPT !.src = @ \cup {<<n, defs[1].line>>}] ELSE vals[1]

(* lookup: the binding of the call path, the definitions of the function,  *)
(* its parameter, the module's.  A name defined by itself is unknown.      *)
LookUp(program, f, bind, n, active, depth) ==
    LET key == <<f, bind, n>>
        local == f # "module"
    IN  CASE key \in active -> UnknownValue
          [] key \notin active /\ local /\ n \in DOMAIN bind -> bind[n]
          [] key \notin active /\ local /\ n \notin DOMAIN bind /\ Defs(program, f, n) # <<>> ->
               EvalDefs(program, f, bind, n, active \cup {key}, depth)
          [] key \notin active /\ local /\ n \notin DOMAIN bind /\ Defs(program, f, n) = <<>>
             /\ n \in ToSet(program[f].params) -> Value("unknown", <<Hole(n)>>, {})
          [] OTHER -> IF Defs(program, "module", n) = <<>> THEN UnknownValue
                      ELSE EvalDefs(program, "module", NoBinding, n, active \cup {key}, depth)

(* _eval_call, of a local function: what its returns join to.              *)
Returned(program, f, bind, e, active, depth) ==
    LET key == <<"return", BindArgs(program, f, bind, e, active, depth), e.n>>
        returns == Returns(program, e.n)
    IN  IF key \in active \/ returns = <<>> \/ depth >= 6 THEN UnknownValue
        ELSE Join([i \in 1 .. Len(returns) |->
                     Eval(program, e.n, key[2], returns[i], active \cup {key}, depth + 1)])

(* eval *)
Eval(program, f, bind, e, active, depth) ==
    LET sub(i) == Eval(program, f, bind, e.of[i], active, depth)
        strings == {i \in 1 .. Len(e.of) : Known(sub(i))}
    IN  CASE e.k = "lit" -> Value("str", e.s, {<<"", e.line>>})
          [] e.k = "none" -> Value("none", <<Hole("")>>, {})
          [] e.k = "name" -> LookUp(program, f, bind, e.n, active, depth)
          [] e.k = "cat" -> IF "client" \in {sub(1).k, sub(2).k} THEN UnknownValue
                            ELSE Value("str", Parts(sub(1)) \o Parts(sub(2)), sub(1).src \cup sub(2).src)
          [] e.k = "getenv" -> EnvValue(e.n, e.line, IF e.of = <<>> THEN UnknownValue ELSE sub(1))
          [] e.k = "or" -> IF strings = {} THEN UnknownValue ELSE sub(CHOOSE i \in strings : \A j \in strings : i <= j)
          [] e.k = "ifexp" -> IF sub(1) = sub(2) THEN sub(1) ELSE UnknownValue
          [] e.k = "client" -> Value("client", IF e.of = <<>> THEN <<>> ELSE Parts(sub(1)), {})
          [] e.k = "call" -> Returned(program, f, bind, e, active, depth)

-----------------------------------------------------------------------------
(* The expressions of a statement, and the calls of f in file order, each  *)
(* with the function that makes it.                                        *)
RECURSIVE CallsIn(_)
CallsIn(e) ==
    (IF e.k = "call" THEN <<e>> ELSE <<>>) \o FlattenSeq([i \in 1 .. Len(e.of) |-> CallsIn(e.of[i])])

CallSites(program, f) ==
    LET made(g) == IF g \notin DOMAIN program THEN <<>>
                   ELSE FlattenSeq([i \in 1 .. Len(program[g].body) |->
                          LET es == program[g].body[i].of
                              calls == FlattenSeq([j \in 1 .. Len(es) |-> CallsIn(es[j])])
                          IN  [c \in 1 .. Len(calls) |-> <<g, calls[c]>>]])
    IN  SelectSeq(FlattenSeq([g \in 1 .. Len(FileOrder) |-> made(FileOrder[g])]), LAMBDA c : c[2].n = f)

(* contexts: the bindings the callers give, one per call path, up to       *)
(* MaxDepth callers.  Past MaxContexts only the first path of every        *)
(* further call is kept.                                                   *)
RECURSIVE Contexts(_, _, _, _)
Contexts(program, f, depth, inProgress) ==
    LET sites == CallSites(program, f)
        ends == program[f].tool \/ sites = <<>> \/ depth >= MaxDepth \/ f \in inProgress
        of(c) == LET callers == IF c[1] = "module" THEN << [bind |-> NoBinding, chain |-> <<"module">>] >>
                                ELSE Contexts(program, c[1], depth + 1, inProgress \cup {f})
                 IN  [i \in 1 .. Len(callers) |->
                        [bind |-> BindArgs(program, c[1], callers[i].bind, c[2], {}, 0),
                         chain |-> Append(callers[i].chain, f)]]
        kept(have) == IF Len(have) > MaxContexts THEN 1 ELSE MaxContexts + 1 - Len(have)
        add(have, c) == have \o SubSeq(of(c), 1, IF kept(have) < Len(of(c)) THEN kept(have) ELSE Len(of(c)))
    IN  IF f = "module" THEN << [bind |-> NoBinding, chain |-> <<"module">>] >>
        ELSE IF ends THEN << [bind |-> NoBinding, chain |-> <<f>>] >>
        ELSE FoldLeft(add, <<>>, sites)

-----------------------------------------------------------------------------
(* effect_of: a request through something that is no known client is none, *)
(* nor is a statement known to change nothing.                             *)
IsEffect(program, f, bind, s) ==
    LET of(i) == Eval(program, f, bind, s.of[i], {}, 0)
    IN  /\ s.op = "http" /\ Len(s.of) = 2 => of(2).k = "client"
        /\ s.op = "sql" => MayMutate(Parts(of(1)))

(* _http_effect: the url joined to the client's base, unless it is absolute. *)
AtBase(base, url) ==
    IF base = <<>> \/ (url # <<>> /\ ~url[1].hole /\ url[1].text \in Hosts) THEN url ELSE JoinUrl(base, url)

(* The string of the effect: the path, or the url. *)
Target(program, f, bind, s) ==
    LET of(i) == Eval(program, f, bind, s.of[i], {}, 0)
    IN  AtBase(IF Len(s.of) = 1 THEN <<>> ELSE of(2).parts, Parts(of(1)))

(* _evidence *)
Classified(op, method, string) ==
    CASE op = "http" -> ClassifyHttp(method, string)
      [] op = "write" -> ClassifyPath(string)
      [] op = "github" -> ClassifyRepository(string)
      [] op = "exec" -> ClassifyProgram(string)
      [] op = "sql" -> ClassifyStatement(string)
      [] op = "mail" -> ClassifyServer(string)

(* run, for one call: read in every context when the base reading depends  *)
(* on a parameter.  Of entries with one action, resource and call path     *)
(* only the first is kept.                                                 *)
Read(program, site) ==
    LET f == site[1]
        s == program[f].body[site[2]]
        dependent == \E a \in ToSet(Target(program, f, NoBinding, s)) : a.hole /\ a.text # ""
        contexts == IF dependent THEN Contexts(program, f, 0, {}) ELSE << [bind |-> NoBinding, chain |-> <<f>>] >>
        entry(c, url) == Classified(s.op, s.method, url) @@ [site |-> site, url |-> url, chain |-> c.chain]
        made(c) == IF IsEffect(program, f, c.bind, s) THEN {entry(c, Target(program, f, c.bind, s))} ELSE {}
        key(e) == <<e.action, e.resource, e.chain>>
        add(have, c) == have \cup {e \in made(c) : \A h \in have : key(h) # key(e)}
    IN  IF IsEffect(program, f, NoBinding, s) THEN FoldLeft(add, {}, contexts) ELSE {}

Effects(program) ==
    LET of(f) == IF f \notin DOMAIN program THEN <<>>
                 ELSE SelectSeq([i \in 1 .. Len(program[f].body) |-> <<f, i>>],
                                LAMBDA site : program[f].body[site[2]].op \in EffectOps)
    IN  FlattenSeq([g \in 1 .. Len(FileOrder) |-> of(FileOrder[g])])

-----------------------------------------------------------------------------
(* Mutant of DiffKey: without the resource.                                *)
DiffKeyByAction(e) == <<e.action, e.state>>

(* _diff_key: an unresolved entry is itself only at its own call.          *)
DiffKey(e) == <<e.action, IF e.resource = <<>> THEN <<e.site>> ELSE e.resource, e.state>>

NoDiff == [added |-> {}, removed |-> {}, unresolved |-> {}, made |-> FALSE]

Init ==
    /\ \E change \in Changes : before = change[1] /\ after = change[2]
    /\ pending = [before |-> Effects(before), after |-> Effects(after)]
    /\ evidence = [before |-> {}, after |-> {}]
    /\ diff = NoDiff
    /\ performed = {}

(* extract_authority of the old and then of the new program.               *)
Extract ==
    \E side \in {"before", "after"} :
      /\ pending[side] # <<>>
      /\ side = "after" => pending.before = <<>>
      /\ evidence' = [evidence EXCEPT ![side] =
                         @ \cup Read(IF side = "before" THEN before ELSE after, Head(pending[side]))]
      /\ pending' = [pending EXCEPT ![side] = Tail(@)]
      /\ UNCHANGED <<before, after, diff, performed>>

(* diff_authority *)
Compare ==
    /\ pending.before = <<>> /\ pending.after = <<>>
    /\ ~diff.made
    /\ diff' = [added |-> {e \in evidence.after : \A b \in evidence.before : DiffKey(b) # DiffKey(e)},
                removed |-> {e \in evidence.before : \A a \in evidence.after : DiffKey(a) # DiffKey(e)},
                unresolved |-> {e \in evidence.after : e.state = "UNRESOLVED"},
                made |-> TRUE]
    /\ UNCHANGED <<before, after, pending, evidence, performed>>

(* The changed program is imported and one of its tools is called.         *)
Perform ==
    /\ diff.made /\ performed = {}
    /\ performed' \in Runs(after)
    /\ UNCHANGED <<before, after, pending, evidence, diff>>

Next == Extract \/ Compare \/ Perform

Spec == Init /\ [][Next]_vars

-----------------------------------------------------------------------------
(* What the string of a template can be when its holes stand for anything. *)
Paths(string) == FlattenSeq([i \in 1 .. Len(Segments(string)) |-> <<Slash>> \o Segments(string)[i]])

Instance(url, string) ==
    LET pattern == Paths(url)
        full == Paths(string)
        upto[i \in 0 .. Len(pattern), j \in 0 .. Len(full)] ==
          IF i = 0 THEN j = 0
          ELSE IF pattern[i].hole THEN upto[i - 1, j] \/ (j > 0 /\ upto[i, j - 1])
               ELSE j > 0 /\ pattern[i] = full[j] /\ upto[i - 1, j - 1]
    IN  upto[Len(pattern), Len(full)]

RECURSIVE SafeOr(_)
SafeOr(e) ==
    /\ \A i \in 1 .. Len(e.of) : SafeOr(e.of[i])
    /\ e.k = "or" => \A i \in 1 .. Len(e.of) - 1 :
                       e.of[i].k = "getenv" /\ e.of[i].of = <<>> /\ e.of[i].n \notin Secrets

(* The programs the reading is right for: a function leaves its parameters *)
(* alone; a loop variable has no other definition; the earlier operands of *)
(* or are configuration variables; a client is a known one, and one with a *)
(* base is given relative urls; no function is reached in more than        *)
(* MaxContexts ways.                                                       *)
Plain(program) ==
    \A f \in DOMAIN program :
      LET body == program[f].body
          bound(op) == {body[i].target : i \in {j \in 1 .. Len(body) : body[j].op = op}}
      IN  /\ ToSet(program[f].params) \cap UNION {bound(op) : op \in {"assign", "aug", "rebind"}} = {}
          /\ bound("rebind") \cap (bound("assign") \cup bound("aug")) = {}
          /\ \A i \in 1 .. Len(body) : \A j \in 1 .. Len(body[i].of) : SafeOr(body[i].of[j])
          /\ \A i \in 1 .. Len(body) :
               body[i].op = "http" /\ Len(body[i].of) = 2 =>
                 /\ IsEffect(program, f, NoBinding, body[i])
                 /\ ~Parts(Eval(program, f, NoBinding, body[i].of[1], {}, 0))[1].hole
          /\ Len(Contexts(program, f, 0, {})) <= MaxContexts

(* Every effect of a run of such a program is an instance of an entry of   *)
(* its call, or the call is reported as unresolved: the interpreter reads  *)
(* statements out of order, joins definitions and follows callers, and no  *)
(* value it takes for known is ever another one at run time.               *)
InventoryCovers ==
    Plain(after) => \A e \in performed :
      \E v \in evidence.after : v.site = e.site /\ (v.state = "UNRESOLVED" \/ Instance(v.url, e.string))

(* An entry admits the requests it was made for: when a parameter fills a  *)
(* part of one segment, naming the request at run time gives an action and *)
(* a resource inside the entry's.  (A request that turns out to be one of  *)
(* GitHub's routes is not inside an entry for any other path.)             *)
EntriesAdmitRequests ==
    \A e \in performed, v \in evidence.after :
      v.site = e.site /\ v.state # "UNRESOLVED" /\ ResourceMatches(Segments(v.url), Segments(e.string)) =>
        LET request == Classified(e.kind, e.method, e.string)
        IN  \/ Admits(v, request)
            \/ v.action = e.method /\ request.action # e.method

(* No new power goes unseen: an effect of the changed program that its     *)
(* inventory admits was admitted before, or by an entry the diff shows as  *)
(* added.                                                                  *)
NewPowerIsShown ==
    \A e \in performed :
      LET request == Classified(e.kind, e.method, e.string)
          admitted(entries) == \E v \in entries : v.state # "UNRESOLVED" /\ Admits(v, request)
      IN  admitted(evidence.after) => admitted(evidence.before \cup diff.added)

=============================================================================
