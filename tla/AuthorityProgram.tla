--------------------------- MODULE AuthorityProgram ---------------------------
(***************************************************************************)
(* The programs the authority extractor reads, and how Python runs them:   *)
(* the module's own statements, then a tool whose arguments the model      *)
(* chooses.  Running is written as the set of all ways a run may go.       *)
(***************************************************************************)
EXTENDS AuthorityRoutes

CONSTANTS
    Env,        \* the configuration variables that are set, each with its string
    Inputs,     \* strings the model and other outside sources give
    MaxCalls    \* bound on nested calls of a run

(* k: lit, none, name, cat (+), getenv (of n, with a default), or, ifexp,  *)
(* call (of the local function n), client (httpx.Client(base_url=...)).    *)
Expr(k, n, s, line, of) == [k |-> k, n |-> n, s |-> s, line |-> line, of |-> of]

(* op: assign; rebind, by a for or an unpacking; aug, +=; do, a call for   *)
(* its effect; return; and the effects: a request by url and client, a     *)
(* file, a PyGithub call, a command line, an SQL statement, a mail.        *)
(* optional: under a condition.                                            *)
EffectOps == {"http", "write", "github", "exec", "sql", "mail"}

Stmt(op, target, method, of, optional) ==
    [op |-> op, target |-> target, method |-> method, of |-> of, optional |-> optional]

(* An outcome of running statements: the variables, the value returned or  *)
(* "none", and the effects so far; stopped tells whether the function, or  *)
(* by an exception the whole program, has ended.                           *)
NoneValue == [kind |-> "none", string |-> <<>>]
StringValue(s) == [kind |-> "str", string |-> s]
ClientValue(s) == [kind |-> "client", string |-> s]

Outcome(vars, value, effects, end) == [vars |-> vars, value |-> value, effects |-> effects, end |-> end]

Raise(o) == [o EXCEPT !.end = "raised"]

(* The path httpx joins to its base; an absolute url replaces the base.    *)
JoinedUrl(base, url) ==
    IF base = <<>> \/ (url # <<>> /\ url[1].text \in Hosts) THEN url
    ELSE (IF Last(base) = Slash THEN base ELSE Append(base, Slash))
           \o (IF url # <<>> /\ url[1] = Slash THEN Tail(url) ELSE url)

Bind(vars, n, v) == [m \in DOMAIN vars \cup {n} |-> IF m = n THEN v ELSE vars[m]]

RECURSIVE Values(_, _, _, _, _), Lists(_, _, _, _, _), Run(_, _, _, _, _, _)

(* What an expression may evaluate to, as outcomes: [value, effects, end]. *)
Values(program, e, vars, globals, calls) ==
    LET one(v) == {[value |-> v, effects |-> {}, end |-> "no"]}
        failed == {[value |-> NoneValue, effects |-> {}, end |-> "raised"]}
        parts == Lists(program, e.of, vars, globals, calls)
        then(f(_)) == UNION {IF p.end = "raised"
                             THEN {[value |-> NoneValue, effects |-> p.effects, end |-> "raised"]}
                             ELSE {[value |-> f(p.values), effects |-> p.effects, end |-> "no"]} : p \in parts}
    IN  CASE e.k = "lit" -> one(StringValue(e.s))
          [] e.k = "none" -> one(NoneValue)
          [] e.k = "name" -> IF e.n \in DOMAIN vars THEN one(vars[e.n])
                             ELSE IF e.n \in DOMAIN globals THEN one(globals[e.n]) ELSE failed
          [] e.k = "cat" ->
               {IF o.end = "no" /\ o.value.kind = "none" THEN [o EXCEPT !.end = "raised"] ELSE o :
                  o \in then(LAMBDA v : IF v[1].kind = "str" /\ v[2].kind = "str"
                                        THEN StringValue(v[1].string \o v[2].string) ELSE NoneValue)}
          [] e.k = "getenv" -> IF e.n \in DOMAIN Env THEN one(StringValue(Env[e.n]))
                               ELSE IF e.of = <<>> THEN one(NoneValue) ELSE then(LAMBDA v : v[1])
          [] e.k = "or" -> then(LAMBDA v : IF v[1].kind = "none" \/ v[1] = StringValue(<<>>) THEN v[2] ELSE v[1])
          [] e.k = "ifexp" -> then(LAMBDA v : v[1]) \cup then(LAMBDA v : v[2])
          [] e.k = "client" -> IF e.of = <<>> THEN one(ClientValue(<<>>))
                               ELSE then(LAMBDA v : ClientValue(v[1].string))
          [] e.k = "call" ->
               UNION {IF p.end = "raised" \/ calls = 0
                      THEN {[value |-> NoneValue, effects |-> p.effects, end |-> "raised"]}
                      ELSE LET f == program[e.n]
                               locals == [n \in {f.params[i] : i \in 1 .. Len(p.values)} |->
                                            p.values[CHOOSE i \in 1 .. Len(p.values) : f.params[i] = n]]
                           IN  {[value |-> o.value, effects |-> o.effects,
                                 end |-> IF o.end = "raised" THEN "raised" ELSE "no"] :
                                  o \in Run(program, e.n, 1, Outcome(locals, NoneValue, p.effects, "no"),
                                            globals, calls - 1)}
                      : p \in parts}

(* The values of several expressions, left to right. *)
Lists(program, es, vars, globals, calls) ==
    IF es = <<>> THEN {[values |-> <<>>, effects |-> {}, end |-> "no"]}
    ELSE UNION {IF p.end = "raised" THEN {p}
                ELSE {[values |-> Append(p.values, o.value), effects |-> p.effects \cup o.effects, end |-> o.end] :
                        o \in Values(program, Last(es), vars, globals, calls)} :
                  p \in Lists(program, Front(es), vars, globals, calls)}

(* The ways the statements of f from the i-th on may go.  In the module's  *)
(* own code the variables are the globals.                                 *)
Run(program, f, i, o, globals, calls) ==
    LET body == program[f].body
        s == body[i]
        here == IF f = "module" THEN o.vars ELSE globals
        skipped == IF s.optional THEN Run(program, f, i + 1, o, globals, calls) ELSE {}
        next(p) == Run(program, f, i + 1, p, globals, calls)
        given == Lists(program, s.of, o.vars, here, calls)
        with(p) == [o EXCEPT !.effects = o.effects \cup p.effects]
        url(v) == IF Len(v) = 1 THEN v[1].string ELSE JoinedUrl(v[2].string, v[1].string)
        effect(v) == [site |-> <<f, i>>, kind |-> s.op, method |-> s.method, string |-> url(v)]
        set(p, v) == [with(p) EXCEPT !.vars = Bind(o.vars, s.target, v)]
        step(p) ==
          CASE p.end = "raised" -> {Raise(with(p))}
            [] p.end # "raised" /\ s.op = "assign" -> next(set(p, p.values[1]))
            [] p.end # "raised" /\ s.op = "rebind" -> UNION {next(set(p, StringValue(x))) : x \in Inputs}
            [] p.end # "raised" /\ s.op = "aug" ->
                 IF s.target \notin DOMAIN o.vars \/ p.values[1].kind # "str" THEN {Raise(with(p))}
                 ELSE next(set(p, StringValue(o.vars[s.target].string \o p.values[1].string)))
            [] p.end # "raised" /\ s.op = "do" -> next(with(p))
            [] p.end # "raised" /\ s.op = "return" ->
                 {[with(p) EXCEPT !.value = p.values[1], !.end = "returned"]}
            [] p.end # "raised" /\ s.op \in EffectOps ->
                 IF p.values[1].kind # "str" THEN {Raise(with(p))}
                 ELSE IF s.op = "sql" /\ ~Mutates(p.values[1].string) THEN next(with(p))
                 ELSE next([with(p) EXCEPT !.effects = @ \cup {effect(p.values)}])
    IN  IF i > Len(body) \/ o.end # "no" THEN {o}
        ELSE skipped \cup UNION {step(p) : p \in given}

(* A run: the module is imported, then some tool is called.                *)
Runs(program) ==
    LET loaded == Run(program, "module", 1, Outcome([n \in {} |-> NoneValue], NoneValue, {}, "no"),
                      [n \in {} |-> NoneValue], MaxCalls)
        tools == {f \in DOMAIN program : program[f].tool}
        calls(f, l) ==
          UNION {Run(program, f, 1,
                     Outcome([n \in ToSet(program[f].params) |-> StringValue(input[n])], NoneValue, l.effects, "no"),
                     l.vars, MaxCalls) : input \in [ToSet(program[f].params) -> Inputs]}
    IN  {l.effects : l \in loaded}
          \cup {o.effects : o \in UNION {calls(f, l) : f \in tools, l \in {m \in loaded : m.end = "no"}}}
=============================================================================
