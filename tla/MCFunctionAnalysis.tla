-------------------------- MODULE MCFunctionAnalysis --------------------------
(***************************************************************************)
(* FunctionAnalysis on every function of four statements and a sink with   *)
(* one guard, nested in all ways, and on straight functions of two         *)
(* assignments, a guard and a sink with arguments of every form.           *)
(***************************************************************************)
EXTENDS FunctionAnalysis

MCNames == {"p", "q", "x", "y"}
MCParams == {"p", "q"}

St(kind, parent, slot) ==
    [kind |-> kind, parent |-> parent, slot |-> slot, args |-> <<>>, target |-> "",
     test |-> "any", broad |-> FALSE, name |-> <<>>,
     defined |-> FALSE, raises |-> FALSE, asserting |-> FALSE]

Variants(p, slot) ==
    {St(k, p, slot) : k \in {"call", "return", "raise", "break", "continue", "if", "while", "def"}}
      \cup {[St("try", p, slot) EXCEPT !.broad = b] : b \in BOOLEAN}
      \cup {[St("if", p, slot) EXCEPT !.test = "false"],
            [St("if", p, slot) EXCEPT !.test = "guard"],
            [St("guard", p, slot) EXCEPT !.asserting = TRUE]}

(* 0, the last statement of b and those it is nested in. *)
Spine(b) ==
    LET up[k \in 0 .. Len(b)] == IF k = 0 THEN {0} ELSE {k} \cup up[b[k].parent]
    IN  up[Len(b)]

(* The parts a new statement may be added to: <<parent, slot>>. *)
Places(b) ==
    LET kids(p) == {k \in 1 .. Len(b) : b[k].parent = p}
        slots(p) == {b[k].slot : k \in kids(p)}
        open(p) == IF kids(p) = {} THEN {"body"}
                   ELSE CASE p = 0 \/ b[p].kind = "def" -> {"body"}
                          [] p # 0 /\ b[p].kind = "try" ->
                               IF "orelse" \in slots(p) THEN {"orelse"}
                               ELSE IF "handler" \in slots(p) THEN {"handler", "orelse"}
                               ELSE {"body", "handler"}
                          [] OTHER -> IF "orelse" \in slots(p) THEN {"orelse"} ELSE {"body", "orelse"}
        compound == {p \in Spine(b) : p = 0 \/ b[p].kind \in {"if", "while", "try", "def"}}
    IN  UNION {{<<p, s>> : s \in open(p)} : p \in compound}

(* Whether a statement in that part of p is in the body of a loop. *)
InLoop(b, p, slot) ==
    LET in[k \in 0 .. Len(b)] ==
          IF k = 0 THEN FALSE
          ELSE in[b[k].parent] \/ (b[k].slot = "body" /\ b[k].parent # 0 /\ b[b[k].parent].kind = "while")
    IN  p # 0 /\ (in[p] \/ (slot = "body" /\ b[p].kind = "while"))

Guarded(b) == \E k \in 1 .. Len(b) : b[k].kind = "guard" \/ b[k].test = "guard"

(* n statements, the guard among them at most once. *)
Grow[n \in 0 .. 3] ==
    IF n = 0 THEN {<<>>}
    ELSE UNION {{Append(b, st) : st \in
           {t \in UNION {Variants(pl[1], pl[2]) : pl \in Places(b)} :
              /\ t.kind \in Terminators => t.parent # 0
              /\ t.kind \in {"break", "continue"} => InLoop(b, t.parent, t.slot)
              /\ t.kind = "call" => \E p \in Spine(b) \ {0} : b[p].kind = "try"
              /\ \A k \in 1 .. Len(b) : b[k].kind \in Terminators
                                     => <<b[k].parent, b[k].slot>> # <<t.parent, t.slot>>
              /\ t.kind = "guard" \/ t.test = "guard" => ~Guarded(b)}} : b \in Grow[n - 1]}

Complete(b) ==
    \A p \in 1 .. Len(b) :
      LET slots == {b[k].slot : k \in {i \in 1 .. Len(b) : b[i].parent = p}}
      IN  /\ b[p].kind \in {"if", "while", "try", "def"} => "body" \in slots
          /\ b[p].kind = "try" => "handler" \in slots

With(bs, kinds) ==
    UNION {UNION {{Append(b, t) : t \in {v \in Variants(pl[1], pl[2]) : v.kind \in kinds}} :
             pl \in Places(b)} : b \in bs}

(* Two statements nested in each other and one that leaves them, then the  *)
(* guard anywhere.                                                         *)
Left == {<<St(a, 0, "body"), St(c, 1, "body"), St(l, 2, "body")>> :
           a \in {"while", "try"}, c \in {"if", "while"}, l \in {"break", "raise"}}
LeftGuarded == With({b \in Left : b[3].kind = "break" => InLoop(b, 2, "body")}, {"guard"})

Nested ==
    {f \in UNION {{Append(b, St("sink", pl[1], pl[2])) : pl \in Places(b)} :
                     b \in {c \in Grow[3] : Guarded(c)} \cup LeftGuarded} : Complete(f)}

-----------------------------------------------------------------------------
Arg(op, of) == [op |-> op, of |-> of]
Set(name, e, p) == [St("assign", p, "body") EXCEPT !.target = name, !.args = <<e>>]

First == {Arg("const", <<>>), Arg("call", <<"p">>)} \cup {Arg(op, <<"p">>) : op \in {"name", "attr", "wrap", "wrapattr"}}
Second == {Arg("const", <<>>), Arg("call", <<"x">>), Arg("concat", <<"x", "q">>), Arg("wrapattr", <<"q">>)}
            \cup {Arg(op, <<"x">>) : op \in {"name", "attr", "cast"}} \cup {Arg("name", <<"q">>)}
Passed == {Arg("const", <<>>), Arg("name", <<"p">>), Arg("name", <<"x">>)}
Used == {Arg("const", <<>>), Arg("name", <<"q">>), Arg("name", <<"x">>), Arg("name", <<"y">>)}

Check(name, e) == [St("guard", 0, "body") EXCEPT !.args = <<e>>, !.name = name]
Act(e) == [St("sink", 0, "body") EXCEPT !.args = <<e>>, !.name = <<"issue", "refund">>]
Refund == <<"authorize", "refund">>

Straight ==
    UNION {{<<Set("x", a, 0), Set("y", b, 0), Check(Refund, g), Act(s)>>,
            <<Set("x", a, 0), Set("x", b, 0), Check(Refund, g), Act(s)>>,
            <<Set("x", a, 0), Check(Refund, g), Set("x", b, 0), Act(s)>>,
            <<St("if", 0, "body"), Set("x", a, 1), Check(Refund, g), Set("y", b, 0), Act(s)>>} :
              a \in First, b \in Second, g \in Passed, s \in Used}

Other == {<<Check(<<"authorize", "read">>, g), Act(g)>> : g \in Passed}

MCBodies == Nested \cup Straight \cup Other
=============================================================================
