----------------------------- MODULE FunctionBody -----------------------------
(***************************************************************************)
(* A Python function as the analyses of actenon-scan see it, and what it   *)
(* does when it runs: the common ground of modules ControlFlow,            *)
(* GuardDetector and AuthorityBinding.                                     *)
(*                                                                         *)
(* The body is the sequence of its statements in source order, one a line, *)
(* each with the statement it is nested in (0: none) and the part of it.   *)
(* A value is abstracted to the set of things it is computed from:         *)
(* parameters, "?" for what other calls return, nothing for a constant.    *)
(***************************************************************************)
EXTENDS Integers, Sequences, FiniteSets

CONSTANTS
    Names,     \* local variables and parameters
    Params,    \* the parameters
    Bodies     \* the functions to look at

Kinds == {"call", "guard", "sink", "assign", "return", "raise", "break", "continue",
          "if", "while", "try", "def"}

(* op: a constant, a name, name.attr, str(name), a + b, helper(name) with  *)
(* helper returning its parameter or an attribute of it, or another call.  *)
Expr == [op : {"const", "name", "attr", "cast", "concat", "wrap", "wrapattr", "call"},
         of : Seq(Names)]

(* args: of a guard or sink call, or the value assigned; target: the name  *)
(* assigned.  test: of an if or while, "guard" when the guard call is the  *)
(* test.  broad: the handler of a try catches Exception.  name: the words  *)
(* of the function called.  A guard is defined in the module, where it     *)
(* raises or not, or imported under a name that promises it or does not.   *)
Stmt == [kind : Kinds, parent : Nat, slot : {"body", "orelse", "handler"},
         args : Seq(Expr), target : Names \cup {""},
         test : {"any", "false", "guard"}, broad : BOOLEAN,
         name : Seq(STRING), defined : BOOLEAN, raises : BOOLEAN, asserting : BOOLEAN]

WellFormed(b) ==
    /\ b \in Seq(Stmt)
    /\ \A i \in 1 .. Len(b) :
         /\ b[i].parent < i
         /\ b[i].parent # 0 => b[b[i].parent].kind \in {"if", "while", "try", "def"}

ASSUME BodiesAssumption ==
    /\ Params \subseteq Names
    /\ \A b \in Bodies : WellFormed(b)

VARIABLES
    body,       \* the function: constant
    at,         \* the statement about to run; Done when it returned or raised
    values,     \* name -> what its value is computed from, {"unset"} before
    passed,     \* guard statement -> what its arguments were computed from
    acted       \* sinks that ran: records [sink, passed, args]

runVars == <<at, values, passed, acted>>

Lines == 1 .. Len(body)
Done == Len(body) + 1

IsGuard(i) == body[i].kind = "guard" \/ body[i].test = "guard"
Guards == {i \in Lines : IsGuard(i)}
Sinks == {i \in Lines : body[i].kind = "sink"}

(* The statements around i, itself excluded. *)
Around(i) ==
    LET up[k \in 0 .. Len(body)] == IF k = 0 THEN {} ELSE {k} \cup up[body[k].parent]
    IN  up[body[i].parent]

(* i is p, or nested in it at any depth. *)
Within(p, i) == i = p \/ p \in Around(i)

(* The part of statement p that i is in: "" for its header or outside. *)
PartOf(p, i) ==
    LET top == {k \in Lines : body[k].parent = p /\ Within(k, i)}
    IN  IF top = {} THEN "" ELSE body[CHOOSE k \in top : TRUE].slot

(* The level of a statement in the syntax tree; a handler is one of its own. *)
Depth(i) == Cardinality(Around(i)) + Cardinality({p \in Around(i) : PartOf(p, i) = "handler"})

Block(p, slot) == {k \in Lines : body[k].parent = p /\ body[k].slot = slot}
FirstIn(S) == CHOOSE k \in S : \A j \in S : k <= j
LastIn(S) == CHOOSE k \in S : \A j \in S : j <= k

Later(i) == {k \in Block(body[i].parent, body[i].slot) : k > i}

-----------------------------------------------------------------------------
(* Where control goes when statement i has completed. *)
After(i) ==
    LET next[k \in 1 .. Len(body)] ==
          LET p == body[k].parent
          IN  CASE Later(k) # {} -> FirstIn(Later(k))
                [] Later(k) = {} /\ p = 0 -> Done
                [] Later(k) = {} /\ p # 0 /\ body[p].kind = "while" /\ body[k].slot = "body" -> p
                [] Later(k) = {} /\ p # 0 /\ body[p].kind = "try" /\ body[k].slot = "body"
                     /\ Block(p, "orelse") # {} -> FirstIn(Block(p, "orelse"))
                [] OTHER -> next[p]
    IN  next[i]

Enter(p, slot) == IF Block(p, slot) = {} THEN After(p) ELSE FirstIn(Block(p, slot))

LoopOf(i) == LastIn({p \in Around(i) : body[p].kind = "while" /\ PartOf(p, i) = "body"})

(* Where an exception that i raises may take control: the handlers around  *)
(* it, from the inside to the first that catches everything.               *)
Caught(i) ==
    LET tries == {p \in Around(i) : body[p].kind = "try" /\ PartOf(p, i) = "body"}
        broad == {p \in tries : body[p].broad}
    IN  {FirstIn(Block(p, "handler")) : p \in {q \in tries : \A b \in broad : q >= b}}
          \cup IF broad = {} THEN {Done} ELSE {}

Value(e) ==
    CASE e.op = "const" -> {}
      [] e.op = "call" -> {"?"}
      [] OTHER -> UNION {values[e.of[k]] : k \in 1 .. Len(e.of)}

ArgValues(i) == [k \in 1 .. Len(body[i].args) |-> Value(body[i].args[k])]

(* Python evaluates no name that has no value yet. *)
Ready(i) ==
    \A k \in 1 .. Len(body[i].args) :
      \A n \in 1 .. Len(body[i].args[k].of) : values[body[i].args[k].of[n]] # {"unset"}

FunctionInit ==
    /\ body \in Bodies
    /\ at = 1
    /\ values = [n \in Names |-> IF n \in Params THEN {n} ELSE {"unset"}]
    /\ passed = [g \in {} |-> <<>>]
    /\ acted = {}

(* Any call, and the evaluation of an unset name, may raise. *)
RunRaise ==
    /\ at \in Lines
    /\ \/ body[at].kind \in {"call", "guard", "sink", "raise", "assign"}
       \/ body[at].test = "guard"
    /\ at' \in Caught(at)
    /\ UNCHANGED <<values, passed, acted>>

RunSimple ==
    /\ at \in Lines /\ body[at].kind \in {"call", "def"}
    /\ at' = After(at)
    /\ UNCHANGED <<values, passed, acted>>

RunAssign ==
    /\ at \in Lines /\ body[at].kind = "assign" /\ Ready(at)
    /\ values' = [values EXCEPT ![body[at].target] = Value(body[at].args[1])]
    /\ at' = After(at)
    /\ UNCHANGED <<passed, acted>>

(* The guard returned: it did not raise. *)
Passes(g) == passed' = [h \in DOMAIN passed \cup {g} |-> IF h = g THEN ArgValues(g) ELSE passed[h]]

RunGuard ==
    /\ at \in Lines /\ body[at].kind = "guard" /\ Ready(at)
    /\ Passes(at)
    /\ at' = After(at)
    /\ UNCHANGED <<values, acted>>

RunSink ==
    /\ at \in Lines /\ body[at].kind = "sink" /\ Ready(at)
    /\ acted' = acted \cup {[sink |-> at, passed |-> passed, args |-> ArgValues(at)]}
    /\ at' = After(at)
    /\ UNCHANGED <<values, passed>>

RunBranch ==
    /\ at \in Lines /\ body[at].kind \in {"if", "while"} /\ Ready(at)
    /\ IF body[at].test = "guard" THEN Passes(at) ELSE UNCHANGED passed
    /\ \/ body[at].test # "false" /\ at' = Enter(at, "body")
       \/ at' = Enter(at, "orelse")
    /\ UNCHANGED <<values, acted>>

RunTry ==
    /\ at \in Lines /\ body[at].kind = "try"
    /\ at' = Enter(at, "body")
    /\ UNCHANGED <<values, passed, acted>>

RunLeave ==
    /\ at \in Lines
    /\ \/ body[at].kind = "return" /\ at' = Done
       \/ body[at].kind = "break" /\ at' = After(LoopOf(at))
       \/ body[at].kind = "continue" /\ at' = LoopOf(at)
    /\ UNCHANGED <<values, passed, acted>>

Run == RunRaise \/ RunSimple \/ RunAssign \/ RunGuard \/ RunSink \/ RunBranch \/ RunTry \/ RunLeave
=============================================================================
