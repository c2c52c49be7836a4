------------------------- MODULE MCEffectPropagation -------------------------
(***************************************************************************)
(* EffectPropagation on every call graph over three functions (self calls, *)
(* mutual recursion, cycles of three), at most one unknown call, three     *)
(* placements of four sinks of two types, and every order of components   *)
(* and of members that Tarjan's algorithm may produce.                     *)
(***************************************************************************)
EXTENDS EffectPropagation, FiniteSets, SequencesExt

MCFunctions == 1 .. 3
MCSinks == {"pay1", "pay2", "pay3", "mail"}
MCEffectOf == [s \in MCSinks |-> IF s = "mail" THEN "EMAIL_SEND" ELSE "MONEY_MUTATION"]

MCSeeds ==
    {<<{"pay1"}, {"pay2"}, {"mail"}>>, <<{"mail"}, {}, {"pay1", "pay2"}>>,
     <<{"pay1"}, {"pay2"}, {"pay3"}>>}

Reaches(succ) ==
    LET grow(R) == R \cup {p \in MCFunctions \X MCFunctions :
                             \E m \in MCFunctions : <<p[1], m>> \in R /\ <<m, p[2]>> \in R}
        one == {<<f, f>> : f \in MCFunctions}
                 \cup {p \in MCFunctions \X MCFunctions : p[2] \in succ[p[1]]}
    IN  grow(grow(one))

Components(reach) ==
    {{g \in MCFunctions : <<f, g>> \in reach /\ <<g, f>> \in reach} : f \in MCFunctions}

(* Sequences of the components in which no component calls a later one, *)
(* the members of each in any order.                                     *)
Orders(succ) ==
    LET reach == Reaches(succ)
        comps == Components(reach)
        calleesFirst(o) == \A i, j \in 1 .. Len(o) :
            i < j => ~\E f \in o[i], g \in o[j] : <<f, g>> \in reach
    IN  UNION {{p \in [1 .. Len(o) -> UNION {SetToSeqs(c) : c \in comps}] :
                   \A i \in 1 .. Len(o) : ToSet(p[i]) = o[i]} :
               o \in {o \in SetToSeqs(comps) : calleesFirst(o)}}

MCInputs ==
    UNION {UNION {
        LET out == [f \in MCFunctions |->
                       [callee : succ[f], followed : {TRUE}] \cup
                       {[callee |-> 3, followed |-> FALSE] : x \in {f} \cap unknown}]
            all == [f \in MCFunctions |-> {e.callee : e \in out[f]}]
        IN  [out : {out}, seeds : MCSeeds, order : Orders(all)] :
        unknown \in {{}, {1}, {2}}} :
        succ \in [MCFunctions -> SUBSET MCFunctions]}
=============================================================================
