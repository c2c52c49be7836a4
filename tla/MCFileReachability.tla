-------------------------- MODULE MCFileReachability --------------------------
(***************************************************************************)
(* Files for TLC: a chain of methods one longer than the search follows,   *)
(* a chain through top-level functions and a variable's methods, guards    *)
(* and callbacks, and lists of tools; each with its variants.              *)
(***************************************************************************)
EXTENDS FileReachability

Fun(name, class, outer, calls, sinkKind) ==
    [name |-> name, class |-> class, outer |-> outer, decorators |-> {}, action |-> FALSE,
     payload |-> FALSE, branch |-> "", sink |-> sinkKind, makesTemp |-> FALSE,
     calls |-> calls, handed |-> {}]
C(how, of, name) == [how |-> how, of |-> of, name |-> name]
Cls(name, bases) == [name |-> name, bases |-> bases, appended |-> {}, declares |-> FALSE]
L(op, var, elements) == [op |-> op, var |-> var, elements |-> elements]

Of(functions, classes) ==
    [functions |-> functions, classes |-> classes, lists |-> <<>>, wrapped |-> {},
     permitted |-> {}, schema |-> FALSE, top |-> "none", framework |-> TRUE,
     ownPackage |-> FALSE, mentions |-> FALSE, resource |-> FALSE,
     moduleLevel |-> FALSE, followLocal |-> TRUE]

Sinks(s, k) == IF s = k THEN "call" ELSE "none"

(* A class Kit: run -> m1 -> m2 -> m3 -> m4, run holds inner, and another  *)
(* class that inherits m1 or defines one of the same name.                 *)
Chain(first, innerCalls, m1Calls, ofM3, dup, s) ==
    <<Fun("run", 1, 0, first, Sinks(s, 1)),
      Fun("inner", 0, 1, innerCalls, Sinks(s, 2)),
      Fun("m1", 1, 0, m1Calls, Sinks(s, 3)),
      Fun(dup, 1, 0, {C("self", "", "m3")}, Sinks(s, 4)),
      Fun("m3", 1, 0, {C("class", ofM3, "m4"), C("bare", "", "helper")}, Sinks(s, 5)),
      Fun("m4", 1, 0, {}, Sinks(s, 6)),
      Fun("m5", 2, 0, {C("self", "", "m1"), C("class", "Kit", "m4")}, Sinks(s, 7)),
      Fun("helper", 0, 0, {C("self", "", "m1")}, Sinks(s, 8))>>

Entries == {"method", "nested", "other", "listed", "wrapped", "appended", "route"}

Enter(f, e) ==
    CASE e = "method" -> [f EXCEPT !.classes[1].bases = {"Tool"}]
      [] e = "nested" -> [f EXCEPT !.functions[2].decorators = {"tool"}]
      [] e = "other" -> [f EXCEPT !.functions[7].decorators = {"tool"}]
      [] e = "listed" -> [f EXCEPT !.lists = <<L("assign", "ts", {"run"}), L("pass", "ts", {})>>]
      [] e = "wrapped" -> [f EXCEPT !.wrapped = {"m3"}]
      [] e = "appended" -> [f EXCEPT !.classes[1] = [@ EXCEPT !.bases = {"Tool"}, !.appended = {"m1"}]]
      [] e = "route" -> [f EXCEPT !.functions[1].decorators = {"route"}, !.resource = TRUE]

ChainFiles ==
    {Enter(Of(Chain(first, inner, {m1, C("self", "", "m2")}, of, dup, s),
              <<Cls("Kit", {}), Cls("Sub", {base})>>), e) :
       first \in {{C("self", "", "m1"), C("bare", "", "inner")}, {C("executor", "", "m2")},
                  {C("handoff", "", "m1")}},
       inner \in {{}, {C("self", "", "m2")}},
       m1 \in {C("self", "", "run"), C("bare", "", "helper")},
       of \in {"Kit", "Sub"}, dup \in {"m2", "m1"}, base \in {"Kit", "Other"}, s \in {2, 4, 5, 6, 8}, e \in Entries}

(* tool t -> f -> v.save -> g -> h, and a method that save calls on self.  *)
LocalFiles ==
    {[Of(<<[Fun("t", 0, 0, {C("bare", "", "f")} \cup extra, "none") EXCEPT !.decorators = {"tool"}],
           Fun("step", 0, 1, {C("bare", "", "g")}, "none"),
           Fun("f", 0, 0, {C("var", of, "save")}, "none"),
           Fun("save", 1, 0, {C("bare", "", "g"), C("self", "", "write")}, Sinks(s, 4)),
           Fun("write", 1, 0, {}, Sinks(s, 5)),
           Fun("g", 0, 0, {C("bare", "", "h")}, Sinks(s, 6)),
           Fun("h", 0, outer, {}, Sinks(s, 7)),
           Fun(dup, 0, 0, {}, Sinks(s, 8))>>,
         <<Cls("Store", {}), Cls("Disk", {"Store"})>>) EXCEPT !.followLocal = follow] :
       extra \in {{}, {C("bare", "", "step")}}, of \in {"Store", "Disk"}, outer \in {0, 6},
       dup \in {"g", "k"}, s \in 4 .. 8, follow \in BOOLEAN}

(* A tool, its callback and a method it calls, under guards of all kinds.  *)
Handed == {{}, {{"ProtectedExecutor"}}, {{"ProtectedExecutor", "Cursor"}}, {{"Cursor"}}, {{}},
           {{"ProtectedExecutor"}, {"Cursor"}}}
GuardFiles ==
    {[Of(<<[Fun("t", 1, 0, {C("self", "", "m")} \cup direct, "none") EXCEPT !.decorators = {"tool"} \cup d],
           [Fun("cb", 0, 1, {}, Sinks(s, 2)) EXCEPT !.handed = h],
           [Fun("m", 1, 0, {}, IF s = 3 THEN "cleanup" ELSE "none") EXCEPT !.decorators = dm,
                                                                          !.makesTemp = temp]>>,
         <<[Cls("Base", {}) EXCEPT !.declares = declares], Cls("Kit", bases)>>)
       EXCEPT !.permitted = permitted, !.functions[1].class = own, !.functions[3].class = own] :
       direct \in {{}, {C("bare", "", "cb")}}, d \in {{}, {"guard"}}, h \in Handed,
       dm \in {{}, {"declared"}, {"approval"}}, temp \in BOOLEAN, s \in {2, 3}, declares \in BOOLEAN,
       bases \in {{}, {"Base"}}, permitted \in {{}, {"Kit"}}, own \in {1, 2}}

(* Functions a and b, lists they are in, dispatchers, no sign of a tool.   *)
Lists == {<<>>, <<L("direct", "", {"a"})>>, <<L("annotated", "ts", {"a"}), L("pass", "ts", {})>>,
          <<L("assign", "ts", {"b"}), L("grow", "ts", {"a"}), L("pass", "ts", {})>>,
          <<L("assign", "ts", {"a"}), L("other", "ts", {}), L("pass", "ts", {})>>,
          <<L("assign", "ts", {"a"}), L("assign", "us", {"b"}), L("pass", "us", {})>>,
          <<L("pass", "ts", {}), L("assign", "ts", {"a"})>>}
ListFiles ==
    {[Of(<<[Fun("a", 0, 0, {C("bare", "", "b")}, "call") EXCEPT !.branch = branch],
           [Fun("b", 0, 0, {}, "call") EXCEPT !.action = action, !.payload = payload]>>, <<>>)
       EXCEPT !.lists = lists, !.schema = branch # "", !.mentions = mentions, !.top = top,
              !.framework = module, !.moduleLevel = module] :
       branch \in {"", "then", "else"}, action \in BOOLEAN, payload \in BOOLEAN, lists \in Lists,
       mentions \in BOOLEAN, top \in {"none", "plain", "main"}, module \in BOOLEAN}

MCFiles == ChainFiles \cup LocalFiles \cup GuardFiles \cup ListFiles
MCToolMethods == {"run"}
=============================================================================
