------------------------- MODULE MCRepositoryAnalysis -------------------------
(***************************************************************************)
(* RepositoryAnalysis on two-file repositories: an agent tool `go` that    *)
(* calls `run` in six ways, imports of every form, `run` defined in either *)
(* file, as a function or as a method, with a further call to `deep`, and  *)
(* a library file that parses, does not, or breaks the parser.  Beside one *)
(* of them stand TypeScript modules and Go packages, for the layer that    *)
(* follows.                                                                *)
(***************************************************************************)
EXTENDS CrossLanguageReach

MCFiles == {"tools", "lib"}
MCNames == {"", "tools", "lib", "go", "run", "deep", "C", "self", "()", "strip", "x", "authorize", "authenticate"}

Fn(name, tool) == [kind |-> "function", cls |-> "", name |-> name, tool |-> tool]
Cls(name) == [kind |-> "class", cls |-> "", name |-> name, tool |-> FALSE]
Method(name) == [kind |-> "method", cls |-> "C", name |-> name, tool |-> FALSE]
Imp(form, level, name, bound) ==
    [form |-> form, level |-> level, module |-> <<"lib">>, name |-> name, bound |-> bound]
At(scope, callee, pos) == [scope |-> scope, callee |-> callee, pos |-> pos]

ToolDefs == {<<Fn("go", TRUE)>>, <<Fn("go", TRUE), Fn("run", FALSE)>>,
             <<Cls("C"), Method("run"), Fn("go", TRUE)>>}
ToolImports == {<<>>, <<Imp("from", 0, "run", "run")>>, <<Imp("from", 0, "run", "x")>>,
                <<Imp("import", 0, "", "lib")>>, <<Imp("star", 0, "", "lib")>>,
                <<Imp("from", 1, "run", "run")>>}
ToolCalls == {<<At(<<"go">>, <<"run">>, 1)>>, <<At(<<"go">>, <<"x">>, 1)>>,
              <<At(<<"go">>, <<"lib", "run">>, 1), At(<<"go">>, <<"go">>, 2)>>,
              <<At(<<"go">>, <<"()", "strip">>, 1), At(<<"go">>, <<"run">>, 1)>>,
              <<At(<<"C", "run">>, <<"self", "run">>, 1), At(<<"go">>, <<"self", "run">>, 2)>>}
Tools == {[module |-> <<"tools">>, parses |-> "yes",
           defs |-> d, imports |-> i, calls |-> c] :
            d \in ToolDefs, i \in ToolImports, c \in ToolCalls}

LibDefs == {<<Fn("run", FALSE), Fn("deep", FALSE)>>,
            <<Cls("C"), Method("run"), Fn("deep", FALSE)>>}
LibCalls(d) == IF Len(d) = 2 THEN {<<At(<<"run">>, <<"deep">>, 1)>>, <<At(<<>>, <<"deep">>, 1)>>}
               ELSE {<<At(<<"C", "run">>, <<"deep">>, 1)>>}
Libs == UNION {{[module |-> <<"lib">>, parses |-> "yes",
                 defs |-> d, imports |-> <<>>, calls |-> c] : c \in LibCalls(d)} : d \in LibDefs}
        \cup {[module |-> <<"lib">>, parses |-> p, defs |-> <<>>,
               imports |-> <<>>, calls |-> <<>>] : p \in {"no", "crash"}}

MCPrograms == {[f \in MCFiles |-> IF f = "tools" THEN t ELSE l] : t \in Tools, l \in Libs}

MCRules == {"EXEC", "ODD"}
MCEffects == {"EXEC"}
MCMaxDepth == 2

DefBody(raises, returns) == [symbol |-> TRUE, raises |-> raises, returns |-> returns, asserting |-> FALSE]
Auth == [name |-> <<"authorize", "run">>, definition |-> DefBody(TRUE, FALSE), before |-> TRUE,
         dominates |-> TRUE, binding |-> "BOUND"]
Login == [Auth EXCEPT !.name = <<"authenticate">>, !.definition = DefBody(TRUE, TRUE)]
SinkAt(file, scope, line, rule, seen, guards) ==
    [file |-> file, scope |-> scope, line |-> line, rule |-> rule, seen |-> seen, guards |-> guards]

MCSinkLists ==
    {<<SinkAt("lib", <<"run">>, 7, "EXEC", "no", {}), SinkAt("tools", <<"go">>, 5, "EXEC", a, {Auth, Login}),
       SinkAt("lib", <<"deep">>, 8, b, "no", {})>> : a \in {"finding", "guarded"}, b \in {"EXEC", "ODD"}}
    \cup {<<SinkAt("lib", <<"run">>, 7, "EXEC", "no", {}), SinkAt("lib", <<"run">>, 9, "EXEC", "finding", {Login})>>}

-----------------------------------------------------------------------------
(* A server package of two files whose handlers reach helper -> DB.Save -> *)
(* write -> back, in another package; a second handler with a shortcut, on *)
(* the same line or not; another Save or write that may be meant or not.   *)
To(form, name, to) == [form |-> form, name |-> name, capital |-> FALSE, to |-> to]
Func(recv, name, calls) == [recv |-> recv, name |-> name, calls |-> calls]
LangSink(nearest, line, rule, seen) ==
    [inside |-> nearest, nearest |-> nearest, line |-> line, rule |-> rule, seen |-> seen]
GoSource(path, dir, functions, handlers, found) ==
    [path |-> path, dir |-> dir, reads |-> TRUE, functions |-> functions, handlers |-> handlers, sinks |-> found]

ToHelper == To("bare", "helper", {<<2, 1>>})
ToSave == To("dotted", "Save", {<<3, 1>>})
ToWrite == To("bare", "write", {<<3, 2>>})

Others == {Func("Cache", "Load", <<>>), Func("Cache", "Save", <<>>), Func("Cache", "helper", <<>>), Func("", "write", <<To("bare", "sync", {})>>)}

Packages(dir, second, line, last, other, saves) ==
    <<GoSource("a.go", dir, <<Func("", "register", <<>>)>>,
        <<[line |-> "5", inside |-> 1, calls |-> <<ToHelper>>]>>, <<LangSink(1, 6, "EXEC", "finding")>>),
      GoSource("b.go", dir, <<Func("", "helper", <<saves>>)>>,
        <<[line |-> line, inside |-> 0, calls |-> <<second>>]>>, <<>>),
      GoSource("c.go", <<"store">>, <<Func("DB", "Save", <<ToWrite>>), Func("", "write", <<last>>),
                                      Func("", "sync", <<>>), other>>, <<>>,
        <<LangSink(1, 2, "EXEC", "finding"), LangSink(2, 4, "EXEC", "no"),
          LangSink(2, 4, "ODD", "no"), LangSink(3, 7, "EXEC", "no"),
          LangSink(0, 9, "EXEC", "no")>>)>>

Variants(g) ==
    {g, [g EXCEPT ![2].reads = FALSE], [g EXCEPT ![3].handlers = g[2].handlers],
     [g EXCEPT ![1].handlers[1].calls[1].capital = TRUE],
     [g EXCEPT ![1].sinks[1].seen = "guarded", ![3].sinks[1].seen = "no"]}

NoHandler == <<GoSource("a.go", <<>>, <<Func("", "f", <<>>)>>, <<>>, <<LangSink(1, 1, "EXEC", "no")>>)>>

MCGo ==
    UNION {(IF saves = ToSave THEN Variants(Packages(dir, second, line, last, other, saves))
            ELSE {Packages(dir, second, line, last, other, saves)}) :
             dir \in {<<"srv">>, <<>>}, second \in {To("dotted", "write", {<<3, 2>>}), To("computed", "write", {<<3, 2>>})},
             line \in {"5", "8"}, last \in {To("bare", "sync", {<<3, 3>>}), To("dotted", "helper", {<<2, 1>>})},
             other \in Others, saves \in {ToSave, To("dotted", "Save", {<<3, 1>>, <<3, 4>>})}}
    \cup {<<>>, <<GoSource("a.go", <<>>, <<>>, <<>>, <<>>)>>, NoHandler}

-----------------------------------------------------------------------------
(* A server that calls run -> save -> deep over three modules: run comes   *)
(* from lib by an import of every form, save is a function, or a method    *)
(* called on an object or on `this`, deep goes on or back; lib is in the   *)
(* directory of the server, or in the one below it.                        *)
TsTo(callee, to) == [callee |-> callee, computed |-> FALSE, to |-> to]
TsFunc(cls, name, calls) == [cls |-> cls, name |-> name, calls |-> calls]
TsImp(kind, local, up, path, name, bound) ==
    [kind |-> kind, local |-> local, up |-> up, path |-> path, name |-> name, bound |-> bound]
TsHandler(line, name, inside, calls) == [line |-> line, name |-> name, inside |-> inside, calls |-> calls]
TsSource(path, dir, name, functions, imports, handlers, found) ==
    [path |-> path, dir |-> dir, module |-> Append(dir, name), reads |-> TRUE, functions |-> functions,
     imports |-> imports, handlers |-> handlers, sinks |-> found]

Run == {<<2, 1>>}
ImportsOfRun(up, lib) ==
    {<< <<TsImp("name", TRUE, up, lib, "run", "run")>>, TsTo(<<"run">>, Run)>>,
     << <<TsImp("name", TRUE, up, lib, "run", "x")>>, TsTo(<<"x">>, Run)>>,
     << <<TsImp("module", TRUE, up, lib, "", "lib")>>, TsTo(<<"lib", "run">>, Run)>>,
     << <<TsImp("module", TRUE, up, lib, "", "run")>>, TsTo(<<"run">>, Run)>>,
     << <<TsImp("dynamic", TRUE, up, lib, "", "lib")>>, TsTo(<<"lib", "run">>, Run)>>,
     << <<TsImp("module", FALSE, 0, <<"pkg">>, "", "run"), TsImp("name", TRUE, up, lib, "gone", "gone")>>,
        [TsTo(<<"table[]">>, Run) EXCEPT !.computed = TRUE]>>,
     << <<>>, TsTo(<<"pkg", "fetch">>, {})>>,
     << <<>>, TsTo(<<"obj", "run">>, Run)>>}

PlainSave == << <<TsFunc("", "save", <<TsTo(<<"deep">>, {<<3, 1>>})>>)>>, TsTo(<<"save">>, {<<2, 2>>})>>
Saves ==
    {PlainSave,
     << <<TsFunc("C", "save", <<TsTo(<<"deep">>, {<<3, 1>>})>>)>>, TsTo(<<"c", "save">>, {<<2, 2>>})>>,
     << <<TsFunc("C", "save", <<TsTo(<<"this", "flush">>, {<<2, 3>>})>>), TsFunc("C", "flush", <<TsTo(<<"deep">>, {<<3, 1>>})>>)>>,
        TsTo(<<"c", "save">>, {<<2, 2>>})>>}

Modules(dir, lib, way, save, back, far, second) ==
    <<TsSource("main.ts", dir, "main", <<TsFunc("", "start", <<>>)>>, way[1],
        <<TsHandler("3", "", 1, <<way[2], TsTo(<<"require">>, {})>>), TsHandler("6", far, 0, <<second>>)>>,
        <<LangSink(1, 4, "EXEC", "finding")>>),
      TsSource("lib.ts", lib, "lib", <<TsFunc("", "run", <<save[2]>>)>> \o save[1],
        <<TsImp("name", TRUE, Len(lib), <<"deep">>, "deep", "deep")>>, <<>>,
        <<LangSink(1, 2, "EXEC", "no"), LangSink(2, 5, "EXEC", "guarded")>>),
      TsSource("deep.ts", <<>>, "deep", <<TsFunc("", "deep", <<back>>), TsFunc("", "end", <<>>)>>, <<>>, <<>>,
        <<LangSink(1, 2, "EXEC", "no"), LangSink(2, 5, "ODD", "no"), LangSink(0, 9, "EXEC", "no")>>)>>

TsVariants(m) ==
    {m, [m EXCEPT ![2].reads = FALSE, ![2].sinks = <<>>], [m EXCEPT ![3].sinks[2].nearest = 0],
     [m EXCEPT ![3].functions = @ \o <<TsFunc("C", "run", <<>>), TsFunc("D", "save", <<>>)>>],
     [m EXCEPT ![1].functions = @ \o <<TsFunc("C", "run", <<>>), TsFunc("D", "save", <<>>)>>],
     [m EXCEPT ![1].handlers[2].name = "start"],
     [m EXCEPT ![2].path = "main.js", ![2].dir = m[1].dir, ![2].module = m[1].module]}

Layouts == {<< <<>>, <<>>, 0>>, << <<>>, <<"src">>, 0>>, << <<"src">>, <<>>, 1>>, << <<"src">>, <<>>, 0>>}
PathToLib(d) == IF d[3] = 0 THEN Append(d[2], "lib") ELSE <<"lib">>
Forward == TsTo(<<"end">>, {<<3, 2>>})
Back == TsTo(<<"m", "run">>, Run)

MCTs ==
    UNION {UNION {LET there == Modules(d[1], d[2], way, save, Forward, "", TsTo(<<"deep">>, {<<3, 1>>}))
               back == Modules(d[1], d[2], way, save, Back, "serve", Forward)
           IN  {back} \cup (IF save = PlainSave THEN TsVariants(there) ELSE {there}) :
             way \in ImportsOfRun(d[3], PathToLib(d)), save \in Saves} : d \in Layouts}

Host == [f \in MCFiles |-> IF f = "tools"
                            THEN CHOOSE t \in Tools : t.defs = <<Fn("go", TRUE)>> /\ t.imports = <<>>
                                                       /\ t.calls = <<At(<<"go">>, <<"run">>, 1)>>
                            ELSE CHOOSE l \in Libs : l.parses = "no"]

Only(ts, go) == [ts |-> ts, go |-> go]
Both == {Only(<<TsSource("m.ts", <<>>, "m", fs, <<>>, hs, <<LangSink(1, 3, "EXEC", "no")>>)>>, NoHandler) :
           fs \in {<<>>, <<TsFunc("", "f", <<>>)>>}, hs \in {<<>>, <<TsHandler("8", "", 0, <<TsTo(<<"f">>, {<<1, 1>>})>>)>>}}
MCBeside(p) ==
    IF p = Host THEN {Only(t, <<>>) : t \in MCTs} \cup {Only(<<>>, g) : g \in MCGo} \cup Both
    ELSE {Only(<<>>, <<>>)}
MCLanguageMaxDepth == 3
=============================================================================
