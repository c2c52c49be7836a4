---------------------------- MODULE MCScanCoverage ----------------------------
(***************************************************************************)
(* ScanCoverage with three Python files to deal out to two or three        *)
(* workers, a test, a fixture, a broken and an excluded file among the     *)
(* Python files, a file of each other language, and calls that lead from   *)
(* file to file in each analysed language.                                 *)
(***************************************************************************)
EXTENDS ScanCoverage

MCFiles == {"a.py", "b.py", "c.py", "test_d.py", "gen.py", "fix.py", "ui.ts", "lib.mts",
            "main.go", "x.rs"}

MCLanguage ==
    [f \in MCFiles |->
        CASE f = "ui.ts" -> "ts" [] f = "lib.mts" -> "mts" [] f = "main.go" -> "go"
          [] f = "x.rs" -> "other" [] OTHER -> "python"]

MCTests == {"test_d.py"}
MCExcluded == {"gen.py"}
MCQuoted == {"c.py"}
MCFixtures == {"fix.py"}
MCDirty == {"b.py", "fix.py"}
MCRoutes == {"c.py"}
MCBroken == {"a.py"}

chain(files, sink) == [files |-> files, sink |-> sink]

MCChains ==
    {chain({"b.py", "c.py"}, "c.py"), chain({"c.py", "test_d.py"}, "test_d.py"),
     chain({"a.py", "b.py"}, "b.py"), chain({"ui.ts", "lib.mts"}, "lib.mts"),
     chain({"main.go"}, "main.go")}

command(kind, files, j, c, ts, go, fail) ==
    [kind |-> kind, files |-> files, jobs |-> j, cores |-> c,
     ts |-> ts, go |-> go, failOnUnsupported |-> fail,
     boundary |-> FALSE, fixtures |-> FALSE, noRepository |-> FALSE]

WithBoundary(c) == [c EXCEPT !.boundary = TRUE]
WithFixtures(c) == [c EXCEPT !.fixtures = TRUE]
WithoutRepository(c) == [c EXCEPT !.noRepository = TRUE]

Python == {"a.py", "b.py", "c.py", "test_d.py", "gen.py"}

MCRequests ==
    {command("tree", Python \cup {"ui.ts", "x.rs"}, 2, 1, TRUE, TRUE, TRUE),
     command("tree", Python, 3, 4, FALSE, FALSE, FALSE),
     WithoutRepository(command("tree", Python \ {"a.py"}, 3, 4, FALSE, FALSE, FALSE)),
     command("tree", MCFiles \ {"a.py"}, 0, 4, TRUE, TRUE, FALSE),
     WithFixtures(command("tree", MCFiles \ {"c.py"}, 1, 4, FALSE, FALSE, TRUE)),
     WithBoundary(command("tree", {"c.py", "gen.py"}, 1, 4, FALSE, FALSE, FALSE)),
     WithBoundary(command("tree", {"c.py", "fix.py", "ui.ts"}, 2, 4, TRUE, FALSE, FALSE)),
     command("changed", {"b.py", "gen.py", "ui.ts"}, 0, 4, TRUE, FALSE, FALSE),
     command("changed", {"a.py", "b.py", "main.go"}, 2, 4, TRUE, TRUE, TRUE),
     command("changed", {"c.py", "x.rs", "gen.py"}, 0, 4, TRUE, TRUE, FALSE),
     command("file", {"b.py"}, 2, 4, FALSE, FALSE, FALSE),
     command("file", {"lib.mts"}, 2, 4, TRUE, FALSE, FALSE),
     command("paths", {"a.py", "test_d.py", "gen.py", "main.go"}, 2, 4, FALSE, TRUE, TRUE),
     command("paths", {"c.py", "test_d.py", "lib.mts", "main.go"}, 1, 4, FALSE, TRUE, FALSE)}

(* One tree scanned serially and by two workers: with calls between Python *)
(* files, a fixture to be included, and a Go file.                         *)
MCWorkers ==
    {WithFixtures(command("tree", {"a.py", "b.py", "c.py", "fix.py", "main.go"}, j, 4,
                          TRUE, TRUE, FALSE)) : j \in 1 .. 2}
=============================================================================
