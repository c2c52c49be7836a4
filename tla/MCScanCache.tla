----------------------------- MODULE MCScanCache -----------------------------
(***************************************************************************)
(* ScanCache with two scanners that may overlap or follow one another, two *)
(* files, two rule sets and contents for every way a file is analysed: a   *)
(* plain finding, a finding a declarative guard and a comment both cover,  *)
(* an analysis that breaks off, and a file without sinks.                  *)
(***************************************************************************)
EXTENDS ScanCache

MCContents == {"plain", "gated", "broken", "quiet"}

site(l, s, g, d) == [line |-> l, snippet |-> s, guarded |-> g, declarative |-> d]

Shell == site(1, "x", FALSE, FALSE)
Query == site(2, "y", TRUE, FALSE)
Mail == site(2, "y", FALSE, FALSE)
Refund == site(1, "y", FALSE, TRUE)

found(sites, e, c) == [sites |-> sites, error |-> e, cached |-> c]

MCAnalysis ==
    [k \in MCContents \X Rulesets \X Packages |->
        CASE k[1] = "plain" /\ k[3] = "other"  -> found({Mail}, FALSE, TRUE)
          [] k[1] = "plain" /\ k[3] = "pkg"    ->
                 found(IF k[2] = "r1" THEN {Shell} ELSE {Shell, Query}, FALSE, TRUE)
          [] k[1] = "gated"                    -> found({Refund}, FALSE, TRUE)
          [] k[1] = "broken"                   ->
                 found(IF k[2] = "r1" THEN {} ELSE {Shell}, TRUE, TRUE)
          [] k[1] = "quiet"                    -> found({}, FALSE, FALSE)]

MCComments == [c \in MCContents |-> IF c = "gated" THEN {1} ELSE {}]

call(r, s, b, c) ==
    [files |-> <<"a", "b">>, rules |-> r, package |-> s, baseline |-> b, comments |-> c]

MCCalls ==
    {call("r1", "pkg", {}, TRUE), call("r2", "pkg", {}, TRUE),
     call("r1", "other", {<<"a", "x">>, <<"a", "y">>}, FALSE)}

MCDisks ==
    {[f \in {"a", "b"} |-> IF f = "a" THEN "plain" ELSE "gated"],
     [f \in {"a", "b"} |-> IF f = "a" THEN "quiet" ELSE "broken"]}
=============================================================================
