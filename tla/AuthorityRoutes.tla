--------------------------- MODULE AuthorityRoutes ----------------------------
(***************************************************************************)
(* The vocabulary of the authority inventory (actenon_scan/authority:      *)
(* routes.py, and the paths of python.py): which action and resource a     *)
(* request or a file access needs, and when one entry admits another.      *)
(*                                                                         *)
(* A string is a sequence of atoms; an atom is a known piece of text or a  *)
(* hole, an unknown part with the name of the parameter it comes from ("": *)
(* none).  scheme://host is one piece, and so is "/".                      *)
(***************************************************************************)
EXTENDS Integers, Sequences, FiniteSets, FiniteSetsExt, SequencesExt

CONSTANTS
    Hosts,      \* pieces that are scheme://host
    GitHub      \* the one of api.github.com

Text(s) == [text |-> s, hole |-> FALSE]
Hole(name) == [text |-> name, hole |-> TRUE]

Slash == Text("/")
Space == Text(" ")

HasHole(string) == \E i \in 1 .. Len(string) : string[i].hole

(* _segments: the parts between slashes that are not empty. *)
Segments(string) ==
    LET split == FoldLeft(LAMBDA segs, a : IF a = Slash THEN Append(segs, <<>>)
                                           ELSE Front(segs) \o <<Append(Last(segs), a)>>,
                          << <<>> >>, string)
    IN  SelectSeq(split, LAMBDA s : s # <<>>)

(* The names a resource is written with: every hole is "{}". *)
Braces(segment) == [i \in 1 .. Len(segment) |-> IF segment[i].hole THEN Hole("") ELSE segment[i]]

(* HttpAuthority and AuthorityEvidence; resource is <<>> when there is none. *)
Authority(action, resource, state) == [action |-> action, resource |-> resource, state |-> state]

Unresolved(action) == Authority(action, <<>>, "UNRESOLVED")

-----------------------------------------------------------------------------
(* _GITHUB_ROUTES, one of every shape: what decides the resource is the    *)
(* owner, the repository or the organisation; "*" is a value inside it,    *)
(* "+" one or more of them.                                                *)
GithubRoutes == {
    [method |-> "post", pattern |-> <<"repos", "{owner}", "{repo}", "issues">>, action |-> "issue.create"],
    [method |-> "patch", pattern |-> <<"repos", "{owner}", "{repo}", "issues", "*">>, action |-> "issue.update"],
    [method |-> "put", pattern |-> <<"repos", "{owner}", "{repo}", "contents", "+">>, action |-> "contents.write"],
    [method |-> "delete", pattern |-> <<"repos", "{owner}", "{repo}">>, action |-> "repo.delete"],
    [method |-> "post", pattern |-> <<"orgs", "{owner}", "repos">>, action |-> "repo.create"],
    [method |-> "post", pattern |-> <<"graphql">>, action |-> "graphql"]}

Variable == {"{owner}", "{repo}", "*", "+"}

(* Mutant of MatchRoute: an unknown segment matches any literal.           *)
MatchRouteLoosely(pattern, segs) ==
    /\ Len(segs) = Len(pattern)
    /\ \A i \in 1 .. Len(pattern) : pattern[i] \notin Variable => HasHole(segs[i]) \/ segs[i] = <<Text(pattern[i])>>

(* _match_route *)
MatchRoute(pattern, segs) ==
    /\ \/ Len(segs) = Len(pattern)
       \/ pattern[Len(pattern)] = "+" /\ Len(segs) >= Len(pattern)
    /\ \A i \in 1 .. Len(pattern) : pattern[i] \notin Variable => segs[i] = <<Text(pattern[i])>>

(* _match_route_with_holes: a segment that is one hole may stand for two;  *)
(* the choices are tried in the order of their bit masks.                  *)
Wholes(segs) == {i \in 1 .. Len(segs) : Len(segs[i]) = 1 /\ segs[i][1].hole}

Doubled(segs, D) ==
    FlattenSeq([i \in 1 .. Len(segs) |-> IF i \in D THEN <<segs[i], segs[i]>> ELSE <<segs[i]>>])

Mask(segs, D) == SumSet({2 ^ Cardinality({j \in Wholes(segs) : j < i}) : i \in D})

Matches(pattern, segs) ==
    LET choices == IF Cardinality(Wholes(segs)) > 3 THEN {{}} ELSE SUBSET Wholes(segs)
    IN  {D \in choices : MatchRoute(pattern, Doubled(segs, D))}

FirstMatch(pattern, segs) ==
    LET all == Matches(pattern, segs)
    IN  Doubled(segs, CHOOSE D \in all : \A E \in all : Mask(segs, D) <= Mask(segs, E))

(* _github_authority *)
GithubAuthority(action, owned) ==
    IF \E i \in 1 .. Len(owned) : HasHole(owned[i]) THEN Unresolved(action)
    ELSE Authority(action, << <<Text("github.com")>> >> \o owned, "RESOLVED")

(* The segments of a pattern's owner and repository. *)
Owned(pattern, segs) ==
    LET all == [i \in 1 .. Len(pattern) |-> IF pattern[i] \in {"{owner}", "{repo}"} THEN segs[i] ELSE <<>>]
    IN  SelectSeq(all, LAMBDA s : s # <<>>)

(* Any other request: the host and the exact path, whose last segment may  *)
(* be unknown.                                                             *)
Generic(action, segs) ==
    LET resource == [i \in 1 .. Len(segs) |-> Braces(segs[i])]
    IN  IF \E i \in 1 .. Len(segs) - 1 : HasHole(segs[i]) THEN Unresolved(action)
        ELSE Authority(action, resource, IF HasHole(Last(segs)) THEN "TEMPLATE" ELSE "RESOLVED")

(* classify_http, of a known method; read methods of api.github.com need   *)
(* to read the repository.                                                 *)
ClassifyHttp(method, url) ==
    LET segs == Segments(url)
        path == Tail(segs)
        known == url # <<>> /\ ~url[1].hole /\ url[1].text \in Hosts /\ Len(segs[1]) = 1
        routes == {r \in GithubRoutes : r.method = method /\ Matches(r.pattern, path) # {}}
        route == CHOOSE r \in routes : TRUE
    IN  CASE ~known -> Unresolved(method)
          [] known /\ segs[1][1] = Text(GitHub) /\ routes # {} ->
               GithubAuthority(route.action, Owned(route.pattern, FirstMatch(route.pattern, path)))
          [] known /\ segs[1][1] = Text(GitHub) /\ routes = {} /\ method = "get" /\ Len(path) >= 3
               /\ path[1] = <<Text("repos")>> -> GithubAuthority("repo.read", <<path[2], path[3]>>)
          [] OTHER -> Generic(method, segs)

-----------------------------------------------------------------------------
(* _path_evidence and _normalise_path: relative to the project or to the   *)
(* root; only the file name may be unknown, and ".." is refused.           *)
ClassifyPath(path) ==
    LET segs == SelectSeq(Segments(path), LAMBDA s : s # <<Text(".")>>)
        root == <<Text(IF path[1] = Slash THEN "root" ELSE ".")>>
    IN  IF path = <<>> \/ path[1].hole \/ <<Text("..")>> \in ToSet(segs) THEN Unresolved("write")
        ELSE Generic("write", <<root>> \o segs)

(* The repository of a PyGithub call: one that is written owner/name.      *)
ClassifyRepository(name) ==
    IF HasHole(name) \/ Cardinality({i \in 1 .. Len(name) : name[i] = Slash}) # 1 THEN Unresolved("github")
    ELSE Authority("github", << <<Text("github.com")>> >> \o Segments(name), "RESOLVED")

(* What comes before the first atom that satisfies Stops. *)
Before(string, Stops(_)) ==
    LET upto == {i \in 0 .. Len(string) : \A j \in 1 .. i : ~Stops(string[j])}
    IN  SubSeq(string, 1, CHOOSE i \in upto : \A j \in upto : j <= i)

(* The program of a command line: its first word, known as such only when  *)
(* the known text goes on behind it or is all there is.                    *)
ClassifyProgram(command) ==
    LET known == Before(command, LAMBDA a : a.hole)
        text == IF known # <<>> /\ Last(known) = Space THEN Front(known) ELSE known
        word == Before(text, LAMBDA a : a = Space)
    IN  IF word = <<>> \/ (HasHole(command) /\ Space \notin ToSet(text)) THEN Unresolved("exec")
        ELSE Authority("exec", <<Last(Segments(word))>>, "RESOLVED")

(* _parse_sql_mutation: verb, blank and a table that ends at a blank.      *)
Verbs == {"DELETE FROM", "INSERT INTO"}

Mutates(statement) == statement # <<>> /\ statement[1].text \in Verbs

MayMutate(statement) == Mutates(statement) \/ HasHole(statement)

ClassifyStatement(statement) ==
    LET table == Before(SubSeq(statement, 3, Len(statement)), LAMBDA a : a = Space)
    IN  IF ~Mutates(statement) THEN Unresolved("INSERT INTO")
        ELSE IF table = <<>> \/ HasHole(table) THEN Unresolved(statement[1].text)
        ELSE Authority(statement[1].text, <<table>>, "RESOLVED")

(* The server of a mail. *)
ClassifyServer(host) ==
    IF HasHole(host) THEN Unresolved("mail") ELSE Authority("mail", <<host>>, "RESOLVED")

(* resource_matches: an entry admits what its holes can stand for, each a  *)
(* part of one segment, and no dots that lead elsewhere.                   *)
SegmentMatches(entry, segment) ==
    LET upto[i \in 0 .. Len(entry), j \in 0 .. Len(segment)] ==
          IF i = 0 \/ j = 0 THEN i = j
          ELSE IF entry[i].hole THEN upto[i - 1, j - 1] \/ upto[i, j - 1]
               ELSE entry[i] = segment[j] /\ upto[i - 1, j - 1]
    IN  \/ entry = segment
        \/ /\ HasHole(entry) /\ segment \notin {<<Text(".")>>, <<Text("..")>>}
           /\ upto[Len(entry), Len(segment)]

ResourceMatches(entry, request) ==
    /\ Len(entry) = Len(request)
    /\ \A i \in 1 .. Len(entry) : SegmentMatches(entry[i], request[i])

Admits(entry, request) ==
    entry.action = request.action /\ ResourceMatches(entry.resource, request.resource)
=============================================================================
