------------------------- MODULE MCAuthorityInventory -------------------------
(***************************************************************************)
(* Programs of a module, a tool t(p) and the helpers send(w) and make(w):  *)
(* every way the extractor follows a url, in one step each and in pairs.   *)
(***************************************************************************)
EXTENDS AuthorityInventory

MCHosts == {"https://a", "https://api.github.com"}
MCFunctions == {"module", "send", "make", "t"}
MCFileOrder == <<"module", "make", "send", "t">>
MCEnv == ("SET" :> <<Text("https://a"), Slash, Text("env")>>) @@ ("TOKEN" :> <<Text("https://a"), Slash, Text("key")>>)

T(texts) == [i \in 1 .. Len(texts) |-> Text(texts[i])]

MCInputs == {T(<<"x">>), T(<<"issues">>), T(<<"x", "/", "y">>), T(<<"https://a", "/", "y">>), T(<<"DELETE FROM", " ", "x">>)}

Lit(texts, line) == Expr("lit", "", T(texts), line, <<>>)
Name(n) == Expr("name", n, <<>>, 0, <<>>)
Cat(a, b) == Expr("cat", "", <<>>, 0, <<a, b>>)
GetEnv(n, default) == Expr("getenv", n, <<>>, 9, default)
Or(a, b) == Expr("or", "", <<>>, 0, <<a, b>>)
Call(f, e) == Expr("call", f, <<>>, 0, <<e>>)

Base == Lit(<<"https://a", "/", "v", "/">>, 1)
There == Lit(<<"https://a", "/", "b">>, 2)
Issues == Lit(<<"https://api.github.com", "/", "repos", "/", "o", "/", "r", "/", "issues">>, 3)
Repo == Lit(<<"https://api.github.com", "/", "repos", "/", "o", "/", "r", "/">>, 4)

(* Urls: plain ones, and those made of several alternatives or by others.  *)
Simple == {There, Name("p"), Name("A"), Cat(Base, Name("p")), Issues}

Urls == Simple \cup
  {Cat(Name("A"), Name("p")),
   Cat(Repo, Name("p")),
   Cat(Issues, Cat(Lit(<<"/">>, 5), Name("p"))),
   Cat(Lit(<<"https://api.github.com", "/", "repos", "/">>, 5), Cat(Name("p"), Lit(<<"/", "issues">>, 6))),
   GetEnv("SET", <<>>), GetEnv("TOKEN", <<>>), GetEnv("UNSET", <<There>>), GetEnv("UNSET", <<>>),
   Or(GetEnv("UNSET", <<>>), There), Or(GetEnv("SET", <<>>), There), Or(Name("p"), There),
   Expr("ifexp", "", <<>>, 0, <<There, Base>>), Expr("ifexp", "", <<>>, 0, <<Name("A"), Name("A")>>),
   Call("make", Name("p")), Call("make", Lit(<<"z">>, 7))}

Http(method, es) == Stmt("http", "", method, es, FALSE)
Assign(n, e, optional) == Stmt("assign", n, "", <<e>>, optional)
Function(params, tool, body) == [params |-> params, tool |-> tool, body |-> body]

Consts == <<Assign("A", Lit(<<"https://a", "/", "c", "/">>, 8), FALSE)>>
Twice == Consts \o <<Assign("A", There, TRUE)>>
Client(e) == Consts \o <<Assign("C", Expr("client", "", <<>>, 0, e), FALSE)>>

Make == Function(<<"w">>, FALSE, <<Stmt("return", "", "", <<Cat(Base, Name("w"))>>, FALSE)>>)
MakeEither == Function(<<"w">>, FALSE, <<Stmt("return", "", "", <<There>>, TRUE),
                                          Stmt("return", "", "", <<Cat(Base, Name("w"))>>, FALSE)>>)

Send(body) == Function(<<"w">>, FALSE, body)

Program(module, make, send, body) ==
    [f \in MCFunctions |-> CASE f = "module" -> Function(<<>>, FALSE, module)
                             [] f = "make" -> make
                             [] f = "send" -> Send(send)
                             [] f = "t" -> Function(<<"p">>, TRUE, body)]

Do(e) == Stmt("do", "", "", <<Call("send", e)>>, FALSE)

Direct == {Program(m, mk, <<>>, <<Http(method, <<e>>)>>) :
             m \in {Consts, Twice}, mk \in {Make, MakeEither}, method \in {"post", "patch"}, e \in Urls}

Assigned == {Program(Consts, Make, <<>>, <<Assign(n, e1, FALSE), s2, Http("post", <<Name(n)>>)>>) :
               n \in {"u", "p"}, e1 \in Simple,
               s2 \in {Assign("u", e, TRUE) : e \in Simple}
                        \cup {Stmt("rebind", "u", "", <<>>, FALSE), Stmt("aug", "u", "", <<Lit(<<"/", "x">>, 6)>>, FALSE)}}

Helped == {Program(Consts, Make, send, body) :
             send \in {<<Http("post", <<Name("w")>>)>>, <<Http("post", <<Cat(Base, Name("w"))>>)>>,
                       <<Assign("w", There, TRUE), Http("post", <<Name("w")>>)>>},
             body \in {<<Do(e1), Do(e2)>> : e1, e2 \in Simple \cup {Lit(<<"z">>, 7)}}
                        \cup {<<Do(There), Do(Base), Do(Issues)>>, <<>>}}

Clients == {Program(Client(base), Make, <<>>, <<Http("post", <<e, Name(c)>>)>>) :
              base \in {<<>>, <<There>>, <<Base>>}, c \in {"C", "u"},
              e \in Simple \cup {Lit(<<"z">>, 7), Lit(<<"/", "z">>, 7), Cat(Lit(<<"z", "/">>, 7), Name("p"))}}

Files == {Program(Consts, Make, <<>>, <<Stmt("write", "", "", <<e>>, FALSE)>>) :
            e \in {Lit(<<"out", "/", "z">>, 7), Cat(Lit(<<"out", "/">>, 7), Name("p")), Name("p"),
                   Cat(Lit(<<"/", "out", "/">>, 7), Name("p")), Lit(<<"..", "/", "z">>, 7)}}

Effect(op, e) == Program(Consts, Make, <<>>, <<Assign("u", e, FALSE), Stmt(op, "", "", <<Name("u")>>, FALSE)>>)

Others ==
    {Effect("github", e) : e \in {Lit(<<"o", "/", "r">>, 7), Lit(<<"o">>, 7), Name("p"), Cat(Lit(<<"o", "/">>, 7), Name("p"))}}
      \cup {Effect("exec", e) : e \in {Lit(<<"bin", "/", "git", " ", "push">>, 7), Lit(<<"git">>, 7), Name("p"),
                                       Cat(Lit(<<"git", " ">>, 7), Name("p")), Cat(Lit(<<"git">>, 7), Name("p")),
                                       Cat(Lit(<<"git", " ", "push", " ">>, 7), Name("p"))}}
      \cup {Effect("sql", e) : e \in {Lit(<<"SELECT", " ", "x">>, 7), Name("p"), Lit(<<"DELETE FROM", " ", "x">>, 7),
                                      Cat(Lit(<<"DELETE FROM", " ", "x">>, 7), Name("p")),
                                      Cat(Lit(<<"INSERT INTO", " ", "x", " ">>, 7), Name("p")),
                                      Cat(Lit(<<"INSERT INTO", " ">>, 7), Name("p"))}}
      \cup {Effect("mail", e) : e \in {Lit(<<"x">>, 7), Name("p"), GetEnv("SET", <<>>)}}

MCChanges ==
    LET first == {Program(Consts, Make, <<>>, <<Http("post", <<There>>)>>),
                  Program(Consts, Make, <<>>, <<Http("post", <<Cat(Base, Name("p"))>>)>>)}
    IN  first \X (Direct \cup Assigned \cup Helped \cup Clients \cup Files \cup Others)
=============================================================================
