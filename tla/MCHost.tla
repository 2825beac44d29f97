------------------------------- MODULE MCHost -------------------------------
(* The setups and the requests of the small instance.                      *)
EXTENDS OpenApi

CONSTANTS p1, p2, client, forged

-----------------------------------------------------------------------------
(* The modules.                                                            *)
Users  == <<"v2", "users">>
Tables == <<"v2", "users", "x", "iptables">>  \* there is only a PUT
Me     == <<"v2", "me">>
MyLog  == <<"v2", "me", "log">>
User   == <<"v2", "user">>
Health == <<"v2", "health">>

Route(method, path, names) == [method |-> method, path |-> path, names |-> names]
On(p) == {Route("GET", p, <<>>), Route("PATCH", Append(p, Wild), <<"id">>)}

\* The entities that are described: one beside which a PUT is mounted, one
\* whose name is another's with a suffix, two whose names differ by a
\* separator, one not described yet, one with a path of its own, and one
\* that describes what it should not.
Things    == <<"v2", "things">>
Kinds     == <<"v2", "kinds">>
Inputs    == <<"v2", "thing-inputs">>
Payments  == <<"v2", "thing-kinds">>
Payments2 == <<"v2", "thing_kinds">>
Plain     == <<"v2", "plain">>
Tags      == <<"v2", "tags">>
Bads      == {<<"v2", "bad", x>> : x \in {"in", "undeclared", "extra", "answers", "twice", "names"}}

Entity(name, plural) ==
    [name |-> name, plural |-> plural, row |-> Append(name, "row"), body |-> Append(name, "body"),
     own |-> <<>>]

Top(p, kind) == Operation("GET", Append(p, "top"), <<>>, <<"bad", kind>>, {}, <<"200">>)

BadOperation(p) ==
    LET o == Top(p, Last(p))
        one == [o EXCEPT !.path = Append(p, Wild), !.names = <<"key">>]
    IN  CASE Last(p) = "in" -> [o EXCEPT !.params = <<[name |-> "x", in |-> "cookie"]>>]
          [] Last(p) = "undeclared" -> one
          [] Last(p) = "extra" -> [o EXCEPT !.params = <<[name |-> "key", in |-> "path"]>>]
          [] Last(p) = "answers" -> [o EXCEPT !.statuses = <<>>]
          [] Last(p) = "twice" -> [o EXCEPT !.statuses = <<"200", "200">>]
          [] OTHER -> [one EXCEPT !.params = <<[name |-> "key", in |-> "path"]>>]

MCEntities ==
    Things :> Entity(<<"thing">>, <<"things">>)
    @@ Kinds :> Entity(<<"kind">>, <<"kinds">>)
    @@ Inputs :> Entity(<<"thing", "input">>, <<"thing", "inputs">>)
    @@ Payments :> Entity(<<"thing", "kind">>, <<"thing", "kinds">>)
    @@ Payments2 :> Entity(<<"thing", "sort">>, <<"thing", "kinds">>)
    @@ Plain :> [Entity(<<"plain">>, <<"plain">>) EXCEPT !.row = None]
    @@ Tags :> [Entity(<<"tag">>, <<"tags">>) EXCEPT !.own = <<Top(Tags, "tags")>>]
    @@ [p \in Bads |-> [Entity(<<"bad">>, <<"bads">>) EXCEPT !.own = <<BadOperation(p)>>]]

MCTable ==
    [p \in {Users, Me, MyLog, User, Health} |->
       On(p) \cup (IF p = Users THEN {Route("PUT", Tables, <<>>)} ELSE {})]
    @@ [p \in DOMAIN MCEntities |->
          Routes(p) \cup (CASE p = Kinds -> {Route("PUT", Append(p, Wild), <<"id">>)}
                          [] p = Inputs -> {Route("GET", Append(p, "top"), <<>>)}
                          [] p = Tags -> {Route("GET", Append(p, "top"), <<>>)}
                          [] OTHER -> {})]

Full == <<<<Users, User>>, <<MyLog>>, <<Me, Health>>>>

Setup(manifest, routes, trusted) ==
    [manifest |-> manifest, routes |-> routes, trusted |-> trusted]

MCAlways == {Health}

MCSetups ==
    {Setup(Full, {Users, MyLog}, {p1, p2}), Setup(Full, {<<"v2">>}, {p1}),
     Setup(Full, {Append(Users, "x")}, {}), Setup(Full, None, None),
     Setup(<<<<Users>>, <<Me, Users>>>>, None, None), Setup(<<>>, None, None),
     Setup(<<<<MyLog>>, <<User>>>>, {Me}, {p1, p2}), Setup(<<<<User>>>>, {}, None)}
    \cup {Setup(m, {}, None) : m \in
            {<<<<Things>>, <<Plain>>>>, <<<<Things>>, <<Payments>>, <<Tags>>>>, <<<<Kinds>>, <<Things>>>>,
             <<<<Inputs>>>>, <<<<Inputs>>, <<Things>>>>, <<<<Payments>>, <<Payments2>>>>}}
    \cup {Setup(<<<<p>>>>, {}, None) : p \in Bads}

-----------------------------------------------------------------------------
(* The requests.                                                           *)
Key(alg) == [alg |-> alg, secret |-> "s"]
MCKeyring == "web" :> Key("HS256") @@ "app" :> Key("HS512")
MCIssuers == {"accounts"}
MCAddresses == {p1, p2, client, forged}

Good == [form |-> "jwt", alg |-> "HS256", aud |-> "web", iss |-> "accounts", sub |-> "code",
         mac |-> Key("HS256"), exp |-> 2]

Tokens ==
    {None, Good, [Good EXCEPT !.form = "junk"], [Good EXCEPT !.aud = "nobody"],
     [Good EXCEPT !.alg = "HS512"], [Good EXCEPT !.mac = Key("HS512")],
     [Good EXCEPT !.mac = [alg |-> "HS256", secret |-> "guess"]],
     [Good EXCEPT !.mac = [alg |-> "HS256", secret |-> "guess"], !.exp = 1],
     [Good EXCEPT !.aud = "app", !.alg = "HS512", !.mac = Key("HS512")],
     [Good EXCEPT !.iss = "elsewhere"], [Good EXCEPT !.exp = 1], [Good EXCEPT !.exp = 0]}

Request == [token |-> Good, path |-> Users, method |-> "GET", query |-> TRUE,
            client |-> client, header |-> <<>>, hops |-> <<>>]

Hops == [addr : {p1, p2}, hides : BOOLEAN]
Headers == {<<>>, <<forged>>, <<forged, p2>>, <<p1, None>>}

Travelled ==
    {[Request EXCEPT !.hops = h, !.header = x] :
        h \in UNION {[1..n -> Hops] : n \in 0..2}, x \in Headers}
    \cup {[Request EXCEPT !.client = None, !.hops = h, !.header = x] :
             h \in UNION {[1..n -> Hops] : n \in 0..1}, x \in Headers}

Presented == {[Request EXCEPT !.token = t] : t \in Tokens}

Asked ==
    {[Request EXCEPT !.path = p] :
        p \in {Append(Users, "x"), Append(Users, Blank), <<"v2", Blank, "users">>, <<>>,
               <<"v2", "me", "..", "users">>, MyLog, Append(MyLog, "x"), User, Health, <<"v2">>}}
    \cup {[Request EXCEPT !.method = m] : m \in {"HEAD", "PATCH", "PUT"}}
    \cup {[Request EXCEPT !.query = FALSE]}
    \cup {[Request EXCEPT !.path = Append(Users, "x"), !.method = "PATCH"]}
    \cup {[Request EXCEPT !.path = Tables, !.method = m] : m \in {"GET", "PUT"}}

MCMenu == Travelled \cup Presented \cup Asked
MCSymmetry == Permutations(Calls)
=============================================================================
