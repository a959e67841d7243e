----------------------------- MODULE MCGateway ------------------------------
(* Small instances of Gateway.  The thread pool of the code has 40 threads *)
(* for any number of requests.  Two requests over two threads interleave   *)
(* their jobs and their provider calls in every order; over one thread     *)
(* each waits for the other, a provider call included.                     *)
EXTENDS Gateway, TLC

CONSTANTS finance, xero, investec, read, write, c1, c2

MCNames == {finance, xero, investec, read, write}
MCProviders == {xero, investec}
TwoClients == {c1, c2}
Symmetry == Permutations(Clients)

XeroRead == [area |-> "finance", provider |-> xero, action |-> READ]
XeroWrite == [area |-> "finance", provider |-> xero, action |-> WRITE]
InvestecWrite == [area |-> "finance", provider |-> investec, action |-> WRITE]
ItemsRead == [area |-> "items", provider |-> None, action |-> READ]
ItemsWrite == [area |-> "items", provider |-> None, action |-> WRITE]
Health == [area |-> "health", provider |-> None, action |-> READ]

\* A request that passes every gate, and the ways to depart from it.
Good(route, grants) ==
    [route |-> route, key |-> TRUE, bearer |-> "good", grants |-> grants,
     args |-> "fit", html |-> FALSE]

XeroWriter == {<<finance, xero, write>>}

FinanceShapes ==
    {Good(XeroWrite, g) : g \in {XeroWriter, {<<finance, write>>},
                                 {<<finance, xero, read>>},
                                 {<<finance, investec, write>>}}}
      \cup {[Good(XeroWrite, XeroWriter) EXCEPT !.args = a] :
              a \in {"not_json", "invalid", "clash"}}
      \cup {[Good(XeroWrite, XeroWriter) EXCEPT !.bearer = "bad"],
            [Good(XeroWrite, {}) EXCEPT !.bearer = "absent"],
            [Good(XeroWrite, XeroWriter) EXCEPT !.key = FALSE],
            [Good(XeroWrite, {}) EXCEPT !.key = FALSE, !.bearer = "absent", !.args = "invalid"],
            [Good(XeroWrite, {<<finance, xero, read>>}) EXCEPT !.args = "invalid"],
            Good(XeroRead, XeroWriter),
            Good(InvestecWrite, {<<finance, write>>})}

\* A program writes, a browser reads: a login is a 503 for one, a 307 for the other.
ItemsShapes ==
    {[Good(ItemsWrite, {}) EXCEPT !.bearer = "absent"],
     [Good(ItemsRead, {}) EXCEPT !.html = TRUE, !.bearer = "absent"],
     [Good(ItemsWrite, {}) EXCEPT !.key = FALSE, !.bearer = "absent"]}
      \cup {[Good(ItemsWrite, {}) EXCEPT !.args = a, !.bearer = "absent"] :
              a \in {"invalid", "clash"}}

HealthShape == [Good(Health, {}) EXCEPT !.key = FALSE, !.bearer = "absent"]

AllShapes == FinanceShapes \cup ItemsShapes \cup {HealthShape}

\* One shape per path through the pool: served at once or by the provider, refused
\* by either gate, and failing with the effect behind it.
FewShapes ==
    {Good(XeroWrite, XeroWriter), HealthShape,
     [Good(ItemsWrite, {}) EXCEPT !.bearer = "absent"],
     [Good(XeroWrite, XeroWriter) EXCEPT !.args = "clash"],
     [Good(XeroWrite, XeroWriter) EXCEPT !.key = FALSE],
     Good(XeroWrite, {<<finance, xero, read>>})}

\* Fully configured, and with either part left out.
Configured == [keys |-> TRUE, auth0 |-> TRUE]
AllDeployments == {Configured, [Configured EXCEPT !.keys = FALSE],
                   [Configured EXCEPT !.auth0 = FALSE]}
OneDeployment == {Configured}
=============================================================================
