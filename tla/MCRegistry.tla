----------------------------- MODULE MCRegistry -----------------------------
(* Two users, an account each, three connections.  The second account's name *)
(* is longer: some fixtures fit the first account only.                      *)
EXTENDS Registry, TLC

a1 == [name |-> "a1", len |-> 1]
a2 == [name |-> "a2", len |-> 2]

MCKnows == ("u1" :> {[account |-> "a1", password |-> "p1"]}
            @@ "u2" :> {[account |-> "a2", password |-> "p2"]})

accounts == <<[id |-> a1, password |-> "p1"], [id |-> a2, password |-> "p2"]>>

layout(aw, w, server) == [kind |-> "layout", accountWidth |-> aw, width |-> w, server |-> server]
rec(id, len) == [kind |-> "fixture", id |-> id, len |-> len]
income(id, account) == [kind |-> "fixture", id |-> id, len |-> 1, account |-> account]

\* All three sources, an income for the second account only; a tenancy of another
\* server; a title too narrow for the second account, or for a record.
whole == [accounts  |-> accounts,
          title     |-> layout(2, 1, "s"), records |-> <<rec("t1", 1)>>,
          income    |-> layout(2, 1, "s"), incomes |-> <<income("i2", a2)>>,
          tenancy   |-> layout(2, 1, "s"), tenancies |-> <<rec("n1", 1)>>]
MCSetups == {whole,
             [whole EXCEPT !.tenancy.server = "other"],
             [whole EXCEPT !.title.accountWidth = 1],
             [whole EXCEPT !.records = <<rec("t1", 2)>>]}

creds(account, password, body) ==
    [kind |-> "login", account |-> account, password |-> password, head |-> 1, body |-> body]
get(target, id, token, head) ==
    [kind |-> "get", target |-> target, id |-> id, token |-> token, head |-> head, body |-> 0]

\* A login, a second one or a request, and a request: what two users do through the
\* shared tables, and requests that are refused, malformed or too large.
MCRequests ==
    "c1" :> {creds("a1", "p1", 1), creds("a2", "p1", 0)}
    @@ "c2" :> {creds("a2", "p2", 1), get("title", "t1", 1, 1)}
    @@ "c3" :> {get("title", "t1", k, 1) : k \in {0, 1, 2}}
               \cup {get("title", "t9", 1, 1), get("income", "", 1, 1), get("income", "", 2, 1),
                     get("tenancy", "n1", 1, 2), get("other", "", 0, 3),
                     [kind |-> "put", head |-> 1, body |-> 0],
                     [kind |-> "malformed", head |-> 1, body |-> 1]}
=============================================================================
