------------------------------ MODULE Registry ------------------------------
(***************************************************************************)
(* The local registry (mock-registry/src/lib.rs) and the login that goes    *)
(* before a notarised session (pprev-prover/src/login.rs).                  *)
(*                                                                          *)
(* Every connection is a task of its own and carries one request.  Tasks    *)
(* share two locked tables: the tokens issued and the log of the record     *)
(* responses.  A request arrives in pieces, of which the number of bytes is *)
(* kept; what a record holds is its name (Layout has the bytes).  A token   *)
(* is 32 random bytes: token n is the n-th issued, and nobody presents one  *)
(* that was not given to them.                                              *)
(***************************************************************************)
EXTENDS Integers, Sequences, FiniteSets

CONSTANTS
    Users,         \* parties that connect
    Knows,         \* by user, the credentials it holds
    Conns,         \* connections, each used once
    Requests,      \* by connection, what may be sent on it
    Setups,        \* layouts and fixtures a registry may be started with
    MAX_REQUEST,   \* largest request read, in bytes
    CHUNK          \* most bytes of one read

ASSUME SizesAssumption == MAX_REQUEST \in Nat \ {0} /\ CHUNK \in 1..MAX_REQUEST

ASSUME ConnsAssumption == IsFiniteSet(Conns)

ASSUME RequestsAssumption ==
    \A c \in Conns : \A r \in Requests[c] :
        r.head \in Nat /\ r.body \in Nat /\ (r.kind = "get" => r.token \in Nat)

VARIABLES
    setup,         \* the setup of the registry
    phase,         \* "down", "serving", "refused" or "dropped"
    tokens,        \* accounts, by token
    sent,          \* record responses logged
    conn,          \* connections
    wallet         \* tokens each user was given

vars == <<setup, phase, tokens, sent, conn, wallet>>

None == [kind |-> "none"]
status(code) == [kind |-> "status", code |-> code]

Idle == [at |-> "idle", user |-> "", request |-> None, written |-> 0, open |-> FALSE,
         buf |-> 0, response |-> None]

-----------------------------------------------------------------------------
(* Starting: every record must render before anything is served.            *)

\* render_response: the values fit the widths of the layout.
renders(layout, account, value) == account.len <= layout.accountWidth /\ value.len <= layout.width

accountIds(s) == {s.accounts[i].id : i \in DOMAIN s.accounts}

\* Fixtures are lists; the length of an account's name is the name's.
ASSUME FixturesAssumption ==
    \A s \in Setups :
        /\ DOMAIN s.records \subseteq Nat /\ DOMAIN s.incomes \subseteq Nat
        /\ DOMAIN s.tenancies \subseteq Nat
        /\ \A i \in DOMAIN s.incomes : \A a \in accountIds(s) :
            s.incomes[i].account.name = a.name => s.incomes[i].account = a

\* A user that holds an account's password holds it as that account's.
ASSUME PasswordsAssumption ==
    \A s \in Setups : \A i \in DOMAIN s.accounts : \A u \in Users : \A k \in Knows[u] :
        k.password = s.accounts[i].password => k.account = s.accounts[i].id.name

with_phases(s) ==
    /\ \A i \in DOMAIN s.records, a \in accountIds(s) : renders(s.title, a, s.records[i])
    /\ s.income # None =>
        \A i \in DOMAIN s.incomes : renders(s.income, s.incomes[i].account, s.incomes[i])
    /\ s.tenancy # None =>
        \A i \in DOMAIN s.tenancies, a \in accountIds(s) : renders(s.tenancy, a, s.tenancies[i])

oneServer(s) == \A l \in {s.income, s.tenancy} \ {None} : l.server = s.title.server

Start ==
    /\ phase = "down"
    /\ phase' = IF oneServer(setup) /\ with_phases(setup) THEN "serving" ELSE "refused"
    /\ UNCHANGED <<setup, tokens, sent, conn, wallet>>

\* The listener goes with the accept loop; connections are tasks of their own.
Drop ==
    /\ phase = "serving"
    /\ phase' = "dropped"
    /\ UNCHANGED <<setup, tokens, sent, conn, wallet>>

-----------------------------------------------------------------------------
(* The user's end of a connection.                                          *)

\* A request as this user may send it: its own credentials, or another
\* account's with its own password; a token it was given, or none.
mayRequest(u, r) ==
    /\ r.kind = "login" => r.password \in {k.password : k \in Knows[u]}
    /\ r.kind = "get" => r.token \in wallet[u] \cup {0}

Connect(c) ==
    /\ phase = "serving" /\ conn[c].at = "idle"
    /\ \E u \in Users, r \in Requests[c] :
        /\ mayRequest(u, r)
        /\ conn' = [conn EXCEPT ![c] = [Idle EXCEPT !.at = "read", !.user = u,
                                                    !.request = r, !.open = TRUE]]
    /\ UNCHANGED <<setup, phase, tokens, sent, wallet>>

size(r) == r.head + r.body

Ended(c) == conn[c].at \in {"done", "failed"}

Live(c) == conn[c].open /\ conn[c].at # "idle" /\ ~Ended(c)

\* The network takes some more bytes of the request.
Write(c) ==
    /\ Live(c) /\ conn[c].written < size(conn[c].request)
    /\ \E n \in (conn[c].written + 1)..size(conn[c].request) :
        conn' = [conn EXCEPT ![c].written = n]
    /\ UNCHANGED <<setup, phase, tokens, sent, wallet>>

\* The user leaves, before or after the whole request.
Leave(c) ==
    /\ Live(c)
    /\ conn' = [conn EXCEPT ![c].open = FALSE]
    /\ UNCHANGED <<setup, phase, tokens, sent, wallet>>

-----------------------------------------------------------------------------
(* handle: read until the request is whole, route, answer, close.           *)

\* Mutant of complete: the body is not waited for.
completeHead(r, n) == n >= r.head

\* Request::parse: Content-Length bytes after the head.
complete(r, n) == n >= r.head + r.body

\* Mutant of tooLarge: the largest request is refused.
tooLargeOffByOne(n) == n >= MAX_REQUEST

tooLarge(n) == n > MAX_REQUEST

Read(c) ==
    /\ conn[c].at = "read" /\ conn[c].buf < conn[c].written
    /\ LET r == conn[c].request
           buf == IF conn[c].buf + CHUNK <= conn[c].written THEN conn[c].buf + CHUNK
                  ELSE conn[c].written
       IN conn' = [conn EXCEPT ![c].buf = buf,
                     ![c].at = IF tooLarge(buf) \/ (r.kind = "malformed" /\ buf >= r.head)
                               THEN "failed"
                               ELSE IF complete(r, buf) THEN "route" ELSE "read"]
    /\ UNCHANGED <<setup, phase, tokens, sent, wallet>>

\* The connection closed before a complete request.
ReadEnd(c) ==
    /\ conn[c].at = "read" /\ ~conn[c].open /\ conn[c].buf = conn[c].written
    /\ conn' = [conn EXCEPT ![c].at = "failed"]
    /\ UNCHANGED <<setup, phase, tokens, sent, wallet>>

answer(c, r) == conn' = [conn EXCEPT ![c].at = "write", ![c].response = r]

\* Mutant of login: the token is the first account's.
loginAsFirst(c) ==
    LET r == conn[c].request
        known == \E i \in DOMAIN setup.accounts :
                    setup.accounts[i].id.name = r.account /\ setup.accounts[i].password = r.password
    IN IF conn[c].buf < size(r)
       THEN answer(c, status(400)) /\ UNCHANGED tokens
       ELSE IF ~known
       THEN answer(c, status(401)) /\ UNCHANGED tokens
       ELSE /\ tokens' = Append(tokens, setup.accounts[1].id.name)
            /\ answer(c, [kind |-> "token", token |-> Len(tokens) + 1])

\* A body that was cut off does not parse.
login(c) ==
    LET r == conn[c].request
        known == \E i \in DOMAIN setup.accounts :
                    setup.accounts[i].id.name = r.account /\ setup.accounts[i].password = r.password
    IN IF conn[c].buf < size(r)
       THEN answer(c, status(400)) /\ UNCHANGED tokens
       ELSE IF ~known
       THEN answer(c, status(401)) /\ UNCHANGED tokens
       ELSE /\ tokens' = Append(tokens, r.account)
            /\ answer(c, [kind |-> "token", token |-> Len(tokens) + 1])

\* The first of the fixtures, among the matching ones.
find(fixtures, matching) ==
    IF matching = {} THEN None ELSE fixtures[CHOOSE i \in matching : \A j \in matching : i <= j]

idOf(account) == (CHOOSE a \in accountIds(setup) : a.name = account)

\* The layout a target falls to and the fixture it names.
layoutOf(r) ==
    CASE r.target = "income"  -> setup.income
      [] r.target = "tenancy" -> setup.tenancy
      [] r.target = "title"   -> setup.title
      [] OTHER                -> None

fixtureOf(r, account) ==
    CASE r.target = "income"  ->
            find(setup.incomes, {i \in DOMAIN setup.incomes : setup.incomes[i].account.name = account})
      [] r.target = "tenancy" ->
            find(setup.tenancies, {i \in DOMAIN setup.tenancies : setup.tenancies[i].id = r.id})
      [] r.target = "title"   ->
            find(setup.records, {i \in DOMAIN setup.records : setup.records[i].id = r.id})

\* income, tenancy and title: the token, then the record, then its bytes.
record(c) ==
    LET r == conn[c].request
        account == tokens[r.token]
        fixture == fixtureOf(r, account)
    IN IF layoutOf(r) = None
       THEN answer(c, status(404))
       ELSE IF r.token = 0
       THEN answer(c, status(401))
       ELSE IF fixture = None
       THEN answer(c, status(404))
       ELSE IF ~renders(layoutOf(r), idOf(account), fixture)
       THEN answer(c, status(500))
       ELSE conn' = [conn EXCEPT ![c].at = "log",
                        ![c].response = [kind |-> "record", target |-> r.target,
                                         account |-> account, id |-> fixture.id]]

Route(c) ==
    /\ conn[c].at = "route"
    /\ CASE conn[c].request.kind = "login" -> login(c)
         [] conn[c].request.kind = "get"   -> record(c) /\ UNCHANGED tokens
         [] OTHER                          -> answer(c, status(405)) /\ UNCHANGED tokens
    /\ UNCHANGED <<setup, phase, sent, wallet>>

\* sent: the log has a lock of its own.
Log(c) ==
    /\ conn[c].at = "log"
    /\ sent' = Append(sent, conn[c].response)
    /\ conn' = [conn EXCEPT ![c].at = "write"]
    /\ UNCHANGED <<setup, phase, tokens, wallet>>

\* write_all and shutdown reach the user, who reads to the end.
Respond(c) ==
    /\ conn[c].at = "write" /\ conn[c].open
    /\ conn' = [conn EXCEPT ![c].at = "done"]
    /\ wallet' = IF conn[c].response.kind = "token"
                 THEN [wallet EXCEPT ![conn[c].user] = @ \cup {conn[c].response.token}]
                 ELSE wallet
    /\ UNCHANGED <<setup, phase, tokens, sent>>

RespondFails(c) ==
    /\ conn[c].at = "write" /\ ~conn[c].open
    /\ conn' = [conn EXCEPT ![c].at = "failed"]
    /\ UNCHANGED <<setup, phase, tokens, sent, wallet>>

-----------------------------------------------------------------------------
Init ==
    /\ setup \in Setups
    /\ phase = "down" /\ tokens = <<>> /\ sent = <<>>
    /\ conn = [c \in Conns |-> Idle]
    /\ wallet = [u \in Users |-> {}]

Task(c) == Read(c) \/ ReadEnd(c) \/ Route(c) \/ Log(c) \/ Respond(c) \/ RespondFails(c)

Next ==
    \/ Start \/ Drop
    \/ \E c \in Conns : Connect(c) \/ Write(c) \/ Leave(c)
    \/ \E c \in Conns : Task(c)

Spec == Init /\ [][Next]_vars

\* Every task is scheduled; a user ends its request or leaves (login writes it
\* whole; a connection that stalls is never timed out).
FairSpec == Spec /\ \A c \in Conns : WF_vars(Task(c)) /\ WF_vars(Write(c))

-----------------------------------------------------------------------------
(* Properties.                                                              *)

got(c) == IF conn[c].at = "done" THEN conn[c].response ELSE None

\* The states of the tables and of the tasks: tokens name accounts of the
\* fixtures, the log holds record responses, no task has read more than was
\* written nor more than one read beyond MAX_REQUEST (handle, route).
TypeOK ==
    /\ phase \in {"down", "serving", "refused", "dropped"}
    /\ \A t \in DOMAIN tokens : \E a \in accountIds(setup) : a.name = tokens[t]
    /\ \A i \in DOMAIN sent : sent[i].kind = "record"
    /\ \A u \in Users : wallet[u] \subseteq DOMAIN tokens
    /\ \A c \in Conns :
        /\ conn[c].at \in {"idle", "read", "route", "log", "write", "done", "failed"}
        /\ conn[c].buf <= conn[c].written /\ conn[c].buf <= MAX_REQUEST + CHUNK
        /\ conn[c].at \in {"route", "log", "write", "done"} => conn[c].buf <= MAX_REQUEST

\* However logins and requests of several users interleave, a record response
\* names an account whose password the user that gets it holds, and an income
\* is that account's own (login, account_of, income).
RecordsGoToTheirAccount ==
    \A c \in Conns : got(c).kind = "record" =>
        /\ \E k \in Knows[conn[c].user] : k.account = got(c).account
        /\ got(c).target = "income" =>
            \E i \in DOMAIN setup.incomes :
                setup.incomes[i].id = got(c).id /\ setup.incomes[i].account.name = got(c).account

\* The log of record responses has one entry for each record routed, as often
\* as it was routed: those a user got, those about to be written, and those
\* whose user had left (sent, sent_log).
LogCountsEveryRecord ==
    \A r \in {conn[c].response : c \in Conns} : r.kind = "record" =>
        Cardinality({i \in DOMAIN sent : sent[i] = r})
        = Cardinality({c \in Conns : conn[c].response = r /\ conn[c].at # "log"})

\* A request is answered as it was sent, whatever pieces it arrived in: no login
\* is refused as malformed, and credentials that are right are never refused
\* (handle, Request::parse, login).
AnsweredAsSent ==
    \A c \in Conns : (conn[c].response # None /\ conn[c].request.kind = "login") =>
        LET r == conn[c].request
            right == \E i \in DOMAIN setup.accounts :
                /\ setup.accounts[i].id.name = r.account
                /\ setup.accounts[i].password = r.password
        IN IF right THEN conn[c].response.kind = "token" ELSE conn[c].response = status(401)

\* A registry that serves never fails to render: what with_phases checked covers
\* every account that can log in (with_phases, title, income, tenancy).
NeverFailsToRender == \A c \in Conns : conn[c].response # status(500)

\* What the registry serves and logs: its tables are well formed, requests are
\* answered as they were sent, and each record goes to its account, is counted, and
\* can be rendered (route, sent).
ServedRight ==
    TypeOK /\ AnsweredAsSent /\ RecordsGoToTheirAccount /\ LogCountsEveryRecord /\ NeverFailsToRender

\* Every connection accepted ends, also after the registry is dropped.
ConnectionsEnd == \A c \in Conns : (conn[c].at # "idle") ~> Ended(c)

\* A well-formed request of at most MAX_REQUEST bytes is answered unless its
\* user leaves.
RequestsAnswered ==
    \A c \in Conns :
        (Live(c) /\ conn[c].request.kind # "malformed" /\ size(conn[c].request) <= MAX_REQUEST)
        ~> (got(c) # None \/ ~conn[c].open)

\* Nobody waits for ever at the registry: connections end, with the answer when the
\* request was one (handle).
RequestsServed == ConnectionsEnd /\ RequestsAnswered
=============================================================================
