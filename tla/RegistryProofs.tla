--------------------------- MODULE RegistryProofs ---------------------------
(***************************************************************************)
(* What the registry serves and logs, for any number of users, connections *)
(* and fixtures and any sizes.  ConnOK relates a connection to the tables; *)
(* tokens are only ever added, so a step of one connection keeps it for    *)
(* the others.  Counted relates the log to all the connections.            *)
(***************************************************************************)
EXTENDS Registry, FiniteSetTheorems, SequenceTheorems, WellFoundedInduction, TLAPS

accountNames(s) == {a.name : a \in accountIds(s)}

recordIds(s) ==
    {s.records[i].id : i \in DOMAIN s.records}
    \cup {s.incomes[i].id : i \in DOMAIN s.incomes}
    \cup {s.tenancies[i].id : i \in DOMAIN s.tenancies}

\* The record responses a registry of setup s can give.
Answers(s) == [kind : {"record"}, target : {"income", "tenancy", "title"},
               account : accountNames(s), id : recordIds(s)]

\* All that a response may be: 400 and 500 are not among them.
Responses(s) ==
    {None, status(401), status(404), status(405)} \cup [kind : {"token"}, token : Nat]
    \cup Answers(s)

SomeRequest == UNION {Requests[c] : c \in Conns}

Stages == {"idle", "read", "route", "log", "write", "done", "failed"}

Connection(s) ==
    [at : Stages,
     user : Users \cup {""}, request : SomeRequest \cup {None}, written : Nat, open : BOOLEAN,
     buf : Nat, response : Responses(s)]

\* A token that was issued for an account whose password u holds.
Owned(u, t, issued) == t \in DOMAIN issued /\ \E k \in Knows[u] : k.account = issued[t]

\* How much was read, by where the task is.
BufOK(x) ==
    /\ x.buf <= x.written /\ x.buf <= MAX_REQUEST + CHUNK
    /\ x.at # "failed" => x.buf <= MAX_REQUEST
    /\ x.at = "route" => complete(x.request, x.buf)

\* Who sent the request, and what it may name.
RequestOK(x, issued, s) ==
    x.at # "idle" =>
        /\ x.user \in Users /\ x.request \in SomeRequest
        /\ x.request.kind = "login" => x.request.password \in {k.password : k \in Knows[x.user]}
        /\ x.request.kind = "get" => x.request.token = 0 \/ Owned(x.user, x.request.token, issued)
        /\ with_phases(s)

right(r, s) ==
    \E i \in DOMAIN s.accounts :
        s.accounts[i].id.name = r.account /\ s.accounts[i].password = r.password

\* The record is of an account whose password u holds; an income is its own.
BelongsTo(r, u, s) ==
    /\ \E k \in Knows[u] : k.account = r.account
    /\ r.target = "income" =>
        \E i \in DOMAIN s.incomes :
            s.incomes[i].id = r.id /\ s.incomes[i].account.name = r.account

\* What is answered: as was asked, and to whom it belongs.
ResponseOK(x, issued, s) ==
    /\ x.at \in {"idle", "read", "route"} => x.response = None
    /\ x.at = "log" => x.response \in Answers(s)
    /\ (x.response # None /\ x.request.kind = "login") =>
        IF right(x.request, s) THEN x.response.kind = "token" ELSE x.response = status(401)
    /\ x.response.kind = "token" => Owned(x.user, x.response.token, issued)
    /\ x.response.kind = "record" => BelongsTo(x.response, x.user, s)

ConnOK(x, issued, s) == BufOK(x) /\ RequestOK(x, issued, s) /\ ResponseOK(x, issued, s)

TablesOK ==
    /\ setup \in Setups
    /\ phase \in {"down", "serving", "refused", "dropped"}
    /\ phase = "serving" => with_phases(setup)
    /\ tokens \in Seq(accountNames(setup)) /\ sent \in Seq(Answers(setup))
    /\ wallet \in [Users -> SUBSET Nat]
    /\ \A u \in Users : \A t \in wallet[u] : Owned(u, t, tokens)
    /\ conn \in [Conns -> Connection(setup)]

ConnsOK == \A c \in Conns : ConnOK(conn[c], tokens, setup)

Logged(r) == {i \in DOMAIN sent : sent[i] = r}
Routed(r) == {c \in Conns : conn[c].response = r /\ conn[c].at # "log"}

Counted == \A r \in Answers(setup) : Cardinality(Logged(r)) = Cardinality(Routed(r))

\* The inductive invariant.
RInv == TablesOK /\ ConnsOK /\ Counted

-----------------------------------------------------------------------------
(* Data.                                                                    *)

LEMMA Sizes == MAX_REQUEST \in Nat /\ CHUNK \in Nat
BY SizesAssumption

\* A set of list positions that is not empty has a least one.
LEMMA LeastPosition ==
    ASSUME NEW T, T \subseteq Nat, T # {}
    PROVE  \E i \in T : \A j \in T : i <= j
<1>1. \E x \in T : \A y \in T : ~(<<y, x>> \in OpToRel(<, Nat))
  BY NatLessThanWellFounded, WFMin, Zenon
<1>2. PICK x \in T : \A y \in T : ~(y < x)
  BY <1>1 DEF OpToRel
<1>3. \A y \in T : x <= y
  BY <1>2
<1> QED BY <1>3

\* find returns one of the matching fixtures.
LEMMA FindFinds ==
    ASSUME NEW fixtures, NEW matching, matching \subseteq Nat, find(fixtures, matching) # None
    PROVE  \E i \in matching : find(fixtures, matching) = fixtures[i]
<1>1. matching # {}
  BY DEF find
<1>2. PICK i \in matching : \A j \in matching : i <= j
  BY <1>1, LeastPosition
<1> DEFINE m == CHOOSE k \in matching : \A j \in matching : k <= j
<1>3. m \in matching
  BY <1>2
<1>4. find(fixtures, matching) = fixtures[m]
  BY <1>1 DEF find
<1> QED BY <1>3, <1>4

LEMMA AppendAdds ==
    ASSUME NEW S, NEW s \in Seq(S), NEW e \in S
    PROVE  /\ Append(s, e) \in Seq(S)
           /\ DOMAIN Append(s, e) = DOMAIN s \cup {Len(s) + 1} /\ Len(s) + 1 \notin DOMAIN s
           /\ \A i \in DOMAIN s : Append(s, e)[i] = s[i]
           /\ Append(s, e)[Len(s) + 1] = e
           /\ Len(s) \in Nat /\ DOMAIN s = 1..Len(s)
<1>1. Len(Append(s, e)) = Len(s) + 1 /\ Len(s) \in Nat /\ Append(s, e) \in Seq(S)
  OBVIOUS
<1>2. DOMAIN Append(s, e) = 1..(Len(s) + 1) /\ DOMAIN s = 1..Len(s)
  BY <1>1
<1> QED BY <1>1, <1>2

\* Issuing a token takes nothing from what was issued.
LEMMA OwnedStays ==
    ASSUME NEW S, NEW issued \in Seq(S), NEW a \in S, NEW u, NEW t, Owned(u, t, issued)
    PROVE  Owned(u, t, Append(issued, a))
BY AppendAdds DEF Owned

LEMMA ConnOKStays ==
    ASSUME NEW s, NEW issued \in Seq(accountNames(s)), NEW a \in accountNames(s),
           NEW x, ConnOK(x, issued, s)
    PROVE  ConnOK(x, Append(issued, a), s)
<1>1. RequestOK(x, Append(issued, a), s)
  BY OwnedStays DEF ConnOK, RequestOK
<1>2. ResponseOK(x, Append(issued, a), s)
  BY OwnedStays DEF ConnOK, ResponseOK
<1> QED BY <1>1, <1>2 DEF ConnOK

-----------------------------------------------------------------------------
(* A step of one connection.                                                *)

\* What a step of c does to the tables, whatever it does.
StepOf(c) ==
    /\ setup' = setup /\ phase' = phase
    /\ tokens' = tokens \/ \E a \in accountNames(setup) : tokens' = Append(tokens, a)
    /\ conn' \in [Conns -> Connection(setup)]
    /\ \A d \in Conns \ {c} : conn'[d] = conn[d]
    /\ ConnOK(conn'[c], tokens', setup)

\* No step of c but Log and Route changes whether c counts as an answer.
SameAnswer(c) ==
    \/ conn'[c].response = conn[c].response /\ (conn'[c].at = "log" <=> conn[c].at = "log")
    \/ /\ conn[c].response = None
       /\ conn'[c].at = "log" \/ conn'[c].response.kind # "record"

LEMMA StepKeepsConns ==
    ASSUME RInv, NEW c \in Conns, StepOf(c)
    PROVE  ConnsOK' /\ (\A u \in Users : \A t : Owned(u, t, tokens) => Owned(u, t, tokens'))
                    /\ tokens' \in Seq(accountNames(setup))
<1>1. CASE tokens' = tokens
  BY <1>1 DEF StepOf, RInv, ConnsOK, TablesOK
<1>2. CASE \E a \in accountNames(setup) : tokens' = Append(tokens, a)
  <2>1. PICK a \in accountNames(setup) : tokens' = Append(tokens, a)
    BY <1>2
  <2>2. tokens \in Seq(accountNames(setup))
    BY DEF RInv, TablesOK
  <2>3. \A d \in Conns : ConnOK(conn[d], tokens', setup)
    BY <2>1, <2>2, ConnOKStays DEF RInv, ConnsOK
  <2>4. ConnsOK'
    BY <2>3 DEF StepOf, ConnsOK
  <2>5. \A u \in Users : \A t : Owned(u, t, tokens) => Owned(u, t, tokens')
    BY <2>1, <2>2, OwnedStays
  <2>6. tokens' \in Seq(accountNames(setup))
    BY <2>1, <2>2, AppendAdds
  <2> QED BY <2>4, <2>5, <2>6
<1> QED BY <1>1, <1>2 DEF StepOf

LEMMA StepKeepsTables ==
    ASSUME RInv, NEW c \in Conns, StepOf(c), sent' = sent, wallet' = wallet
    PROVE  TablesOK'
BY StepKeepsConns DEF StepOf, RInv, TablesOK

LEMMA StepKeepsCount ==
    ASSUME RInv, NEW c \in Conns, StepOf(c), SameAnswer(c), sent' = sent
    PROVE  Counted'
<1> SUFFICES ASSUME NEW r \in Answers(setup)
             PROVE  (Cardinality(Logged(r)) = Cardinality(Routed(r)))'
  BY DEF Counted, StepOf
<1>1. r.kind = "record"
  BY DEF Answers
<1>2. None.kind # "record"
  BY DEF None
<1>3. (conn'[c].response = r /\ conn'[c].at # "log") <=> (conn[c].response = r /\ conn[c].at # "log")
  BY <1>1, <1>2 DEF SameAnswer
<1>4. Routed(r)' = Routed(r)
  BY <1>3 DEF Routed, StepOf
<1>5. Logged(r)' = Logged(r)
  BY DEF Logged
<1> QED BY <1>4, <1>5 DEF RInv, Counted

\* Every step but those that log or hand over a token.
LEMMA StepKeeps ==
    ASSUME RInv, NEW c \in Conns, StepOf(c), SameAnswer(c), sent' = sent, wallet' = wallet
    PROVE  RInv'
BY StepKeepsConns, StepKeepsTables, StepKeepsCount DEF RInv

LEMMA ConnTyped ==
    ASSUME RInv, NEW c \in Conns
    PROVE  conn[c] \in Connection(setup) /\ ConnOK(conn[c], tokens, setup)
BY DEF RInv, TablesOK, ConnsOK

LEMMA AllTyped ==
    RInv => conn \in [Conns -> Connection(setup)]
BY DEF RInv, TablesOK

LEMMA Fields ==
    ASSUME NEW s, NEW x \in Connection(s)
    PROVE  x.buf \in Nat /\ x.written \in Nat /\ x.at \in Stages
BY DEF Connection

LEMMA SetAt ==
    ASSUME NEW s, NEW f \in [Conns -> Connection(s)], NEW c \in Conns, NEW at \in Stages
    PROVE  [f EXCEPT ![c].at = at] \in [Conns -> Connection(s)]
BY DEF Connection

LEMMA SetResponse ==
    ASSUME NEW s, NEW f \in [Conns -> Connection(s)], NEW c \in Conns, NEW y \in Responses(s)
    PROVE  [f EXCEPT ![c].response = y] \in [Conns -> Connection(s)]
BY DEF Connection

-----------------------------------------------------------------------------
(* The user's end.                                                          *)

LEMMA ConnectKeeps ==
    ASSUME RInv, NEW c \in Conns, Connect(c)
    PROVE  RInv'
<1>1. PICK u \in Users, r \in Requests[c] :
        /\ mayRequest(u, r)
        /\ conn' = [conn EXCEPT ![c] = [Idle EXCEPT !.at = "read", !.user = u,
                                                    !.request = r, !.open = TRUE]]
  BY DEF Connect
<1> DEFINE y == [Idle EXCEPT !.at = "read", !.user = u, !.request = r, !.open = TRUE]
<1>2. r \in SomeRequest
  BY DEF SomeRequest
<1>3. Idle \in Connection(setup)
  BY DEF Idle, Connection, Responses, Stages
<1>4. /\ y \in Connection(setup) /\ y.at = "read" /\ y.user = u /\ y.request = r
      /\ y.written = 0 /\ y.buf = 0 /\ y.response = None
  <2>1. y \in Connection(setup) /\ y.at = "read" /\ y.user = u /\ y.request = r
    BY <1>2, <1>3 DEF Connection, Stages
  <2>2. y.written = Idle.written /\ y.buf = Idle.buf /\ y.response = Idle.response
    BY <1>3 DEF Connection
  <2> QED BY <2>1, <2>2 DEF Idle
<1> HIDE DEF y
<1>5. /\ conn' \in [Conns -> Connection(setup)] /\ conn'[c] = y
      /\ \A d \in Conns \ {c} : conn'[d] = conn[d]
  BY <1>1, <1>4, AllTyped DEF y
<1>6. BufOK(y)
  BY <1>4, Sizes DEF BufOK
<1>7. r.kind = "get" => r.token = 0 \/ Owned(u, r.token, tokens)
  BY <1>1 DEF mayRequest, RInv, TablesOK
<1>8. RequestOK(y, tokens, setup)
  BY <1>1, <1>2, <1>4, <1>7 DEF RequestOK, mayRequest, Connect, RInv, TablesOK
<1>9. ResponseOK(y, tokens, setup)
  BY <1>4 DEF ResponseOK, None
<1>10. StepOf(c)
  BY <1>5, <1>6, <1>8, <1>9 DEF StepOf, Connect, ConnOK
<1>11. conn[c].response = None
  BY ConnTyped DEF ConnOK, ResponseOK, Connect
<1>12. SameAnswer(c)
  BY <1>4, <1>5, <1>11 DEF SameAnswer, None
<1> QED BY <1>10, <1>12, StepKeeps DEF Connect

\* A step that leaves the request and the response as they are.
LEMMA Moves ==
    ASSUME RInv, NEW c \in Conns, conn' \in [Conns -> Connection(setup)],
           \A d \in Conns \ {c} : conn'[d] = conn[d],
           conn[c].at \notin {"idle", "log"}, conn'[c].at \notin {"idle", "log"},
           conn'[c].user = conn[c].user, conn'[c].request = conn[c].request,
           conn'[c].response = conn[c].response, BufOK(conn'[c]),
           conn'[c].at \in {"read", "route"} => conn[c].at \in {"read", "route"},
           UNCHANGED <<setup, phase, tokens, sent>>
    PROVE  StepOf(c) /\ SameAnswer(c)
<1>1. ConnOK(conn[c], tokens, setup)
  BY ConnTyped
<1>2. RequestOK(conn'[c], tokens', setup)
  BY <1>1 DEF ConnOK, RequestOK
<1>3. ResponseOK(conn'[c], tokens', setup)
  BY <1>1 DEF ConnOK, ResponseOK
<1> QED BY <1>2, <1>3 DEF StepOf, SameAnswer, ConnOK

LEMMA WriteKeeps ==
    ASSUME RInv, NEW c \in Conns, Write(c)
    PROVE  RInv'
<1>1. PICK n \in (conn[c].written + 1)..size(conn[c].request) :
        conn' = [conn EXCEPT ![c].written = n]
  BY DEF Write
<1>2. conn[c] \in Connection(setup) /\ BufOK(conn[c])
  BY ConnTyped DEF ConnOK
<1>3. n \in Nat /\ n > conn[c].written
  <2>1. conn[c].request \in SomeRequest
    BY ConnTyped DEF ConnOK, RequestOK, Write, Live
  <2>2. size(conn[c].request) \in Nat
    BY <2>1, RequestsAssumption DEF size, SomeRequest
  <2> QED BY <1>2, <2>2, Fields
<1>4. /\ conn' \in [Conns -> Connection(setup)]
      /\ conn'[c].written = n /\ conn'[c].at = conn[c].at /\ conn'[c].buf = conn[c].buf
      /\ conn'[c].user = conn[c].user /\ conn'[c].request = conn[c].request
      /\ conn'[c].response = conn[c].response
      /\ \A d \in Conns \ {c} : conn'[d] = conn[d]
  BY <1>1, <1>3, AllTyped DEF Connection
<1>5. BufOK(conn'[c])
  BY <1>2, <1>3, <1>4, Sizes, Fields DEF BufOK
<1>6. ConnOK(conn'[c], tokens, setup)
  BY <1>4, <1>5, ConnTyped DEF ConnOK, RequestOK, ResponseOK
<1>7. StepOf(c)
  BY <1>4, <1>6 DEF StepOf, Write
<1>8. SameAnswer(c)
  BY <1>4 DEF SameAnswer
<1> QED BY <1>7, <1>8, StepKeeps DEF Write

LEMMA LeaveKeeps ==
    ASSUME RInv, NEW c \in Conns, Leave(c)
    PROVE  RInv'
<1>2. /\ conn' \in [Conns -> Connection(setup)]
      /\ conn'[c].at = conn[c].at /\ conn'[c].buf = conn[c].buf
      /\ conn'[c].written = conn[c].written
      /\ conn'[c].user = conn[c].user /\ conn'[c].request = conn[c].request
      /\ conn'[c].response = conn[c].response
      /\ \A d \in Conns \ {c} : conn'[d] = conn[d]
  BY AllTyped DEF Connection, Leave
<1>3. ConnOK(conn'[c], tokens, setup)
  BY <1>2, ConnTyped DEF ConnOK, BufOK, RequestOK, ResponseOK
<1>4. StepOf(c)
  BY <1>2, <1>3 DEF StepOf, Leave
<1>5. SameAnswer(c)
  BY <1>2 DEF SameAnswer
<1> QED BY <1>4, <1>5, StepKeeps DEF Leave

-----------------------------------------------------------------------------
(* The task: reading.                                                       *)

LEMMA ReadKeeps ==
    ASSUME RInv, NEW c \in Conns, Read(c)
    PROVE  RInv'
<1> DEFINE r   == conn[c].request
           buf == IF conn[c].buf + CHUNK <= conn[c].written THEN conn[c].buf + CHUNK
                  ELSE conn[c].written
           at  == IF tooLarge(buf) \/ (r.kind = "malformed" /\ buf >= r.head) THEN "failed"
                  ELSE IF complete(r, buf) THEN "route" ELSE "read"
<1>1. conn' = [conn EXCEPT ![c].buf = buf, ![c].at = at]
  BY DEF Read
<1>2. conn[c] \in Connection(setup) /\ BufOK(conn[c]) /\ conn[c].at = "read"
  BY ConnTyped DEF ConnOK, Read
<1>3. /\ buf \in Nat /\ buf <= conn[c].written /\ buf <= MAX_REQUEST + CHUNK
  BY <1>2, Sizes, Fields DEF BufOK
<1>4. /\ at \in {"failed", "route", "read"} /\ (at # "failed" => buf <= MAX_REQUEST)
      /\ at = "route" => complete(r, buf)
  BY <1>3, Sizes DEF tooLarge
<1> HIDE DEF buf, at
<1>5. /\ conn' \in [Conns -> Connection(setup)]
      /\ conn'[c].at = at /\ conn'[c].buf = buf /\ conn'[c].request = r
      /\ conn'[c].written = conn[c].written
      /\ conn'[c].user = conn[c].user /\ conn'[c].response = conn[c].response
      /\ \A d \in Conns \ {c} : conn'[d] = conn[d]
  <2> at \in Stages
    BY <1>4 DEF Stages
  <2>1. conn' \in [Conns -> Connection(setup)]
    <3>1. [conn EXCEPT ![c].buf = buf] \in [Conns -> Connection(setup)]
      BY <1>3, AllTyped DEF Connection
    <3>2. conn' = [[conn EXCEPT ![c].buf = buf] EXCEPT ![c].at = at]
      BY <1>1, AllTyped
    <3> QED BY <3>1, <3>2, SetAt, Zenon
  <2>2. /\ conn'[c].at = at /\ conn'[c].buf = buf /\ conn'[c].request = r
        /\ conn'[c].written = conn[c].written
        /\ conn'[c].user = conn[c].user /\ conn'[c].response = conn[c].response
    BY <1>1, AllTyped DEF Connection
  <2>3. \A d \in Conns \ {c} : conn'[d] = conn[d]
    BY <1>1, AllTyped
  <2> QED BY <2>1, <2>2, <2>3
<1>6. BufOK(conn'[c])
  BY <1>3, <1>4, <1>5 DEF BufOK
<1>7. UNCHANGED <<setup, phase, tokens, sent, wallet>>
  BY DEF Read
<1> QED BY <1>2, <1>4, <1>5, <1>6, <1>7, Moves, StepKeeps

\* The task ends and leaves the rest of its connection as it was.
LEMMA EndKeeps ==
    ASSUME RInv, NEW c \in Conns, NEW at \in {"failed", "done"},
           conn[c].at \in {"read", "write"}, at = "done" => conn[c].at = "write",
           conn' = [conn EXCEPT ![c].at = at], UNCHANGED <<setup, phase, tokens, sent>>
    PROVE  StepOf(c) /\ SameAnswer(c)
<1>1. conn[c] \in Connection(setup) /\ BufOK(conn[c])
  BY ConnTyped DEF ConnOK
<1>2. conn' \in [Conns -> Connection(setup)] /\ conn'[c] = [conn[c] EXCEPT !.at = at]
      /\ \A d \in Conns \ {c} : conn'[d] = conn[d]
  <2> at \in Stages
    BY DEF Stages
  <2>1. conn' \in [Conns -> Connection(setup)]
    BY AllTyped DEF Connection
  <2>2. conn'[c] = [conn[c] EXCEPT !.at = at] /\ \A d \in Conns \ {c} : conn'[d] = conn[d]
    BY AllTyped
  <2> QED BY <2>1, <2>2
<1>3. /\ conn'[c].at = at /\ conn'[c].buf = conn[c].buf
      /\ conn'[c].written = conn[c].written /\ conn'[c].request = conn[c].request
      /\ conn'[c].user = conn[c].user /\ conn'[c].response = conn[c].response
  BY <1>1, <1>2 DEF Connection
<1>4. BufOK(conn'[c])
  BY <1>1, <1>3 DEF BufOK
<1> QED BY <1>2, <1>3, <1>4, Moves

LEMMA ReadEndKeeps ==
    ASSUME RInv, NEW c \in Conns, ReadEnd(c)
    PROVE  RInv'
BY EndKeeps, StepKeeps DEF ReadEnd

LEMMA RespondFailsKeeps ==
    ASSUME RInv, NEW c \in Conns, RespondFails(c)
    PROVE  RInv'
BY EndKeeps, StepKeeps DEF RespondFails

\* What is handed over is a token of an account whose password the user holds.
LEMMA RespondKeeps ==
    ASSUME RInv, NEW c \in Conns, Respond(c)
    PROVE  RInv'
<1> DEFINE u == conn[c].user
           t == conn[c].response.token
<1>1. StepOf(c) /\ SameAnswer(c) /\ UNCHANGED <<setup, phase, tokens, sent>>
  BY EndKeeps DEF Respond
<1>2. wallet \in [Users -> SUBSET Nat] /\ tokens \in Seq(accountNames(setup))
  BY DEF RInv, TablesOK
<1>3. CASE conn[c].response.kind # "token"
  BY <1>1, <1>3, StepKeeps DEF Respond
<1>4. CASE conn[c].response.kind = "token"
  <2>1. u \in Users /\ Owned(u, t, tokens)
    BY <1>4, ConnTyped DEF ConnOK, RequestOK, ResponseOK, Respond
  <2>2. t \in Nat
    BY <1>2, <2>1 DEF Owned
  <2>3. wallet' = [wallet EXCEPT ![u] = @ \cup {t}]
    BY <1>4 DEF Respond
  <2>4. wallet' \in [Users -> SUBSET Nat]
    BY <1>2, <2>1, <2>2, <2>3
  <2>5. \A v \in Users : \A n \in wallet'[v] : Owned(v, n, tokens)
    BY <1>2, <2>1, <2>3 DEF RInv, TablesOK
  <2>6. TablesOK'
    BY <1>1, <2>4, <2>5 DEF TablesOK, RInv, StepOf
  <2> QED BY <1>1, <2>6, StepKeepsConns, StepKeepsCount DEF RInv
<1> QED BY <1>3, <1>4

-----------------------------------------------------------------------------
(* The task: the answer.                                                    *)

LEMMA SetAnswer ==
    ASSUME NEW s, conn \in [Conns -> Connection(s)], NEW c \in Conns, NEW y \in Responses(s),
           NEW at \in {"write", "log"},
           conn' = [conn EXCEPT ![c].at = at, ![c].response = y]
    PROVE  /\ conn' \in [Conns -> Connection(s)]
           /\ conn'[c].at = at /\ conn'[c].response = y
           /\ conn'[c].buf = conn[c].buf /\ conn'[c].written = conn[c].written
           /\ conn'[c].user = conn[c].user /\ conn'[c].request = conn[c].request
           /\ \A d \in Conns \ {c} : conn'[d] = conn[d]
<1> at \in Stages
  BY DEF Stages
<1>1. conn' \in [Conns -> Connection(s)]
  <2> DEFINE f == [conn EXCEPT ![c].at = at]
  <2>1. f \in [Conns -> Connection(s)]
    BY SetAt
  <2>2. conn' = [f EXCEPT ![c].response = y]
    OBVIOUS
  <2> HIDE DEF f
  <2>3. [f EXCEPT ![c].response = y] \in [Conns -> Connection(s)]
    BY <2>1, SetResponse
  <2> QED BY <2>2, <2>3, Zenon
<1>2. /\ conn'[c].at = at /\ conn'[c].response = y
      /\ conn'[c].buf = conn[c].buf /\ conn'[c].written = conn[c].written
      /\ conn'[c].user = conn[c].user /\ conn'[c].request = conn[c].request
  BY DEF Connection
<1>3. \A d \in Conns \ {c} : conn'[d] = conn[d]
  OBVIOUS
<1> QED BY <1>1, <1>2, <1>3

\* An answer that is no record: it is typed, belongs to the user and is what a
\* login expects.
LEMMA AnswerKeeps ==
    ASSUME RInv, NEW c \in Conns, NEW y \in Responses(setup), conn[c].at = "route",
           answer(c, y), y.kind # "record",
           conn[c].request.kind = "login" =>
               IF right(conn[c].request, setup) THEN y.kind = "token" ELSE y = status(401),
           y.kind = "token" => Owned(conn[c].user, y.token, tokens'),
           tokens' = tokens \/ \E a \in accountNames(setup) : tokens' = Append(tokens, a),
           UNCHANGED <<setup, phase, sent, wallet>>
    PROVE  RInv'
<1>1. /\ conn' \in [Conns -> Connection(setup)]
      /\ conn'[c].at = "write" /\ conn'[c].response = y
      /\ conn'[c].buf = conn[c].buf /\ conn'[c].written = conn[c].written
      /\ conn'[c].user = conn[c].user /\ conn'[c].request = conn[c].request
      /\ \A d \in Conns \ {c} : conn'[d] = conn[d]
  BY AllTyped, SetAnswer DEF answer
<1>2. ConnOK(conn[c], tokens, setup)
  BY ConnTyped
<1>3. ConnOK(conn[c], tokens', setup)
  <2>1. tokens \in Seq(accountNames(setup))
    BY DEF RInv, TablesOK
  <2> QED BY <1>2, <2>1, ConnOKStays
<1>4. BufOK(conn'[c]) /\ RequestOK(conn'[c], tokens', setup)
  BY <1>1, <1>3 DEF ConnOK, BufOK, RequestOK
<1>5. ResponseOK(conn'[c], tokens', setup)
  <2>1. conn[c].request.kind = "login" =>
            (right(conn[c].request, setup) /\ y.kind = "token")
            \/ (~right(conn[c].request, setup) /\ y = status(401))
    OBVIOUS
  <2> QED BY <1>1, <2>1 DEF ResponseOK
<1>6. StepOf(c)
  BY <1>1, <1>4, <1>5 DEF StepOf, ConnOK
<1>7. conn[c].response = None
  BY <1>2 DEF ConnOK, ResponseOK
<1>8. SameAnswer(c)
  BY <1>1, <1>7 DEF SameAnswer
<1> QED BY <1>6, <1>8, StepKeeps

LEMMA StatusFacts ==
    ASSUME NEW s
    PROVE  /\ {status(401), status(404), status(405)} \subseteq Responses(s)
           /\ \A n : status(n).kind = "status"
BY DEF Responses, status

\* login: a complete request parses, and a token is issued for the account the
\* password belongs to.
LEMMA LoginKeeps ==
    ASSUME RInv, NEW c \in Conns, conn[c].at = "route", conn[c].request.kind = "login",
           login(c), UNCHANGED <<setup, phase, sent, wallet>>
    PROVE  RInv'
<1> DEFINE r == conn[c].request
           u == conn[c].user
<1>1. ConnOK(conn[c], tokens, setup) /\ conn[c].buf \in Nat
  BY ConnTyped, Fields
<1>2. /\ r \in SomeRequest /\ u \in Users /\ complete(r, conn[c].buf)
      /\ r.password \in {k.password : k \in Knows[u]}
  BY <1>1 DEF ConnOK, RequestOK, BufOK
<1>3. ~(conn[c].buf < size(r))
  <2>1. r.head \in Nat /\ r.body \in Nat
    BY <1>2, RequestsAssumption DEF SomeRequest
  <2> QED BY <1>1, <1>2, <2>1 DEF complete, size
<1>4. CASE ~right(r, setup)
  <2>1. answer(c, status(401)) /\ tokens' = tokens
    BY <1>3, <1>4 DEF login, right
  <2> QED BY <1>4, <2>1, AnswerKeeps, StatusFacts
<1>5. CASE right(r, setup)
  <2> DEFINE t == Len(tokens) + 1
             y == [kind |-> "token", token |-> t]
  <2>1. tokens' = Append(tokens, r.account) /\ answer(c, y)
    BY <1>3, <1>5 DEF login, right
  <2>2. PICK i \in DOMAIN setup.accounts :
          setup.accounts[i].id.name = r.account /\ setup.accounts[i].password = r.password
    BY <1>5 DEF right
  <2>3. r.account \in accountNames(setup)
    BY <2>2 DEF accountNames, accountIds
  <2>4. tokens \in Seq(accountNames(setup)) /\ setup \in Setups
    BY DEF RInv, TablesOK
  <2>5. t \in Nat /\ t \in DOMAIN tokens' /\ tokens'[t] = r.account
    BY <2>1, <2>3, <2>4, AppendAdds
  <2>6. \E k \in Knows[u] : k.account = r.account
    BY <1>2, <2>2, <2>4, PasswordsAssumption
  <2>7. Owned(u, t, tokens')
    BY <2>5, <2>6 DEF Owned
  <2>8. y \in Responses(setup) /\ y.kind = "token" /\ y.token = t
    BY <2>5 DEF Responses
  <2> HIDE DEF t, y
  <2> QED BY <1>5, <2>1, <2>3, <2>7, <2>8, AnswerKeeps
<1> QED BY <1>4, <1>5

\* What a request with a token is answered with: with_phases checked that it
\* renders, it is of the user's account, and an income is that account's own.
LEMMA RecordRight ==
    ASSUME RInv, NEW c \in Conns, conn[c].at = "route", conn[c].request.kind = "get",
           layoutOf(conn[c].request) # None, conn[c].request.token # 0,
           NEW account, account = tokens[conn[c].request.token],
           NEW fixture, fixture = fixtureOf(conn[c].request, account), fixture # None,
           NEW y, y = [kind |-> "record", target |-> conn[c].request.target,
                       account |-> account, id |-> fixture.id]
    PROVE  /\ renders(layoutOf(conn[c].request), idOf(account), fixture)
           /\ y \in Answers(setup) /\ BelongsTo(y, conn[c].user, setup)
<1> DEFINE r == conn[c].request
<1>1. ConnOK(conn[c], tokens, setup) /\ setup \in Setups /\ tokens \in Seq(accountNames(setup))
  BY ConnTyped DEF RInv, TablesOK
<1>2. Owned(conn[c].user, r.token, tokens) /\ with_phases(setup)
  BY <1>1 DEF ConnOK, RequestOK
<1>3. account \in accountNames(setup) /\ \E k \in Knows[conn[c].user] : k.account = account
  BY <1>1, <1>2 DEF Owned
<1>4. idOf(account) \in accountIds(setup) /\ idOf(account).name = account
  BY <1>3 DEF idOf, accountNames
<1>5. /\ y.target = r.target /\ y.account = account /\ y.id = fixture.id
      /\ (r.target \in {"income", "tenancy", "title"} /\ fixture.id \in recordIds(setup))
         => y \in Answers(setup)
  BY <1>3 DEF Answers
<1>6. CASE r.target = "income"
  <2> DEFINE matching == {i \in DOMAIN setup.incomes : setup.incomes[i].account.name = account}
  <2>1. fixture = find(setup.incomes, matching)
    BY <1>6 DEF fixtureOf
  <2>2. PICK i \in DOMAIN setup.incomes :
          setup.incomes[i].account.name = account /\ fixture = setup.incomes[i]
    <3>1. matching \subseteq Nat
      BY <1>1, FixturesAssumption
    <3>2. find(setup.incomes, matching) # None
      BY <2>1
    <3>3. \E i \in matching : find(setup.incomes, matching) = setup.incomes[i]
      BY <3>1, <3>2, FindFinds, Zenon
    <3> QED BY <2>1, <3>3
  <2>3. setup.incomes[i].account = idOf(account)
    BY <1>1, <1>4, <2>2, FixturesAssumption
  <2>4. layoutOf(r) = setup.income
    BY <1>6 DEF layoutOf
  <2>5. renders(layoutOf(r), idOf(account), fixture)
    BY <1>2, <2>2, <2>3, <2>4 DEF with_phases
  <2>6. fixture.id \in recordIds(setup)
    BY <2>2 DEF recordIds
  <2>7. BelongsTo(y, conn[c].user, setup)
    BY <1>3, <1>5, <2>2 DEF BelongsTo
  <2> QED BY <1>5, <1>6, <2>5, <2>6, <2>7
<1>7. CASE r.target = "tenancy"
  <2> DEFINE matching == {i \in DOMAIN setup.tenancies : setup.tenancies[i].id = r.id}
  <2>1. fixture = find(setup.tenancies, matching)
    BY <1>7 DEF fixtureOf
  <2>2. PICK i \in DOMAIN setup.tenancies : fixture = setup.tenancies[i]
    <3>1. matching \subseteq Nat
      BY <1>1, FixturesAssumption
    <3>2. find(setup.tenancies, matching) # None
      BY <2>1
    <3>3. \E i \in matching : find(setup.tenancies, matching) = setup.tenancies[i]
      BY <3>1, <3>2, FindFinds, Zenon
    <3> QED BY <2>1, <3>3
  <2>3. layoutOf(r) = setup.tenancy
    BY <1>7 DEF layoutOf
  <2>4. renders(layoutOf(r), idOf(account), fixture)
    BY <1>2, <1>4, <2>2, <2>3 DEF with_phases
  <2>5. fixture.id \in recordIds(setup)
    BY <2>2 DEF recordIds
  <2>6. BelongsTo(y, conn[c].user, setup)
    BY <1>3, <1>5, <1>7 DEF BelongsTo
  <2> QED BY <1>5, <1>7, <2>4, <2>5, <2>6
<1>8. CASE r.target = "title"
  <2> DEFINE matching == {i \in DOMAIN setup.records : setup.records[i].id = r.id}
  <2>1. fixture = find(setup.records, matching)
    BY <1>8 DEF fixtureOf
  <2>2. PICK i \in DOMAIN setup.records : fixture = setup.records[i]
    <3>1. matching \subseteq Nat
      BY <1>1, FixturesAssumption
    <3>2. find(setup.records, matching) # None
      BY <2>1
    <3>3. \E i \in matching : find(setup.records, matching) = setup.records[i]
      BY <3>1, <3>2, FindFinds, Zenon
    <3> QED BY <2>1, <3>3
  <2>3. layoutOf(r) = setup.title
    BY <1>8 DEF layoutOf
  <2>4. renders(layoutOf(r), idOf(account), fixture)
    BY <1>2, <1>4, <2>2, <2>3 DEF with_phases
  <2>5. fixture.id \in recordIds(setup)
    BY <2>2 DEF recordIds
  <2>6. BelongsTo(y, conn[c].user, setup)
    BY <1>3, <1>5, <1>8 DEF BelongsTo
  <2> QED BY <1>5, <1>8, <2>4, <2>5, <2>6
<1>9. r.target \in {"income", "tenancy", "title"}
  BY DEF layoutOf
<1> QED BY <1>6, <1>7, <1>8, <1>9

LEMMA RecordKeeps ==
    ASSUME RInv, NEW c \in Conns, conn[c].at = "route", conn[c].request.kind = "get",
           record(c), UNCHANGED <<setup, phase, tokens, sent, wallet>>
    PROVE  RInv'
<1> DEFINE r       == conn[c].request
           account == tokens[r.token]
           fixture == fixtureOf(r, account)
           y       == [kind |-> "record", target |-> r.target,
                       account |-> account, id |-> fixture.id]
<1>1. CASE layoutOf(r) = None \/ r.token = 0 \/ fixture = None
  <2>1. answer(c, status(404)) \/ answer(c, status(401))
    BY <1>1 DEF record
  <2> QED BY <2>1, AnswerKeeps, StatusFacts
<1>2. CASE layoutOf(r) # None /\ r.token # 0 /\ fixture # None
  <2>1. /\ renders(layoutOf(r), idOf(account), fixture)
        /\ y \in Answers(setup) /\ BelongsTo(y, conn[c].user, setup)
    BY <1>2, RecordRight
  <2>2. conn' = [conn EXCEPT ![c].at = "log", ![c].response = y]
    BY <1>2, <2>1 DEF record
  <2>3. y.kind = "record"
    OBVIOUS
  <2> HIDE DEF y
  <2>4. y \in Responses(setup) /\ y # None
    BY <2>1, <2>3 DEF Responses, None
  <2>5. /\ conn' \in [Conns -> Connection(setup)]
        /\ conn'[c].at = "log" /\ conn'[c].response = y
        /\ conn'[c].buf = conn[c].buf /\ conn'[c].written = conn[c].written
        /\ conn'[c].user = conn[c].user /\ conn'[c].request = r
        /\ \A d \in Conns \ {c} : conn'[d] = conn[d]
    BY <2>2, <2>4, AllTyped, SetAnswer
  <2>6. ConnOK(conn[c], tokens, setup)
    BY ConnTyped
  <2>7. BufOK(conn'[c]) /\ RequestOK(conn'[c], tokens, setup)
    BY <2>5, <2>6 DEF ConnOK, BufOK, RequestOK
  <2>8. ResponseOK(conn'[c], tokens, setup)
    BY <2>1, <2>3, <2>5, <2>4 DEF ResponseOK
  <2>9. StepOf(c)
    BY <2>5, <2>7, <2>8 DEF StepOf, ConnOK
  <2>10. SameAnswer(c)
    BY <2>5, <2>6 DEF SameAnswer, ConnOK, ResponseOK
  <2> QED BY <2>9, <2>10, StepKeeps
<1> QED BY <1>1, <1>2

LEMMA RouteKeeps ==
    ASSUME RInv, NEW c \in Conns, Route(c)
    PROVE  RInv'
<1> DEFINE kind == conn[c].request.kind
<1>1. CASE kind = "login"
  BY <1>1, LoginKeeps DEF Route
<1>2. CASE kind = "get"
  BY <1>2, RecordKeeps DEF Route
<1>3. CASE kind \notin {"login", "get"}
  <2>1. answer(c, status(405)) /\ tokens' = tokens /\ UNCHANGED <<setup, phase, sent, wallet>>
    BY <1>3 DEF Route
  <2> QED BY <1>3, <2>1, AnswerKeeps, StatusFacts DEF Route
<1> QED BY <1>1, <1>2, <1>3

\* Logging a response adds it to the log and its connection to those counted.
LEMMA LogCounts ==
    ASSUME RInv, NEW c \in Conns, Log(c), StepOf(c), conn'[c].at = "write",
           conn'[c].response = conn[c].response, conn[c].response \in Answers(setup)
    PROVE  Counted'
<1> SUFFICES ASSUME NEW r \in Answers(setup)
             PROVE  Cardinality(Logged(r)') = Cardinality(Routed(r)')
  BY DEF Counted, StepOf
<1>1. sent' = Append(sent, conn[c].response) /\ sent \in Seq(Answers(setup)) /\ conn[c].at = "log"
  BY DEF Log, RInv, TablesOK
<1>2. /\ DOMAIN sent' = DOMAIN sent \cup {Len(sent) + 1} /\ Len(sent) + 1 \notin DOMAIN sent
      /\ \A i \in DOMAIN sent : sent'[i] = sent[i]
      /\ sent'[Len(sent) + 1] = conn[c].response
      /\ Len(sent) \in Nat /\ DOMAIN sent = 1..Len(sent)
  BY <1>1, AppendAdds
<1>3. IsFiniteSet(Logged(r)) /\ IsFiniteSet(Routed(r))
  <2>1. IsFiniteSet(DOMAIN sent)
    BY <1>2, FS_Interval
  <2>2. Logged(r) \subseteq DOMAIN sent /\ Routed(r) \subseteq Conns
    BY DEF Logged, Routed
  <2> QED BY <2>1, <2>2, FS_Subset, ConnsAssumption
<1>4. Cardinality(Logged(r)) = Cardinality(Routed(r))
  BY DEF RInv, Counted
<1>5. CASE conn[c].response # r
  <2>1. Logged(r)' = Logged(r)
    BY <1>2, <1>5 DEF Logged
  <2>2. Routed(r)' = Routed(r)
    BY <1>5 DEF Routed, StepOf
  <2> QED BY <1>4, <2>1, <2>2
<1>6. CASE conn[c].response = r
  <2>1. Logged(r)' = Logged(r) \cup {Len(sent) + 1} /\ Len(sent) + 1 \notin Logged(r)
    BY <1>2, <1>6 DEF Logged
  <2>2. Routed(r)' = Routed(r) \cup {c} /\ c \notin Routed(r)
    BY <1>1, <1>6 DEF Routed, StepOf
  <2>3. Cardinality(Logged(r)') = Cardinality(Logged(r)) + 1
    BY <1>3, <2>1, FS_AddElement
  <2>4. Cardinality(Routed(r)') = Cardinality(Routed(r)) + 1
    BY <1>3, <2>2, FS_AddElement
  <2> QED BY <1>4, <2>3, <2>4
<1> QED BY <1>5, <1>6

LEMMA LogKeeps ==
    ASSUME RInv, NEW c \in Conns, Log(c)
    PROVE  RInv'
<1>1. /\ conn' \in [Conns -> Connection(setup)]
      /\ conn'[c].at = "write" /\ conn'[c].response = conn[c].response
      /\ conn'[c].buf = conn[c].buf /\ conn'[c].written = conn[c].written
      /\ conn'[c].user = conn[c].user /\ conn'[c].request = conn[c].request
      /\ \A d \in Conns \ {c} : conn'[d] = conn[d]
  BY AllTyped DEF Connection, Stages, Log
<1>2. ConnOK(conn[c], tokens, setup) /\ conn[c].at = "log" /\ tokens' = tokens
  BY ConnTyped DEF Log
<1>3. ConnOK(conn'[c], tokens, setup)
  BY <1>1, <1>2 DEF ConnOK, BufOK, RequestOK, ResponseOK
<1>4. StepOf(c)
  BY <1>1, <1>3 DEF StepOf, Log
<1>5. conn[c].response \in Answers(setup)
  BY <1>2 DEF ConnOK, ResponseOK
<1>6. sent' \in Seq(Answers(setup))
  BY <1>5, AppendAdds DEF RInv, TablesOK, Log
<1>7. TablesOK'
  BY <1>4, <1>6 DEF TablesOK, RInv, StepOf, Log
<1> QED BY <1>1, <1>4, <1>5, <1>7, LogCounts, StepKeepsConns DEF RInv

-----------------------------------------------------------------------------
(* The registry.                                                            *)

LEMMA InitRInv == Init => RInv
<1> SUFFICES ASSUME Init PROVE RInv
  OBVIOUS
<1>1. Idle \in Connection(setup)
  BY DEF Idle, Connection, Responses, Stages
<1>2. TablesOK
  BY <1>1 DEF Init, TablesOK
<1>3. ConnOK(Idle, tokens, setup)
  <2>1. Idle.at = "idle" /\ Idle.buf = 0 /\ Idle.written = 0 /\ Idle.response = None
    BY DEF Idle
  <2>2. None.kind = "none"
    BY DEF None
  <2>3. BufOK(Idle) /\ RequestOK(Idle, tokens, setup)
    BY <2>1, Sizes DEF BufOK, RequestOK
  <2>4. ResponseOK(Idle, tokens, setup)
    BY <2>1, <2>2 DEF ResponseOK
  <2> QED BY <2>3, <2>4 DEF ConnOK
<1>4. ConnsOK
  BY <1>3 DEF ConnsOK, Init
<1>5. \A r \in Answers(setup) : Logged(r) = {} /\ Routed(r) = {}
  <2>1. \A r \in Answers(setup) : r # None
    BY DEF Answers, None
  <2>2. \A c \in Conns : conn[c].response = None
    BY DEF Init, Idle
  <2>3. DOMAIN sent = {}
    BY DEF Init
  <2>4. \A r : Logged(r) = {}
    BY <2>3 DEF Logged
  <2> QED BY <2>1, <2>2, <2>4 DEF Routed
<1>6. Counted
  BY <1>5 DEF Counted
<1> QED BY <1>2, <1>4, <1>6 DEF RInv

\* What is not of a connection: the registry starts, is dropped, or nothing happens.
LEMMA TablesStay ==
    ASSUME RInv, UNCHANGED <<setup, tokens, sent, conn, wallet>>,
           phase' \in {"down", "serving", "refused", "dropped"},
           phase' = "serving" => with_phases(setup)
    PROVE  RInv'
<1>1. TablesOK'
  BY DEF RInv, TablesOK
<1>2. ConnsOK'
  BY DEF RInv, ConnsOK
<1>3. Counted'
  BY DEF RInv, Counted, Logged, Routed
<1> QED BY <1>1, <1>2, <1>3 DEF RInv

LEMMA NextRInv == RInv /\ [Next]_vars => RInv'
<1> SUFFICES ASSUME RInv, [Next]_vars PROVE RInv'
  OBVIOUS
<1>1. CASE Start
  BY <1>1, TablesStay DEF Start
<1>2. CASE Drop
  BY <1>2, TablesStay DEF Drop
<1>3. CASE \E c \in Conns : Connect(c) \/ Write(c) \/ Leave(c)
  BY <1>3, ConnectKeeps, WriteKeeps, LeaveKeeps
<1>4. CASE \E c \in Conns : Task(c)
  BY <1>4, ReadKeeps, ReadEndKeeps, RouteKeeps, LogKeeps, RespondKeeps, RespondFailsKeeps DEF Task
<1>5. CASE UNCHANGED vars
  BY <1>5, TablesStay DEF vars, RInv, TablesOK
<1> QED BY <1>1, <1>2, <1>3, <1>4, <1>5 DEF Next

\* The invariant of the registry's tables and of every connection's task.
THEOREM RegistryInvariance == Spec => []RInv
BY InitRInv, NextRInv, PTL DEF Spec

LEMMA TypesHold == RInv => TypeOK
<1> SUFFICES ASSUME RInv PROVE TypeOK
  OBVIOUS
<1>1. \A t \in DOMAIN tokens : \E a \in accountIds(setup) : a.name = tokens[t]
  BY DEF RInv, TablesOK, accountNames
<1>2. \A i \in DOMAIN sent : sent[i].kind = "record"
  <2>1. \A r \in Answers(setup) : r.kind = "record"
    BY DEF Answers
  <2>2. \A i \in DOMAIN sent : sent[i] \in Answers(setup)
    BY DEF RInv, TablesOK
  <2> QED BY <2>1, <2>2
<1>3. \A u \in Users : wallet[u] \subseteq DOMAIN tokens
  BY DEF RInv, TablesOK, Owned
<1>4. \A c \in Conns :
        /\ conn[c].at \in {"idle", "read", "route", "log", "write", "done", "failed"}
        /\ conn[c].buf <= conn[c].written /\ conn[c].buf <= MAX_REQUEST + CHUNK
        /\ conn[c].at \in {"route", "log", "write", "done"} => conn[c].buf <= MAX_REQUEST
  BY ConnTyped, Fields DEF Stages, ConnOK, BufOK
<1> QED BY <1>1, <1>2, <1>3, <1>4 DEF TypeOK, RInv, TablesOK

LEMMA AnswersHold == RInv => AnsweredAsSent /\ RecordsGoToTheirAccount /\ NeverFailsToRender
<1> SUFFICES ASSUME RInv, NEW c \in Conns
             PROVE  /\ (conn[c].response # None /\ conn[c].request.kind = "login") =>
                        IF right(conn[c].request, setup) THEN conn[c].response.kind = "token"
                        ELSE conn[c].response = status(401)
                    /\ got(c).kind = "record" => BelongsTo(got(c), conn[c].user, setup)
                    /\ conn[c].response # status(500)
  BY DEF AnsweredAsSent, RecordsGoToTheirAccount, NeverFailsToRender, right, BelongsTo
<1>1. ResponseOK(conn[c], tokens, setup) /\ conn[c].response \in Responses(setup)
  BY ConnTyped DEF ConnOK, Connection
<1>2. got(c).kind = "record" => BelongsTo(got(c), conn[c].user, setup)
  BY <1>1 DEF ResponseOK, got, None
<1>3. conn[c].response # status(500)
  BY <1>1 DEF Responses, status, None, Answers
<1> QED BY <1>1, <1>2, <1>3 DEF ResponseOK

LEMMA CountHolds == RInv => LogCountsEveryRecord
<1> SUFFICES ASSUME RInv, NEW c \in Conns, conn[c].response.kind = "record"
             PROVE  Cardinality(Logged(conn[c].response)) = Cardinality(Routed(conn[c].response))
  BY DEF LogCountsEveryRecord, Logged, Routed
<1>1. conn[c].response \in Responses(setup)
  BY ConnTyped DEF Connection
<1>2. conn[c].response \in Answers(setup)
  BY <1>1 DEF Responses, status, None
<1> QED BY <1>2 DEF RInv, Counted

\* For any number of users, connections and fixtures, however the tasks interleave
\* and wherever a request is cut: a login is answered as it was sent, a record goes to
\* the account its token was issued for and is logged once for each time it was
\* routed, and what with_phases admitted always renders (handle, route, login, title,
\* income, tenancy, lib.rs).
THEOREM RegistryServesRight == Spec => []ServedRight
<1>1. RInv => ServedRight
  BY TypesHold, AnswersHold, CountHolds DEF ServedRight
<1> QED BY <1>1, RegistryInvariance, PTL
=============================================================================
