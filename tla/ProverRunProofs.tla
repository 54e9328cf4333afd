--------------------------- MODULE ProverRunProofs ---------------------------
(***************************************************************************)
(* What the prover's commands leave in their files and on the chain, for   *)
(* any number of runs, any script of commands and any number of faults.    *)
(*                                                                         *)
(* A step belongs to one run or to the chain.  RunOK relates a run to its  *)
(* own transaction, FileOK a file to the transaction it reports, TxOK an   *)
(* included transaction to the records it made, and Kept a call that has   *)
(* left its run to the payload.json that holds it.                         *)
(***************************************************************************)
EXTENDS ProverRun, FiniteSetTheorems, SequenceTheorems, TLAPS

Sendable == Payloads \cup EngageArguments

RunType ==
    [pc : {"idle", "attest", "sign", "payload", "send", "receipt", "record", "done"},
     attested : BOOLEAN, key : Keys \cup {"none"}, x : Calls, send : BOOLEAN, own : BOOLEAN,
     out : Files, exit : {"none", "ok", "failed"}]
TxType ==
    [status : {"none", "pending", "included", "failed"}, from : Keys \cup {"none"},
     call : Calls, event : Events]
ListingType ==
    [owner : Keys, cTx : Runs, state : {"active", "locked", "expired", "settled", "cancelled"}]
AppType ==
    [txId : Runs, depositor : Keys, cB : Runs, status : {"pending", "engaged", "reclaimed"}]
EngType == [appId : Runs, status : {"open", "expired", "settled"}]

ChainTypeOK ==
    /\ listings \in Seq(ListingType) /\ apps \in Seq(AppType) /\ engs \in Seq(EngType)
    /\ signed \subseteq Payloads /\ consumed \subseteq Runs

Typed ==
    /\ run \in [Runs -> RunType] /\ tx \in [Runs -> TxType]
    /\ payload \in [Dirs -> Payloads \cup {NoCall, Torn}] /\ record \in [Dirs -> Files]
    /\ ChainTypeOK
    /\ faults \in 0..MaxFaults

\* A run and its transaction.
Unsent(i, r, t) ==
    /\ r.attested /\ r.key \in Keys /\ t.status = "none"
    /\ r.x \in Payloads /\ (r.x.phase = "apply" => r.x.cB = i)

RunOK(i, r, t) ==
    /\ r.pc = "idle" => t.status = "none"
    /\ r.pc \in {"attest", "sign", "payload"} => Unsent(i, r, t)
    /\ r.attested => r.x \in Payloads
    /\ r.pc = "send" => r.key \in Keys /\ r.x \in Sendable /\ t.status = "none"
    /\ r.pc = "receipt" => t.status # "none" /\ t.call = r.x
    /\ r.pc # "record" => r.out.outcome = "none"
    /\ r.out.outcome = "included" =>
        /\ t.status = "included" /\ t.event = r.out.event /\ t.call = r.x
        /\ r.out.kind = "run" => r.attested /\ r.out.payload = r.x
    /\ r.exit = "ok" /\ r.send => t.status = "included"

RunsOK == \A i \in Runs : RunOK(i, run[i], tx[i])

\* What a file says of an included transaction, and whose it is.
Reports(f, t) ==
    /\ t.status = "included" /\ t.event = f.event
    /\ f.kind = "run" => f.payload \in Payloads /\ t.call = f.payload

place(i, r) == IF r.own THEN i ELSE 0

FileOK(d, f, R, T) ==
    f.outcome = "included" => \E i \in Runs : place(i, R[i]) = d /\ Reports(f, T[i])

FilesOK == \A d \in Dirs : FileOK(d, record[d], run, tx)

\* A transaction and the records it made: the applications A, the engagements E
\* and the nonces N used up.
Sent(t) == t.status # "none" => t.call \in Sendable /\ t.from \in Keys

Made(t, A, E, N) ==
    t.status = "included" =>
        /\ t.event.txId \in Runs
        /\ t.call.phase # "engage" => t.call.eta \in N
        /\ t.call.phase = "apply" =>
            t.event.appId \in DOMAIN A /\ A[t.event.appId].cB = t.call.cB
        /\ t.call.phase \in {"register", "settle"} => t.event.appId = 0
        /\ t.call.phase = "settle" =>
            /\ t.call.engId \in DOMAIN E /\ E[t.call.engId].appId \in DOMAIN A
            /\ A[E[t.call.engId].appId].cB = t.call.cB

Opened(T, phase) == {i \in Runs : T[i].status = "included" /\ T[i].call.phase = phase}

\* There are as many records as transactions that made them: identifiers are runs.
Counted(T) ==
    /\ Len(listings) = Cardinality(Opened(T, "register"))
    /\ Len(apps) = Cardinality(Opened(T, "apply"))
    /\ Len(engs) = Cardinality(Opened(T, "engage"))

ChainOK ==
    /\ \A i \in Runs : Sent(tx[i]) /\ Made(tx[i], apps, engs, consumed)
    /\ \A e \in DOMAIN engs : engs[e].appId \in DOMAIN apps
    /\ \A a \in DOMAIN apps : apps[a].txId \in DOMAIN listings
    /\ PayloadPaysOnce
    /\ Counted(tx)

\* The run has written its payload, or ended before it could.
Past(r) == r.pc \notin {"idle", "attest", "sign", "payload"}

KeptAt(k, c, R, P) == k \in Runs /\ Past(R[k]) /\ (R[k].own => P[k] = c)

\* An application that has left its run is in that run's own payload.json.
Kept(c, R, P) == c.phase = "apply" => KeptAt(c.cB, c, R, P)

OpeningIn(k, R, P) == \E c \in ApplyPayload : c.cB = k /\ KeptAt(k, c, R, P)

KeptOK ==
    /\ \A d \in Dirs : payload[d] \in Payloads => Kept(payload[d], run, payload)
    /\ \A i \in Runs : run[i].pc = "send" => Kept(run[i].x, run, payload)
    /\ \A i \in Runs : tx[i].status # "none" => Kept(tx[i].call, run, payload)
    /\ \A a \in DOMAIN apps : OpeningIn(apps[a].cB, run, payload)

IInv == Typed /\ RunsOK /\ FilesOK /\ ChainOK /\ KeptOK

-----------------------------------------------------------------------------
(* Calls.                                                                  *)

LEMMA CallTypes ==
    /\ Payloads \subseteq Sendable /\ Sendable \subseteq Calls /\ NoCall \in Calls
    /\ NoEvent \in Events /\ Absent \in Files /\ Torn \in Files
    /\ 0 \notin Runs /\ 0 \in Dirs /\ Runs \subseteq Dirs
<1>1. Payloads \subseteq Sendable /\ Sendable \subseteq Calls /\ NoCall \in Calls /\ NoEvent \in Events
  BY DEF Sendable, Calls, Events
<1>2. Absent \in Files
  BY <1>1 DEF Absent, Files
<1>3. Torn = [kind |-> "torn", outcome |-> "none", payload |-> NoCall, event |-> NoEvent]
  BY DEF Torn, Absent
<1>4. Torn \in Files
  BY <1>1, <1>3 DEF Files
<1>5. 0 \notin Runs /\ 0 \in Dirs /\ Runs \subseteq Dirs
  BY RunsAssumption DEF Runs, Dirs
<1> QED BY <1>1, <1>2, <1>4, <1>5

LEMMA PayloadFields ==
    ASSUME NEW c \in Payloads
    PROVE  /\ c.phase \in {"register", "apply", "settle"} /\ c.submitter \in Keys
           /\ c.eta \in Runs /\ c.cTx \in Runs
           /\ c.phase = "apply" => c \in ApplyPayload /\ c.txId \in Runs /\ c.cB \in Runs
           /\ c.phase = "settle" => c.txId \in Runs /\ c.cB \in Runs /\ c.engId \in Runs
  BY DEF Payloads, RegisterPayload, ApplyPayload, SettlePayload

LEMMA PayloadIsCall ==
    ASSUME NEW c \in Payloads
    PROVE  c # Torn /\ c # NoCall
<1>1. c # NoCall
  BY PayloadFields DEF NoCall
<1>2. Torn = [kind |-> "torn", outcome |-> "none", payload |-> NoCall, event |-> NoEvent]
  BY DEF Torn, Absent
<1>3. "phase" \notin DOMAIN Torn
  BY <1>2
<1>4. "phase" \in DOMAIN c
  BY DEF Payloads, RegisterPayload, ApplyPayload, SettlePayload
<1> QED BY <1>1, <1>3, <1>4

LEMMA SendableFields ==
    ASSUME NEW c \in Sendable
    PROVE  /\ c.phase \in {"register", "apply", "settle", "engage"}
           /\ c.phase # "engage" => c \in Payloads
           /\ c.phase = "engage" => c.eta = 0 /\ c.txId \in Runs /\ c.appId \in Runs
<1>1. CASE c \in Payloads
  BY <1>1, PayloadFields
<1>2. CASE c \in EngageArguments
  BY <1>2 DEF EngageArguments
<1> QED BY <1>1, <1>2 DEF Sendable

LEMMA EventFields ==
    ASSUME NEW v \in Events
    PROVE  /\ v.appId # 0 => v.txId \in Runs /\ v.appId \in Runs
           /\ v.engId # 0 => v.txId \in Runs /\ v.engId \in Runs
<1>1. 0 \notin Runs
  BY CallTypes
<1> QED BY <1>1 DEF Events, RegisteredEvent, AppliedEvent, EngagedEvent, SettledEvent, NoEvent

-----------------------------------------------------------------------------
(* The invariant implies the properties.                                   *)

LEMMA TypedOK == IInv => TypeOK
<1> SUFFICES ASSUME IInv PROVE TypeOK
  OBVIOUS
<1>1. Typed
  BY DEF IInv
<1>2. ASSUME NEW i \in Runs
      PROVE  /\ run[i].pc \in {"idle", "attest", "sign", "payload", "send", "receipt",
                               "record", "done"}
             /\ run[i].key \in Keys \cup {"none"} /\ run[i].x \in Calls
             /\ run[i].attested \in BOOLEAN /\ run[i].send \in BOOLEAN /\ run[i].own \in BOOLEAN
             /\ run[i].out \in Files /\ run[i].exit \in {"none", "ok", "failed"}
             /\ tx[i].status \in {"none", "pending", "included", "failed"}
             /\ tx[i].call \in Calls /\ tx[i].event \in Events
  <2>1. run[i] \in RunType /\ tx[i] \in TxType
    BY <1>1 DEF Typed
  <2> QED BY <2>1 DEF RunType, TxType
<1>3. \A d \in Dirs : payload[d] \in Payloads \cup {NoCall, Torn} /\ record[d] \in Files
  BY <1>1 DEF Typed
<1>4. \A l \in DOMAIN listings :
        listings[l].state \in {"active", "locked", "expired", "settled", "cancelled"}
  <2>1. \A l \in DOMAIN listings : listings[l] \in ListingType
    BY <1>1 DEF Typed, ChainTypeOK
  <2> QED BY <2>1 DEF ListingType
<1>5. \A a \in DOMAIN apps : apps[a].status \in {"pending", "engaged", "reclaimed"}
  <2>1. \A a \in DOMAIN apps : apps[a] \in AppType
    BY <1>1 DEF Typed, ChainTypeOK
  <2> QED BY <2>1 DEF AppType
<1>6. \A e \in DOMAIN engs : engs[e].status \in {"open", "expired", "settled"}
  <2>1. \A e \in DOMAIN engs : engs[e] \in EngType
    BY <1>1 DEF Typed, ChainTypeOK
  <2> QED BY <2>1 DEF EngType
<1> QED BY <1>1, <1>2, <1>3, <1>4, <1>5, <1>6 DEF TypeOK, Typed, ChainTypeOK

LEMMA EffectsOwn == IInv => EffectsAreOwn
<1> SUFFICES ASSUME IInv PROVE EffectsAreOwn
  OBVIOUS
<1>1. SettledByOwnOpening
  BY DEF IInv, ChainOK, Made, SettledByOwnOpening
<1> QED BY <1>1, TypedOK DEF IInv, ChainOK, EffectsAreOwn

LEMMA FilesTrue == IInv => FilesTruthful
<1> SUFFICES ASSUME IInv PROVE FilesTruthful
  OBVIOUS
<1>1. ASSUME NEW d \in Dirs, record[d].outcome = "included"
      PROVE  \E i \in Runs :
                /\ tx[i].status = "included" /\ tx[i].event = record[d].event /\ dir(i) = d
                /\ record[d].kind = "run" => tx[i].call = record[d].payload
                /\ record[d].event.appId # 0 /\ record[d].kind = "run" =>
                       apps[record[d].event.appId].cB = record[d].payload.cB
  <2>1. PICK i \in Runs : place(i, run[i]) = d /\ Reports(record[d], tx[i])
    BY <1>1 DEF IInv, FilesOK, FileOK
  <2>2. dir(i) = d
    BY <2>1 DEF place, dir
  <2>3. tx[i].status = "included" /\ tx[i].event = record[d].event
    BY <2>1 DEF Reports
  <2>4. ASSUME record[d].kind = "run"
        PROVE  record[d].payload \in Payloads /\ tx[i].call = record[d].payload
    BY <2>1, <2>4 DEF Reports
  <2>5. ASSUME record[d].event.appId # 0, record[d].kind = "run"
        PROVE  apps[record[d].event.appId].cB = record[d].payload.cB
    <3>1. Made(tx[i], apps, engs, consumed)
      BY DEF IInv, ChainOK
    <3>2. tx[i].call.phase \in {"register", "apply", "settle"}
      BY <2>4, <2>5, PayloadFields
    <3> QED BY <2>3, <2>4, <2>5, <3>1, <3>2 DEF Made
  <2> QED BY <2>2, <2>3, <2>4, <2>5
<1>2. ASSUME NEW i \in Runs, run[i].exit = "ok", run[i].send
      PROVE  tx[i].status = "included"
  BY <1>2 DEF IInv, RunsOK, RunOK
<1> QED BY <1>1, <1>2 DEF FilesTruthful

LEMMA OpeningsKept == IInv => OpeningKept
<1> SUFFICES ASSUME IInv, NEW a \in DOMAIN apps, run[apps[a].cB].own
             PROVE  \E d \in Dirs : payload[d] # Torn /\ payload[d].phase = "apply"
                                      /\ payload[d].cB = apps[a].cB
  BY DEF OpeningKept
<1>1. PICK c \in ApplyPayload : c.cB = apps[a].cB /\ KeptAt(apps[a].cB, c, run, payload)
  BY DEF IInv, KeptOK, OpeningIn
<1>2. apps[a].cB \in Dirs /\ payload[apps[a].cB] = c
  BY <1>1, CallTypes DEF KeptAt
<1>3. c \in Payloads /\ c.phase = "apply"
  BY DEF Payloads, ApplyPayload
<1>4. c # Torn
  BY <1>3, PayloadIsCall
<1> QED BY <1>1, <1>2, <1>3, <1>4

-----------------------------------------------------------------------------
(* What every step leaves as it was.                                       *)

\* From runs R and payloads P to R2 and P2: what has been written stays.
Holds(R, P, R2, P2) ==
    \A k \in Runs : Past(R[k]) =>
        Past(R2[k]) /\ R2[k].own = R[k].own /\ (R[k].own => P2[k] = P[k])

LEMMA KeptStays ==
    ASSUME NEW R, NEW P, NEW R2, NEW P2, Holds(R, P, R2, P2)
    PROVE  /\ \A k, c : KeptAt(k, c, R, P) => KeptAt(k, c, R2, P2)
           /\ \A c : Kept(c, R, P) => Kept(c, R2, P2)
           /\ \A k : OpeningIn(k, R, P) => OpeningIn(k, R2, P2)
<1>1. \A k, c : KeptAt(k, c, R, P) => KeptAt(k, c, R2, P2)
  BY DEF Holds, KeptAt
<1>2. \A c : Kept(c, R, P) => Kept(c, R2, P2)
  BY <1>1 DEF Kept
<1>3. \A k : OpeningIn(k, R, P) => OpeningIn(k, R2, P2)
  BY <1>1 DEF OpeningIn
<1> QED BY <1>1, <1>2, <1>3

\* Transactions T and T2: what was included stays, with its run's directory.
Settles(R, T, R2, T2) ==
    \A i \in Runs : T[i].status = "included" => T2[i] = T[i] /\ R2[i].own = R[i].own

LEMMA FileStays ==
    ASSUME NEW R, NEW T, NEW R2, NEW T2, Settles(R, T, R2, T2), NEW d, NEW f, FileOK(d, f, R, T)
    PROVE  FileOK(d, f, R2, T2)
<1> SUFFICES ASSUME f.outcome = "included"
             PROVE  \E i \in Runs : place(i, R2[i]) = d /\ Reports(f, T2[i])
  BY DEF FileOK
<1>1. PICK i \in Runs : place(i, R[i]) = d /\ Reports(f, T[i])
  BY DEF FileOK
<1>2. T2[i] = T[i] /\ R2[i].own = R[i].own
  BY <1>1 DEF Settles, Reports
<1> QED BY <1>1, <1>2 DEF place

-----------------------------------------------------------------------------
(* A step of run i, after which the run is r and its transaction t.        *)

Moves(i, r, t) ==
    /\ r \in RunType /\ t \in TxType
    /\ run' = [run EXCEPT ![i] = r] /\ tx' = [tx EXCEPT ![i] = t]
    /\ UNCHANGED chainVars /\ signed' \subseteq Payloads /\ faults' \in 0..MaxFaults
    /\ run[i].pc # "idle" => r.own = run[i].own
    /\ Past(run[i]) => Past(r)
    /\ RunOK(i, r, t)
    /\ \/ t = tx[i]
       \/ run[i].pc = "send" /\ t.status = "pending" /\ t.call = run[i].x /\ t.from \in Keys

Writes(i, r) ==
    \/ payload' = payload
    \/ \E p \in Payloads \cup {NoCall, Torn} :
        /\ run[i].pc # "idle" /\ ~Past(run[i])
        /\ payload' = [payload EXCEPT ![place(i, run[i])] = p]
        /\ p \in Payloads => p = run[i].x /\ Past(r)

Records(i, t) ==
    \/ record' = record
    \/ \E f \in Files :
        /\ run[i].pc # "idle" /\ record' = [record EXCEPT ![place(i, run[i])] = f]
        /\ f.outcome = "included" => Reports(f, t)

LEMMA PlaceIsDir ==
    ASSUME NEW i \in Runs, NEW r
    PROVE  place(i, r) \in Dirs
  BY CallTypes DEF place

LEMMA MoveHolds ==
    ASSUME IInv, NEW i \in Runs, NEW r, NEW t, Moves(i, r, t), Writes(i, r)
    PROVE  Holds(run, payload, run', payload')
<1> SUFFICES ASSUME NEW k \in Runs, Past(run[k])
             PROVE  Past(run'[k]) /\ run'[k].own = run[k].own
                      /\ (run[k].own => payload'[k] = payload[k])
  BY DEF Holds
<1>1. run \in [Runs -> RunType] /\ payload \in [Dirs -> Payloads \cup {NoCall, Torn}]
  BY DEF IInv, Typed
<1>2. run'[k] = IF k = i THEN r ELSE run[k]
  BY <1>1 DEF Moves
<1>3. Past(run'[k]) /\ run'[k].own = run[k].own
  BY <1>2 DEF Moves, Past
<1>4. ASSUME run[k].own PROVE payload'[k] = payload[k]
  <2>1. CASE payload' = payload
    BY <2>1
  <2>2. ASSUME NEW p, ~Past(run[i]), payload' = [payload EXCEPT ![place(i, run[i])] = p]
        PROVE  payload'[k] = payload[k]
    <3>1. k # i /\ k # 0 /\ k \in Dirs
      BY <2>2, CallTypes
    <3>2. k # place(i, run[i])
      BY <3>1 DEF place
    <3> QED BY <1>1, <2>2, <3>1, <3>2
  <2> QED BY <2>1, <2>2 DEF Writes
<1> QED BY <1>3, <1>4

LEMMA MoveSettles ==
    ASSUME IInv, NEW i \in Runs, NEW r, NEW t, Moves(i, r, t)
    PROVE  Settles(run, tx, run', tx')
<1> SUFFICES ASSUME NEW k \in Runs, tx[k].status = "included"
             PROVE  tx'[k] = tx[k] /\ run'[k].own = run[k].own
  BY DEF Settles
<1>1. run'[k] = IF k = i THEN r ELSE run[k]
  BY DEF IInv, Typed, Moves
<1>2. tx'[k] = IF k = i THEN t ELSE tx[k]
  BY DEF IInv, Typed, Moves
<1>3. RunOK(k, run[k], tx[k])
  BY DEF IInv, RunsOK
<1>4. run[k].pc # "idle" /\ run[k].pc # "send"
  BY <1>3 DEF RunOK
<1> QED BY <1>1, <1>2, <1>4 DEF Moves

LEMMA MoveTyped ==
    ASSUME IInv, NEW i \in Runs, NEW r, NEW t, Moves(i, r, t), Writes(i, r), Records(i, t)
    PROVE  Typed'
<1>1. Typed /\ place(i, run[i]) \in Dirs
  BY PlaceIsDir DEF IInv
<1>2. run' \in [Runs -> RunType] /\ tx' \in [Runs -> TxType]
  BY <1>1 DEF Typed, Moves
<1>3. payload' \in [Dirs -> Payloads \cup {NoCall, Torn}]
  BY <1>1 DEF Typed, Writes
<1>4. record' \in [Dirs -> Files]
  BY <1>1 DEF Typed, Records
<1>5. ChainTypeOK' /\ faults' \in 0..MaxFaults
  BY <1>1 DEF Typed, ChainTypeOK, Moves, chainVars
<1> QED BY <1>2, <1>3, <1>4, <1>5 DEF Typed

LEMMA MoveRuns ==
    ASSUME IInv, NEW i \in Runs, NEW r, NEW t, Moves(i, r, t)
    PROVE  RunsOK'
<1> SUFFICES ASSUME NEW k \in Runs PROVE RunOK(k, run'[k], tx'[k])
  BY DEF RunsOK
<1>1. run'[k] = IF k = i THEN r ELSE run[k]
  BY DEF IInv, Typed, Moves
<1>2. tx'[k] = IF k = i THEN t ELSE tx[k]
  BY DEF IInv, Typed, Moves
<1>3. RunOK(k, run[k], tx[k]) /\ RunOK(i, r, t)
  BY DEF IInv, RunsOK, Moves
<1> QED BY <1>1, <1>2, <1>3

LEMMA MoveFiles ==
    ASSUME IInv, NEW i \in Runs, NEW r, NEW t, Moves(i, r, t), Records(i, t)
    PROVE  FilesOK'
<1> SUFFICES ASSUME NEW d \in Dirs PROVE FileOK(d, record'[d], run', tx')
  BY DEF FilesOK
<1>1. FileOK(d, record[d], run, tx)
  BY DEF IInv, FilesOK
<1>2. FileOK(d, record[d], run', tx')
  BY <1>1, MoveSettles, FileStays
<1>3. ASSUME NEW f \in Files, run[i].pc # "idle", record' = [record EXCEPT ![place(i, run[i])] = f],
             f.outcome = "included" => Reports(f, t), d = place(i, run[i])
      PROVE  FileOK(d, record'[d], run', tx')
  <2>1. record'[d] = f
    BY <1>3 DEF IInv, Typed
  <2>2. tx'[i] = t /\ run'[i] = r
    BY DEF IInv, Typed, Moves
  <2>3. place(i, run'[i]) = d
    BY <1>3, <2>2 DEF place, Moves
  <2> QED BY <1>3, <2>1, <2>2, <2>3 DEF FileOK
<1>4. ASSUME NEW f, record' = [record EXCEPT ![place(i, run[i])] = f], d # place(i, run[i])
      PROVE  record'[d] = record[d]
  BY <1>4 DEF IInv, Typed
<1> QED BY <1>2, <1>3, <1>4 DEF Records

LEMMA MoveChain ==
    ASSUME IInv, NEW i \in Runs, NEW r, NEW t, Moves(i, r, t)
    PROVE  ChainOK'
<1>1. apps' = apps /\ engs' = engs /\ consumed' = consumed /\ listings' = listings
  BY DEF Moves, chainVars
<1>2. tx'[i] = t /\ \A k \in Runs : k # i => tx'[k] = tx[k]
  BY DEF IInv, Typed, Moves
<1>3. \A k \in Runs : Sent(tx[k]) /\ Made(tx[k], apps, engs, consumed)
  BY DEF IInv, ChainOK
<1>4. t.status = "included" => tx[i] = t
  BY DEF Moves
<1>5. tx[i].status = "included" => tx[i] = t
  <2>1. RunOK(i, run[i], tx[i])
    BY DEF IInv, RunsOK
  <2> QED BY <2>1 DEF RunOK, Moves
<1>6. Sent(t) /\ Made(t, apps, engs, consumed)
  <2>1. CASE t = tx[i]
    BY <1>3, <2>1
  <2>2. CASE run[i].pc = "send" /\ t.status = "pending" /\ t.call = run[i].x /\ t.from \in Keys
    <3>1. run[i].x \in Sendable
      BY <2>2 DEF IInv, RunsOK, RunOK
    <3> QED BY <2>2, <3>1 DEF Sent, Made
  <2> QED BY <2>1, <2>2 DEF Moves
<1>7. \A k \in Runs : Sent(tx'[k]) /\ Made(tx'[k], apps', engs', consumed')
  BY <1>1, <1>2, <1>3, <1>6
<1>8. \A k \in Runs : tx'[k].status = "included" <=> tx[k].status = "included"
  BY <1>2, <1>4, <1>5
<1>9. \A k \in Runs : tx[k].status = "included" => tx'[k] = tx[k]
  BY <1>2, <1>5
<1>10. PayloadPaysOnce'
  BY <1>8, <1>9 DEF IInv, ChainOK, PayloadPaysOnce
<1>11. \A phase : Opened(tx', phase) = Opened(tx, phase)
  BY <1>8, <1>9 DEF Opened
<1>12. Counted(tx)'
  BY <1>1, <1>11 DEF IInv, ChainOK, Counted
<1>13. /\ \A e \in DOMAIN engs' : engs'[e].appId \in DOMAIN apps'
       /\ \A a \in DOMAIN apps' : apps'[a].txId \in DOMAIN listings'
  BY <1>1 DEF IInv, ChainOK
<1> QED BY <1>7, <1>10, <1>12, <1>13 DEF ChainOK

LEMMA MoveKept ==
    ASSUME IInv, NEW i \in Runs, NEW r, NEW t, Moves(i, r, t), Writes(i, r),
           r.pc = "send" => Kept(r.x, run', payload')
    PROVE  KeptOK'
<1>1. /\ \A c : Kept(c, run, payload) => Kept(c, run', payload')
      /\ \A k : OpeningIn(k, run, payload) => OpeningIn(k, run', payload')
  BY MoveHolds, KeptStays
<1>2. run'[i] = r /\ \A k \in Runs : k # i => run'[k] = run[k]
  BY DEF IInv, Typed, Moves
<1>3. tx'[i] = t /\ \A k \in Runs : k # i => tx'[k] = tx[k]
  BY DEF IInv, Typed, Moves
<1>4. ASSUME NEW d \in Dirs, payload'[d] \in Payloads PROVE Kept(payload'[d], run', payload')
  <2>1. CASE payload'[d] = payload[d]
    BY <1>1, <1>4, <2>1 DEF IInv, KeptOK
  <2>2. CASE payload'[d] # payload[d]
    <3>1. payload' # payload
      BY <2>2
    <3>2. PICK p \in Payloads \cup {NoCall, Torn} :
            /\ run[i].pc # "idle" /\ ~Past(run[i])
            /\ payload' = [payload EXCEPT ![place(i, run[i])] = p]
            /\ p \in Payloads => p = run[i].x /\ Past(r)
      BY <3>1 DEF Writes
    <3>3. d = place(i, run[i]) /\ payload'[d] = p
      BY <2>2, <3>2 DEF IInv, Typed
    <3>4. p = run[i].x /\ Past(r)
      BY <1>4, <3>2, <3>3
    <3>5. Unsent(i, run[i], tx[i]) /\ run[i].pc # "idle"
      BY <3>2 DEF Past, IInv, RunsOK, RunOK
    <3>6. ASSUME p.phase = "apply" PROVE KeptAt(p.cB, p, run', payload')
      <4>1. p.cB = i
        BY <3>4, <3>5, <3>6 DEF Unsent
      <4>2. r.own = run[i].own
        BY <3>5 DEF Moves
      <4>3. r.own => d = i
        BY <3>3, <4>2 DEF place
      <4> QED BY <1>2, <3>3, <3>4, <4>1, <4>3 DEF KeptAt
    <3> QED BY <3>3, <3>6 DEF Kept
  <2> QED BY <2>1, <2>2
<1>5. ASSUME NEW k \in Runs, run'[k].pc = "send" PROVE Kept(run'[k].x, run', payload')
  <2>1. CASE k = i
    BY <1>2, <1>5, <2>1
  <2>2. CASE k # i
    BY <1>1, <1>2, <1>5, <2>2 DEF IInv, KeptOK
  <2> QED BY <2>1, <2>2
<1>6. ASSUME NEW k \in Runs, tx'[k].status # "none" PROVE Kept(tx'[k].call, run', payload')
  <2>1. CASE tx'[k] = tx[k]
    BY <1>1, <1>6, <2>1 DEF IInv, KeptOK
  <2>2. CASE tx'[k] # tx[k]
    <3>1. k = i /\ run[i].pc = "send" /\ tx'[k].call = run[i].x
      BY <1>3, <2>2 DEF Moves
    <3> QED BY <1>1, <3>1 DEF IInv, KeptOK
  <2> QED BY <2>1, <2>2
<1>7. \A a \in DOMAIN apps' : OpeningIn(apps'[a].cB, run', payload')
  BY <1>1 DEF IInv, KeptOK, Moves, chainVars
<1> QED BY <1>4, <1>5, <1>6, <1>7 DEF KeptOK

LEMMA MoveKeeps ==
    ASSUME IInv, NEW i \in Runs, NEW r, NEW t, Moves(i, r, t), Writes(i, r), Records(i, t),
           r.pc = "send" => Kept(r.x, run', payload')
    PROVE  IInv'
  BY MoveTyped, MoveRuns, MoveFiles, MoveChain, MoveKept DEF IInv

-----------------------------------------------------------------------------
(* What a run becomes.                                                     *)

LEMMA AtHand ==
    ASSUME IInv, NEW i \in Runs
    PROVE  /\ run[i] \in RunType /\ tx[i] \in TxType /\ RunOK(i, run[i], tx[i])
           /\ tx = [tx EXCEPT ![i] = tx[i]] /\ dir(i) = place(i, run[i])
<1>1. run \in [Runs -> RunType] /\ tx \in [Runs -> TxType]
  BY DEF IInv, Typed
<1> QED BY <1>1 DEF IInv, RunsOK, dir, place

\* A run that fails: the file it had in hand is gone.
LEMMA Failing ==
    ASSUME IInv, NEW i \in Runs, NEW t
    PROVE  /\ fails(i) \in RunType /\ RunOK(i, fails(i), t)
           /\ fails(i).own = run[i].own /\ fails(i).pc = "done" /\ Past(fails(i))
<1>1. run[i] \in RunType /\ RunOK(i, run[i], tx[i])
  BY AtHand
<1>2. Absent \in Files /\ Absent.outcome = "none"
  BY CallTypes DEF Absent
<1>3. fails(i) \in RunType
  BY <1>1, <1>2 DEF fails, RunType
<1>4. /\ fails(i).pc = "done" /\ fails(i).own = run[i].own /\ fails(i).attested = run[i].attested
      /\ fails(i).x = run[i].x /\ fails(i).out.outcome = "none" /\ fails(i).exit = "failed"
  BY <1>1, <1>2 DEF fails, RunType
<1>5. RunOK(i, fails(i), t)
  BY <1>1, <1>4 DEF RunOK
<1> QED BY <1>3, <1>4, <1>5 DEF Past

\* A run that goes on to write its record.
LEMMA Ending ==
    ASSUME IInv, NEW i \in Runs, Running(i), NEW event \in Events,
           NEW outcome \in {"included", "signed", "noWitness", "refused", "reverted"},
           outcome = "included" => /\ tx[i].status = "included" /\ tx[i].call = run[i].x
                                   /\ tx[i].event = event
    PROVE  /\ ends(i, outcome, event) \in RunType
           /\ RunOK(i, ends(i, outcome, event), tx[i])
           /\ ends(i, outcome, event).own = run[i].own
           /\ ends(i, outcome, event).pc = "record" /\ Past(ends(i, outcome, event))
<1> DEFINE f == [kind |-> IF run[i].attested THEN "run" ELSE "sent", outcome |-> outcome,
                 payload |-> IF run[i].attested /\ outcome \in {"included", "signed", "reverted"}
                             THEN run[i].x ELSE NoCall,
                 event |-> event]
           r == ends(i, outcome, event)
<1>1. run[i] \in RunType /\ RunOK(i, run[i], tx[i])
  BY AtHand
<1>2. f.outcome = outcome /\ f.event = event /\ (f.kind = "run" => run[i].attested)
      /\ (outcome = "included" /\ run[i].attested => f.payload = run[i].x)
  OBVIOUS
<1>3. f \in Files
  <2>1. run[i].x \in Calls /\ NoCall \in Calls
    BY <1>1, CallTypes DEF RunType
  <2>2. (IF run[i].attested /\ outcome \in {"included", "signed", "reverted"}
         THEN run[i].x ELSE NoCall) \in Calls
    BY <2>1
  <2> QED BY <2>2 DEF Files
<1>4. r = [run[i] EXCEPT !.pc = "record", !.out = f]
  BY DEF ends
<1> HIDE DEF f, r
<1>5. r \in RunType
  BY <1>1, <1>3, <1>4 DEF RunType
<1>6. /\ r.pc = "record" /\ r.out = f /\ r.own = run[i].own /\ r.attested = run[i].attested
      /\ r.x = run[i].x /\ r.exit = run[i].exit /\ r.send = run[i].send
  BY <1>1, <1>4 DEF RunType
<1>7. RunOK(i, r, tx[i])
  <2>1. /\ r.attested => r.x \in Payloads
        /\ r.exit = "ok" /\ r.send => tx[i].status = "included"
    BY <1>1, <1>6 DEF RunOK
  <2>2. r.out.outcome = "included" =>
            /\ tx[i].status = "included" /\ tx[i].event = r.out.event /\ tx[i].call = r.x
            /\ r.out.kind = "run" => r.attested /\ r.out.payload = r.x
    BY <1>2, <1>6
  <2> QED BY <1>6, <2>1, <2>2 DEF RunOK
<1>8. Past(r)
  BY <1>6 DEF Past
<1> QED BY <1>5, <1>6, <1>7, <1>8 DEF r

\* A run that only goes on.
LEMMA GoingOn ==
    ASSUME IInv, NEW i \in Runs, NEW pc \in {"sign", "payload", "send", "receipt"}
    PROVE  LET r == [run[i] EXCEPT !.pc = pc]
           IN /\ r \in RunType /\ r.pc = pc /\ r.own = run[i].own /\ r.attested = run[i].attested
              /\ r.x = run[i].x /\ r.out = run[i].out /\ r.exit = run[i].exit
              /\ r.send = run[i].send /\ r.key = run[i].key
<1>1. run[i] \in RunType
  BY AtHand
<1> QED BY <1>1 DEF RunType

-----------------------------------------------------------------------------
(* The steps of a run.                                                     *)

\* The step of a run that leaves its transaction, and the files but its record.
LEMMA QuietStep ==
    ASSUME IInv, NEW i \in Runs, NEW r \in RunType, Goes(i, r), Running(i),
           RunOK(i, r, tx[i]), r.own = run[i].own, Past(run[i]) => Past(r),
           tx' = tx, UNCHANGED chainVars, signed' \subseteq Payloads, faults' \in 0..MaxFaults
    PROVE  Moves(i, r, tx[i])
<1>1. tx[i] \in TxType /\ tx' = [tx EXCEPT ![i] = tx[i]]
  BY AtHand
<1> QED BY <1>1 DEF Moves, Goes

LEMMA AttestKeeps == ASSUME IInv, NEW i \in Runs, Attest(i) PROVE IInv'
<1>1. Running(i) /\ tx' = tx /\ UNCHANGED chainVars /\ signed' \subseteq Payloads
      /\ faults' \in 0..MaxFaults /\ payload' = payload /\ record' = record
  BY DEF Attest, At, Running, IInv, Typed, ChainTypeOK
<1>2. RunOK(i, run[i], tx[i]) /\ run[i].pc = "attest"
  BY AtHand DEF Attest, At
<1>3. PICK r \in RunType :
        Goes(i, r) /\ RunOK(i, r, tx[i]) /\ r.own = run[i].own /\ r.pc # "send"
  <2>1. CASE Goes(i, [run[i] EXCEPT !.pc = "sign"])
    <3> DEFINE r == [run[i] EXCEPT !.pc = "sign"]
    <3>1. /\ r \in RunType /\ r.pc = "sign" /\ r.own = run[i].own /\ r.attested = run[i].attested
          /\ r.x = run[i].x /\ r.out = run[i].out /\ r.exit = run[i].exit /\ r.send = run[i].send
          /\ r.key = run[i].key
      BY GoingOn
    <3> HIDE DEF r
    <3>2. RunOK(i, r, tx[i])
      BY <1>2, <3>1 DEF RunOK, Unsent
    <3> QED BY <2>1, <3>1, <3>2 DEF r
  <2>2. CASE Goes(i, ends(i, "noWitness", NoEvent))
    BY <1>1, <2>2, Ending, CallTypes
  <2> QED BY <2>1, <2>2 DEF Attest
<1>4. ~Past(run[i])
  BY <1>2 DEF Past
<1>5. Moves(i, r, tx[i])
  BY <1>1, <1>3, <1>4, QuietStep
<1> QED BY <1>1, <1>3, <1>5, MoveKeeps DEF Writes, Records

LEMMA SignKeeps == ASSUME IInv, NEW i \in Runs, Sign(i) PROVE IInv'
<1>1. RunOK(i, run[i], tx[i]) /\ run[i].pc = "sign"
  BY AtHand DEF Sign, At
<1>2. Running(i) /\ tx' = tx /\ UNCHANGED chainVars
      /\ faults' \in 0..MaxFaults /\ payload' = payload /\ record' = record
  BY DEF Sign, At, Running, IInv, Typed
<1>3. signed' \subseteq Payloads
  <2>1. run[i].x \in Payloads
    BY <1>1 DEF RunOK, Unsent
  <2> QED BY <2>1 DEF Sign, IInv, Typed, ChainTypeOK
<1>4. PICK r \in RunType :
        Goes(i, r) /\ RunOK(i, r, tx[i]) /\ r.own = run[i].own /\ r.pc # "send"
  <2>1. CASE Goes(i, [run[i] EXCEPT !.pc = "payload"])
    <3> DEFINE r == [run[i] EXCEPT !.pc = "payload"]
    <3>1. /\ r \in RunType /\ r.pc = "payload" /\ r.own = run[i].own /\ r.attested = run[i].attested
          /\ r.x = run[i].x /\ r.out = run[i].out /\ r.exit = run[i].exit /\ r.send = run[i].send
          /\ r.key = run[i].key
      BY GoingOn
    <3> HIDE DEF r
    <3>2. RunOK(i, r, tx[i])
      BY <1>1, <3>1 DEF RunOK, Unsent
    <3> QED BY <2>1, <3>1, <3>2 DEF r
  <2>2. CASE Goes(i, ends(i, "refused", NoEvent))
    BY <1>2, <2>2, Ending, CallTypes
  <2> QED BY <2>1, <2>2 DEF Sign
<1>5. ~Past(run[i])
  BY <1>1 DEF Past
<1>6. Moves(i, r, tx[i])
  BY <1>2, <1>3, <1>4, <1>5, QuietStep
<1> QED BY <1>2, <1>4, <1>6, MoveKeeps DEF Writes, Records

LEMMA WritePayloadKeeps == ASSUME IInv, NEW i \in Runs, WritePayload(i) PROVE IInv'
<1>1. RunOK(i, run[i], tx[i]) /\ run[i].pc = "payload" /\ dir(i) = place(i, run[i])
  BY AtHand DEF WritePayload, At
<1>2. Running(i) /\ tx' = tx /\ UNCHANGED chainVars /\ signed' \subseteq Payloads
      /\ faults' \in 0..MaxFaults /\ record' = record
  BY DEF WritePayload, At, Running, IInv, Typed, ChainTypeOK
<1>3. Unsent(i, run[i], tx[i])
  BY <1>1 DEF RunOK
<1>4. PICK r \in RunType : /\ Goes(i, r) /\ RunOK(i, r, tx[i]) /\ r.own = run[i].own /\ Past(r)
                           /\ r.pc = "send" => r.x = run[i].x
  <2>1. CASE Goes(i, [run[i] EXCEPT !.pc = "send"])
    <3> DEFINE r == [run[i] EXCEPT !.pc = "send"]
    <3>1. /\ r \in RunType /\ r.pc = "send" /\ r.own = run[i].own /\ r.attested = run[i].attested
          /\ r.x = run[i].x /\ r.out = run[i].out /\ r.exit = run[i].exit /\ r.send = run[i].send
          /\ r.key = run[i].key
      BY GoingOn
    <3> HIDE DEF r
    <3>2. RunOK(i, r, tx[i])
      BY <1>1, <1>3, <3>1, CallTypes DEF RunOK, Unsent
    <3> QED BY <2>1, <3>1, <3>2 DEF r, Past
  <2>2. CASE Goes(i, ends(i, "signed", NoEvent))
    BY <1>2, <2>2, Ending, CallTypes
  <2> QED BY <2>1, <2>2 DEF WritePayload
<1>5. ~Past(run[i]) /\ run[i].pc # "idle"
  BY <1>1 DEF Past
<1>6. Moves(i, r, tx[i])
  BY <1>2, <1>4, <1>5, QuietStep
<1>7. Writes(i, r) /\ payload' = [payload EXCEPT ![place(i, run[i])] = run[i].x]
  <2>1. run[i].x \in Payloads
    BY <1>3 DEF Unsent
  <2>2. payload' = [payload EXCEPT ![place(i, run[i])] = run[i].x]
    BY <1>1 DEF WritePayload
  <2> QED BY <1>4, <1>5, <2>1, <2>2 DEF Writes
<1>8. ASSUME r.pc = "send" PROVE Kept(r.x, run', payload')
  <2> SUFFICES ASSUME r.x.phase = "apply" PROVE KeptAt(r.x.cB, r.x, run', payload')
    BY DEF Kept
  <2>1. r.x = run[i].x /\ r.x.cB = i
    BY <1>3, <1>4, <1>8 DEF Unsent
  <2>2. run'[i] = r
    BY <1>4 DEF Goes, IInv, Typed
  <2>3. r.own => payload'[i] = run[i].x
    BY <1>4, <1>7, CallTypes DEF place, IInv, Typed
  <2> QED BY <1>4, <2>1, <2>2, <2>3 DEF KeptAt
<1> QED BY <1>2, <1>6, <1>7, <1>8, MoveKeeps DEF Records

\* The node has taken the transaction.
LEMMA Pending ==
    ASSUME IInv, NEW i \in Runs, run[i].pc = "send"
    PROVE  /\ pendingTx(i) \in TxType /\ pendingTx(i).status = "pending"
           /\ pendingTx(i).call = run[i].x /\ pendingTx(i).from \in Keys
<1>1. run[i] \in RunType /\ RunOK(i, run[i], tx[i])
  BY AtHand
<1>2. run[i].x \in Calls /\ run[i].key \in Keys
  BY <1>1 DEF RunType, RunOK
<1>3. NoTx \in TxType
  BY CallTypes DEF NoTx, TxType
<1> QED BY <1>2, <1>3 DEF pendingTx, TxType

LEMMA SendKeeps == ASSUME IInv, NEW i \in Runs, Send(i) PROVE IInv'
<1>1. RunOK(i, run[i], tx[i]) /\ run[i].pc = "send"
  BY AtHand DEF Send, At
<1>2. Running(i) /\ UNCHANGED chainVars /\ signed' \subseteq Payloads
      /\ faults' \in 0..MaxFaults /\ record' = record /\ payload' = payload
  BY DEF Send, At, Running, IInv, Typed, ChainTypeOK
<1>3. CASE tx' = [tx EXCEPT ![i] = pendingTx(i)] /\ Goes(i, [run[i] EXCEPT !.pc = "receipt"])
  <2> DEFINE r == [run[i] EXCEPT !.pc = "receipt"]
             t == pendingTx(i)
  <2>1. /\ r \in RunType /\ r.pc = "receipt" /\ r.own = run[i].own /\ r.attested = run[i].attested
        /\ r.x = run[i].x /\ r.out = run[i].out /\ r.exit = run[i].exit /\ r.send = run[i].send
    BY GoingOn
  <2>2. t \in TxType /\ t.status = "pending" /\ t.call = run[i].x /\ t.from \in Keys
    BY <1>1, Pending
  <2> HIDE DEF r, t
  <2>3. RunOK(i, r, t)
    BY <1>1, <2>1, <2>2 DEF RunOK
  <2>4. run' = [run EXCEPT ![i] = r] /\ tx' = [tx EXCEPT ![i] = t]
    BY <1>3 DEF Goes, r, t
  <2>5. Moves(i, r, t)
    BY <1>1, <1>2, <2>1, <2>2, <2>3, <2>4 DEF Moves, Past
  <2> QED BY <1>2, <2>1, <2>5, MoveKeeps DEF Writes, Records
<1>4. CASE tx' = tx /\ Goes(i, ends(i, "reverted", NoEvent))
  <2> DEFINE r == ends(i, "reverted", NoEvent)
  <2>1. r \in RunType /\ RunOK(i, r, tx[i]) /\ r.own = run[i].own /\ Past(r) /\ r.pc = "record"
    BY <1>2, Ending, CallTypes
  <2>2. Goes(i, r)
    BY <1>4
  <2> HIDE DEF r
  <2>3. Moves(i, r, tx[i])
    BY <1>2, <1>4, <2>1, <2>2, QuietStep
  <2> QED BY <1>2, <2>1, <2>3, MoveKeeps DEF Writes, Records
<1> QED BY <1>3, <1>4 DEF Send

LEMMA ReceiptKeeps == ASSUME IInv, NEW i \in Runs, Receipt(i) PROVE IInv'
<1>1. RunOK(i, run[i], tx[i]) /\ run[i].pc = "receipt" /\ tx[i] \in TxType
  BY AtHand DEF Receipt, At
<1>2. Running(i) /\ tx' = tx /\ UNCHANGED chainVars /\ signed' \subseteq Payloads
      /\ faults' \in 0..MaxFaults /\ record' = record /\ payload' = payload
  BY DEF Receipt, At, Running, IInv, Typed, ChainTypeOK
<1>3. PICK r \in RunType : /\ Goes(i, r) /\ RunOK(i, r, tx[i]) /\ r.own = run[i].own /\ Past(r)
                           /\ r.pc = "record"
  <2>1. CASE tx[i].status = "included" /\ Goes(i, ends(i, "included", tx[i].event))
    <3>1. tx[i].call = run[i].x /\ tx[i].event \in Events
      BY <1>1 DEF RunOK, TxType
    <3> QED BY <1>2, <2>1, <3>1, Ending
  <2>2. CASE Goes(i, ends(i, "reverted", NoEvent))
    BY <1>2, <2>2, Ending, CallTypes
  <2> QED BY <2>1, <2>2 DEF Receipt
<1>4. Moves(i, r, tx[i])
  BY <1>2, <1>3, QuietStep
<1> QED BY <1>2, <1>3, <1>4, MoveKeeps DEF Writes, Records

LEMMA WriteRecordKeeps == ASSUME IInv, NEW i \in Runs, WriteRecord(i) PROVE IInv'
<1>1. /\ run[i] \in RunType /\ RunOK(i, run[i], tx[i]) /\ run[i].pc = "record"
      /\ dir(i) = place(i, run[i])
  BY AtHand DEF WriteRecord, At
<1>2. Running(i) /\ tx' = tx /\ UNCHANGED chainVars /\ signed' \subseteq Payloads
      /\ faults' \in 0..MaxFaults /\ payload' = payload
  BY DEF WriteRecord, At, Running, IInv, Typed, ChainTypeOK
<1> DEFINE want == IF run[i].send THEN "included" ELSE "signed"
           exit == IF run[i].out.outcome = want THEN "ok" ELSE "failed"
           r == [run[i] EXCEPT !.pc = "done", !.out = Absent, !.exit = exit]
<1>3. Goes(i, r)
  BY DEF WriteRecord
<1>4. exit \in {"ok", "failed"} /\ (exit = "ok" /\ run[i].send => run[i].out.outcome = "included")
  OBVIOUS
<1> HIDE DEF want, exit
<1>5. Absent \in Files /\ Absent.outcome = "none"
  BY CallTypes DEF Absent
<1>6. /\ r \in RunType /\ r.pc = "done" /\ r.out = Absent /\ r.exit = exit /\ r.own = run[i].own
      /\ r.attested = run[i].attested /\ r.x = run[i].x /\ r.send = run[i].send
  BY <1>1, <1>4, <1>5 DEF RunType
<1> HIDE DEF r
<1>7. RunOK(i, r, tx[i])
  BY <1>1, <1>4, <1>5, <1>6 DEF RunOK
<1>8. Moves(i, r, tx[i])
  <2>1. Past(r)
    BY <1>6 DEF Past
  <2> QED BY <1>2, <1>3, <1>6, <1>7, <2>1, QuietStep
<1>9. Records(i, tx[i])
  <2>1. run[i].out \in Files
    BY <1>1 DEF RunType
  <2>2. run[i].out.outcome = "included" => Reports(run[i].out, tx[i])
    BY <1>1 DEF RunOK, Reports
  <2> QED BY <1>1, <2>1, <2>2 DEF Records, WriteRecord
<1> QED BY <1>2, <1>6, <1>8, <1>9, MoveKeeps DEF Writes

-----------------------------------------------------------------------------
(* Faults.                                                                 *)

\* A file that says nothing of a transaction.
LEMMA SaysNothing ==
    /\ [Absent EXCEPT !.kind = "error"] \in Files /\ [Absent EXCEPT !.kind = "error"].outcome = "none"
    /\ Torn \in Files /\ Torn.outcome = "none"
<1>1. [Absent EXCEPT !.kind = "error"]
      = [kind |-> "error", outcome |-> "none", payload |-> NoCall, event |-> NoEvent]
  BY DEF Absent
<1>2. Torn = [kind |-> "torn", outcome |-> "none", payload |-> NoCall, event |-> NoEvent]
  BY DEF Torn, Absent
<1> QED BY <1>1, <1>2, CallTypes DEF Files

\* The step of a run that fails, whatever file it was writing.
LEMMA FailingStep ==
    ASSUME IInv, NEW i \in Runs, Running(i), Goes(i, fails(i)), NEW t \in TxType,
           tx' = [tx EXCEPT ![i] = t], UNCHANGED chainVars, signed' \subseteq Payloads,
           faults' \in 0..MaxFaults,
           \/ t = tx[i]
           \/ run[i].pc = "send" /\ t.status = "pending" /\ t.call = run[i].x /\ t.from \in Keys,
           payload' = payload \/ (~Past(run[i]) /\ payload' = [payload EXCEPT ![dir(i)] = Torn]),
           NEW f \in Files, f.outcome = "none",
           record' = record \/ record' = [record EXCEPT ![dir(i)] = f]
    PROVE  IInv'
<1> DEFINE r == fails(i)
<1>1. /\ r \in RunType /\ RunOK(i, r, t) /\ r.own = run[i].own /\ r.pc = "done" /\ Past(r)
  BY Failing
<1>2. Goes(i, r)
  OBVIOUS
<1> HIDE DEF r
<1>3. dir(i) = place(i, run[i]) /\ run[i].pc # "idle"
  BY AtHand DEF Running
<1>4. Moves(i, r, t)
  BY <1>1, <1>2 DEF Moves, Goes
<1>5. Writes(i, r)
  BY <1>3, PayloadIsCall DEF Writes
<1>6. Records(i, t)
  BY <1>3 DEF Records
<1> QED BY <1>1, <1>4, <1>5, <1>6, MoveKeeps

LEMMA FaultTyped == ASSUME IInv, NEW n \in Nat, Faults(n) PROVE faults' \in 0..MaxFaults
  BY RunsAssumption DEF IInv, Typed, Faults

LEMMA RunErrsKeeps == ASSUME IInv, NEW i \in Runs, RunErrs(i) PROVE IInv'
<1>1. /\ Running(i) /\ Goes(i, fails(i)) /\ tx' = tx /\ UNCHANGED chainVars
      /\ signed' \subseteq Payloads /\ payload' = payload
  BY DEF RunErrs, IInv, Typed, ChainTypeOK
<1>2. faults' \in 0..MaxFaults
  BY FaultTyped DEF RunErrs
<1>3. tx[i] \in TxType /\ tx' = [tx EXCEPT ![i] = tx[i]]
  BY <1>1, AtHand
<1>4. record' = record \/ record' = [record EXCEPT ![dir(i)] = [Absent EXCEPT !.kind = "error"]]
  BY DEF RunErrs
<1> QED BY <1>1, <1>2, <1>3, <1>4, SaysNothing, FailingStep

LEMMA KilledKeeps == ASSUME IInv, NEW i \in Runs, Killed(i) PROVE IInv'
<1>1. /\ Running(i) /\ Goes(i, fails(i)) /\ tx' = tx /\ UNCHANGED chainVars
      /\ signed' \subseteq Payloads
  BY DEF Killed, IInv, Typed, ChainTypeOK
<1>2. faults' \in 0..MaxFaults
  BY FaultTyped DEF Killed
<1>3. tx[i] \in TxType /\ tx' = [tx EXCEPT ![i] = tx[i]]
  BY <1>1, AtHand
<1>4. payload' = payload \/ (~Past(run[i]) /\ payload' = [payload EXCEPT ![dir(i)] = Torn])
  BY DEF Killed, At, Past
<1>5. record' = record \/ record' = [record EXCEPT ![dir(i)] = Torn]
  BY DEF Killed
<1> QED BY <1>1, <1>2, <1>3, <1>4, <1>5, SaysNothing, FailingStep

LEMMA ReplyLostKeeps == ASSUME IInv, NEW i \in Runs, ReplyLost(i) PROVE IInv'
<1>1. /\ Running(i) /\ Goes(i, fails(i)) /\ tx' = tx /\ UNCHANGED chainVars /\ payload' = payload
      /\ record' = [record EXCEPT ![dir(i)] = [Absent EXCEPT !.kind = "error"]]
  BY DEF ReplyLost, At, Running
<1>2. faults' \in 0..MaxFaults
  BY FaultTyped DEF ReplyLost
<1>3. tx[i] \in TxType /\ tx' = [tx EXCEPT ![i] = tx[i]]
  BY <1>1, AtHand
<1>4. signed' \subseteq Payloads
  <2>1. run[i].x \in Payloads
    BY AtHand DEF ReplyLost, At, RunOK, Unsent
  <2> QED BY <2>1 DEF ReplyLost, IInv, Typed, ChainTypeOK
<1> QED BY <1>1, <1>2, <1>3, <1>4, SaysNothing, FailingStep

LEMMA AnswerLostKeeps == ASSUME IInv, NEW i \in Runs, AnswerLost(i) PROVE IInv'
<1>1. /\ Running(i) /\ run[i].pc = "send" /\ Goes(i, fails(i)) /\ UNCHANGED chainVars
      /\ tx' = [tx EXCEPT ![i] = pendingTx(i)] /\ signed' \subseteq Payloads /\ payload' = payload
  BY DEF AnswerLost, At, Running, IInv, Typed, ChainTypeOK
<1>2. faults' \in 0..MaxFaults
  BY FaultTyped DEF AnswerLost
<1>3. record' = record \/ record' = [record EXCEPT ![dir(i)] = [Absent EXCEPT !.kind = "error"]]
  BY DEF AnswerLost
<1>4. /\ pendingTx(i) \in TxType /\ pendingTx(i).status = "pending"
      /\ pendingTx(i).call = run[i].x /\ pendingTx(i).from \in Keys
  BY <1>1, Pending
<1> QED BY <1>1, <1>2, <1>3, <1>4, SaysNothing, FailingStep

-----------------------------------------------------------------------------
(* Starting a command.                                                     *)

LEMMA StartKeeps ==
    ASSUME IInv, NEW i \in Runs, NEW r \in RunType, Starts(i, r), RunOK(i, r, NoTx),
           r.pc = "send" => Kept(r.x, run, payload)
    PROVE  IInv'
<1>1. run[i].pc = "idle" /\ RunOK(i, run[i], tx[i])
  BY AtHand DEF Starts
<1>2. tx[i].status = "none"
  BY <1>1 DEF RunOK
<1>3. RunOK(i, r, tx[i])
  <2>1. NoTx.status = "none"
    BY DEF NoTx
  <2> QED BY <1>2, <2>1 DEF RunOK, Unsent
<1>4. Moves(i, r, tx[i])
  <2>1. tx[i] \in TxType /\ tx' = [tx EXCEPT ![i] = tx[i]]
    BY AtHand DEF Starts
  <2> QED BY <1>1, <1>3, <2>1 DEF Moves, Starts, Past, IInv, Typed, ChainTypeOK
<1>5. Writes(i, r) /\ Records(i, tx[i])
  BY DEF Writes, Records, Starts
<1>6. r.pc = "send" => Kept(r.x, run', payload')
  BY <1>4, <1>5, MoveHolds, KeptStays
<1> QED BY <1>4, <1>5, <1>6, MoveKeeps

LEMMA IdleFields ==
    /\ Idle \in RunType /\ Idle.out.outcome = "none" /\ Idle.exit = "none" /\ ~Idle.attested
    /\ NoTx.status = "none"
<1>1. Absent \in Files /\ NoCall \in Calls
  BY CallTypes
<1>2. Idle \in RunType
  BY <1>1 DEF Idle, RunType
<1>3. Idle.out = Absent /\ Idle.exit = "none" /\ ~Idle.attested
  BY DEF Idle
<1>4. Absent.outcome = "none" /\ NoTx.status = "none"
  BY DEF Absent, NoTx
<1> QED BY <1>2, <1>3, <1>4

LEMMA AttestingOK ==
    ASSUME NEW i \in Runs, NEW o \in [cmd : Commands, key : Keys, send : BOOLEAN, own : BOOLEAN],
           NEW x \in Payloads, x.phase = "apply" => x.cB = i
    PROVE  /\ attesting(o, x) \in RunType /\ RunOK(i, attesting(o, x), NoTx)
           /\ attesting(o, x).pc = "attest"
<1>1. o.key \in Keys /\ o.send \in BOOLEAN /\ o.own \in BOOLEAN /\ x \in Calls
  BY CallTypes
<1> DEFINE r == attesting(o, x)
<1>2. /\ r \in RunType /\ r.pc = "attest" /\ r.attested = TRUE /\ r.key = o.key /\ r.x = x
      /\ r.out = Idle.out /\ r.exit = Idle.exit
  BY <1>1, IdleFields DEF attesting, RunType
<1> HIDE DEF r
<1>3. RunOK(i, r, NoTx)
  BY <1>1, <1>2, IdleFields DEF RunOK, Unsent
<1> QED BY <1>2, <1>3 DEF r

LEMMA SendingOK ==
    ASSUME NEW i \in Runs, NEW o \in [cmd : Commands, key : Keys, send : BOOLEAN, own : BOOLEAN],
           NEW c \in Sendable
    PROVE  /\ sending(o, c) \in RunType /\ RunOK(i, sending(o, c), NoTx) /\ sending(o, c).x = c
<1>1. o.key \in Keys /\ o.own \in BOOLEAN /\ c \in Calls
  BY CallTypes
<1> DEFINE r == sending(o, c)
<1>2. /\ r \in RunType /\ r.pc = "send" /\ r.attested = Idle.attested /\ r.key = o.key /\ r.x = c
      /\ r.out = Idle.out /\ r.exit = Idle.exit
  BY <1>1, IdleFields DEF sending, RunType
<1> HIDE DEF r
<1>3. RunOK(i, r, NoTx)
  BY <1>1, <1>2, IdleFields DEF RunOK, Unsent
<1> QED BY <1>2, <1>3 DEF r

\* Records with the fields of a call.
CallSpace ==
    [phase : {"none", "register", "apply", "engage", "settle"}, submitter : Keys \cup {"none"},
     eta : Dirs, cTx : Dirs, txId : Dirs, cB : Dirs, appId : Dirs, engId : Dirs]

LEMMA NoCallFields ==
    /\ NoCall \in CallSpace
    /\ NoCall.eta = 0 /\ NoCall.cTx = 0 /\ NoCall.txId = 0 /\ NoCall.cB = 0
    /\ NoCall.appId = 0 /\ NoCall.engId = 0
<1>1. 0 \in Dirs
  BY CallTypes
<1> QED BY <1>1 DEF NoCall, CallSpace

LEMMA RegisterKeeps ==
    ASSUME IInv, NEW i \in Runs, NEW o \in [cmd : Commands, key : Keys, send : BOOLEAN, own : BOOLEAN],
           Register(i, o)
    PROVE  IInv'
<1> DEFINE x == [NoCall EXCEPT !.phase = "register", !.submitter = o.key, !.eta = i, !.cTx = i]
<1>1. /\ x \in CallSpace /\ x.phase = "register" /\ x.submitter = o.key /\ x.eta = i /\ x.cTx = i
      /\ x.txId = 0 /\ x.cB = 0 /\ x.appId = 0 /\ x.engId = 0
  BY NoCallFields, CallTypes DEF CallSpace
<1>2. Starts(i, attesting(o, x))
  BY DEF Register
<1> HIDE DEF x
<1>3. x \in Payloads /\ x.phase = "register"
  BY <1>1 DEF Payloads, RegisterPayload, CallSpace
<1> QED BY <1>2, <1>3, AttestingOK, StartKeeps

\* What a listing's record gives apply and settle.
LEMMA ListingFile ==
    ASSUME IInv, NEW f \in records, listing_of(f)
    PROVE  f.payload.cTx \in Runs /\ f.event.txId \in Runs
<1>1. PICK d \in Dirs : f = record[d]
  BY DEF records
<1>2. PICK j \in Runs : Reports(f, tx[j])
  BY <1>1 DEF IInv, FilesOK, FileOK, listing_of
<1>3. f.payload \in Payloads /\ f.event = tx[j].event
  BY <1>2 DEF Reports, listing_of
<1>4. tx[j].event.txId \in Runs
  BY <1>2 DEF Reports, IInv, ChainOK, Made
<1> QED BY <1>3, <1>4, PayloadFields

LEMMA RecordTypes ==
    ASSUME IInv, NEW f \in records
    PROVE  f.payload \in Calls /\ f.event \in Events
<1>1. f \in Files
  BY DEF records, IInv, Typed
<1> QED BY <1>1 DEF Files

LEMMA ApplyForKeeps ==
    ASSUME IInv, NEW i \in Runs, NEW o \in [cmd : Commands, key : Keys, send : BOOLEAN, own : BOOLEAN],
           ApplyFor(i, o)
    PROVE  IInv'
<1>1. PICK f \in records :
        /\ listing_of(f)
        /\ Starts(i, attesting(o, [NoCall EXCEPT !.phase = "apply", !.submitter = o.key,
                                        !.eta = i, !.cB = i, !.cTx = f.payload.cTx,
                                        !.txId = f.event.txId]))
  BY DEF ApplyFor
<1> DEFINE cTx  == f.payload.cTx
           txId == f.event.txId
           x == [NoCall EXCEPT !.phase = "apply", !.submitter = o.key,
                               !.eta = i, !.cB = i, !.cTx = cTx, !.txId = txId]
<1>2. cTx \in Runs /\ txId \in Runs
  BY <1>1, ListingFile
<1>3. Starts(i, attesting(o, x))
  BY <1>1
<1> HIDE DEF cTx, txId
<1>4. /\ x \in CallSpace /\ x.phase = "apply" /\ x.submitter = o.key /\ x.eta = i /\ x.cTx = cTx
      /\ x.txId = txId /\ x.cB = i /\ x.appId = 0 /\ x.engId = 0
  BY <1>2, NoCallFields, CallTypes DEF CallSpace
<1> HIDE DEF x
<1>5. x \in Payloads /\ x.cB = i
  BY <1>2, <1>4 DEF Payloads, ApplyPayload, CallSpace
<1> QED BY <1>3, <1>5, AttestingOK, StartKeeps

LEMMA EngageKeeps ==
    ASSUME IInv, NEW i \in Runs, NEW o \in [cmd : Commands, key : Keys, send : BOOLEAN, own : BOOLEAN],
           Engage(i, o)
    PROVE  IInv'
<1>1. PICK f \in records :
        /\ f.event.appId # 0
        /\ Starts(i, sending(o, [NoCall EXCEPT !.phase = "engage", !.submitter = o.key,
                                        !.txId = f.event.txId, !.appId = f.event.appId]))
  BY DEF Engage
<1> DEFINE txId  == f.event.txId
           appId == f.event.appId
           c == [NoCall EXCEPT !.phase = "engage", !.submitter = o.key,
                               !.txId = txId, !.appId = appId]
<1>2. txId \in Runs /\ appId \in Runs
  BY <1>1, RecordTypes, EventFields
<1>3. Starts(i, sending(o, c))
  BY <1>1
<1> HIDE DEF txId, appId
<1>4. /\ c \in CallSpace /\ c.phase = "engage" /\ c.submitter = o.key /\ c.eta = 0 /\ c.cTx = 0
      /\ c.txId = txId /\ c.cB = 0 /\ c.appId = appId /\ c.engId = 0
  BY <1>2, NoCallFields, CallTypes DEF CallSpace
<1> HIDE DEF c
<1>5. c \in Sendable /\ c.phase = "engage"
  BY <1>2, <1>4 DEF Sendable, EngageArguments, CallSpace
<1>6. Kept(c, run, payload)
  BY <1>5 DEF Kept
<1> QED BY <1>3, <1>5, <1>6, SendingOK, StartKeeps

LEMMA SettleKeeps ==
    ASSUME IInv, NEW i \in Runs, NEW o \in [cmd : Commands, key : Keys, send : BOOLEAN, own : BOOLEAN],
           Settle(i, o)
    PROVE  IInv'
<1>1. PICK f, g, h \in records :
        /\ listing_of(f) /\ g.payload.phase = "apply" /\ h.event.engId # 0
        /\ Starts(i, attesting(o, [NoCall EXCEPT !.phase = "settle", !.submitter = o.key,
                                        !.eta = i, !.cTx = f.payload.cTx, !.txId = f.event.txId,
                                        !.cB = g.payload.cB, !.engId = h.event.engId]))
  BY DEF Settle
<1> DEFINE cTx   == f.payload.cTx
           txId  == f.event.txId
           cB    == g.payload.cB
           engId == h.event.engId
           x == [NoCall EXCEPT !.phase = "settle", !.submitter = o.key, !.eta = i, !.cTx = cTx,
                               !.txId = txId, !.cB = cB, !.engId = engId]
<1>2. cTx \in Runs /\ txId \in Runs
  BY <1>1, ListingFile
<1>3. cB \in Runs
  <2>1. g.payload \in Calls
    BY RecordTypes
  <2>2. g.payload \in Payloads
    BY <1>1, <2>1 DEF Calls, EngageArguments, NoCall
  <2> QED BY <1>1, <2>2, PayloadFields
<1>4. engId \in Runs
  BY <1>1, RecordTypes, EventFields
<1>5. Starts(i, attesting(o, x))
  BY <1>1
<1> HIDE DEF cTx, txId, cB, engId
<1>6. /\ x \in CallSpace /\ x.phase = "settle" /\ x.submitter = o.key /\ x.eta = i /\ x.cTx = cTx
      /\ x.txId = txId /\ x.cB = cB /\ x.appId = 0 /\ x.engId = engId
  BY <1>2, <1>3, <1>4, NoCallFields, CallTypes DEF CallSpace
<1> HIDE DEF x
<1>7. x \in Payloads /\ x.phase = "settle"
  BY <1>2, <1>3, <1>4, <1>6 DEF Payloads, SettlePayload, CallSpace
<1> QED BY <1>5, <1>7, AttestingOK, StartKeeps

LEMMA SubmitKeeps ==
    ASSUME IInv, NEW i \in Runs, NEW o \in [cmd : Commands, key : Keys, send : BOOLEAN, own : BOOLEAN],
           Submit(i, o)
    PROVE  IInv'
<1>1. PICK d \in Dirs : payload[d] \notin {Torn, NoCall} /\ Starts(i, sending(o, payload[d]))
  BY DEF Submit
<1>2. payload[d] \in Payloads
  BY <1>1 DEF IInv, Typed
<1>3. payload[d] \in Sendable /\ Kept(payload[d], run, payload)
  BY <1>2, CallTypes DEF IInv, KeptOK
<1> QED BY <1>1, <1>3, SendingOK, StartKeeps

-----------------------------------------------------------------------------
(* The chain.  No step of it touches a run or a file.                      *)

\* From applications A, engagements E and nonces N to A2, E2 and N2: identifiers
\* and commitments stay.
Grows(A, E, N, A2, E2, N2) ==
    /\ DOMAIN A \subseteq DOMAIN A2 /\ \A a \in DOMAIN A : A2[a].cB = A[a].cB
    /\ DOMAIN E \subseteq DOMAIN E2 /\ \A e \in DOMAIN E : E2[e].appId = E[e].appId
    /\ N \subseteq N2

LEMMA MadeStays ==
    ASSUME NEW A, NEW E, NEW N, NEW A2, NEW E2, NEW N2, Grows(A, E, N, A2, E2, N2),
           NEW t, Made(t, A, E, N)
    PROVE  Made(t, A2, E2, N2)
<1> SUFFICES ASSUME t.status = "included" PROVE Made(t, A2, E2, N2)
  BY DEF Made
<1>1. t.event.txId \in Runs /\ (t.call.phase # "engage" => t.call.eta \in N2)
  BY DEF Made, Grows
<1>2. t.call.phase = "apply" =>
        t.event.appId \in DOMAIN A2 /\ A2[t.event.appId].cB = t.call.cB
  BY DEF Made, Grows
<1>3. t.call.phase = "settle" =>
        /\ t.call.engId \in DOMAIN E2 /\ E2[t.call.engId].appId \in DOMAIN A2
        /\ A2[E2[t.call.engId].appId].cB = t.call.cB
  BY DEF Made, Grows
<1> QED BY <1>1, <1>2, <1>3 DEF Made

\* The records after a step of the chain.
RecordsGrow ==
    /\ listings' \in Seq(ListingType) /\ apps' \in Seq(AppType) /\ engs' \in Seq(EngType)
    /\ consumed' \subseteq Runs
    /\ Grows(apps, engs, consumed, apps', engs', consumed')
    /\ \A e \in DOMAIN engs' : engs'[e].appId \in DOMAIN apps'
    /\ \A a \in DOMAIN apps' :
        apps'[a].txId \in DOMAIN listings' /\ OpeningIn(apps'[a].cB, run, payload)

LEMMA ChainKeeps ==
    ASSUME IInv, UNCHANGED <<run, payload, record, signed, faults>>, RecordsGrow,
           tx' \in [Runs -> TxType], Settles(run, tx, run, tx'),
           \A k \in Runs : RunOK(k, run[k], tx'[k]) /\ tx'[k].call = tx[k].call
                             /\ (tx'[k].status # "none" => tx[k].status # "none")
                             /\ tx'[k].from = tx[k].from,
           \A k \in Runs : Made(tx'[k], apps', engs', consumed'),
           PayloadPaysOnce', Counted(tx)'
    PROVE  IInv'
<1>1. Typed'
  BY DEF IInv, Typed, ChainTypeOK, RecordsGrow
<1>2. RunsOK'
  BY DEF RunsOK
<1>3. FilesOK'
  <2> SUFFICES ASSUME NEW d \in Dirs PROVE FileOK(d, record[d], run, tx')
    BY DEF FilesOK
  <2>1. FileOK(d, record[d], run, tx)
    BY DEF IInv, FilesOK
  <2> QED BY <2>1, FileStays
<1>4. ChainOK'
  <2>1. \A k \in Runs : Sent(tx'[k])
    BY DEF IInv, ChainOK, Sent
  <2> QED BY <2>1 DEF ChainOK, RecordsGrow
<1>5. KeptOK'
  <2>1. \A k \in Runs : tx'[k].status # "none" => Kept(tx'[k].call, run, payload)
    BY DEF IInv, KeptOK
  <2> QED BY <2>1 DEF IInv, KeptOK, RecordsGrow
<1> QED BY <1>1, <1>2, <1>3, <1>4, <1>5 DEF IInv

\* A step of the contract's other users changes states only.
LEMMA OthersKeep ==
    ASSUME IInv, UNCHANGED <<run, payload, record, signed, faults, tx>>, RecordsGrow,
           Len(listings') = Len(listings), Len(apps') = Len(apps), Len(engs') = Len(engs)
    PROVE  IInv'
<1>1. tx' \in [Runs -> TxType] /\ tx' = tx /\ PayloadPaysOnce'
  BY DEF IInv, Typed, ChainOK, PayloadPaysOnce
<1>2. Settles(run, tx, run, tx') /\ Counted(tx)'
  BY <1>1 DEF Settles, Counted, IInv, ChainOK
<1>3. \A k \in Runs : RunOK(k, run[k], tx'[k])
  BY <1>1 DEF IInv, RunsOK
<1>4. \A k \in Runs : Made(tx'[k], apps', engs', consumed')
  BY <1>1, MadeStays DEF IInv, ChainOK, RecordsGrow
<1> QED BY <1>1, <1>2, <1>3, <1>4, ChainKeeps

\* Updating the state of one listing.
LEMMA ListingUpdate ==
    ASSUME ChainTypeOK, NEW l \in DOMAIN listings,
           NEW v \in {"active", "locked", "expired", "settled", "cancelled"},
           NEW L, L = [listings EXCEPT ![l].state = v]
    PROVE  L \in Seq(ListingType) /\ Len(L) = Len(listings) /\ DOMAIN L = DOMAIN listings
<1>1. listings \in Seq(ListingType) /\ l \in 1..Len(listings) /\ listings[l] \in ListingType
  BY DEF ChainTypeOK
<1> DEFINE e == [listings[l] EXCEPT !.state = v]
<1>2. e \in ListingType
  BY <1>1 DEF ListingType
<1>3. L = [listings EXCEPT ![l] = e]
  BY <1>1
<1> HIDE DEF e
<1>4. L \in Seq(ListingType) /\ Len(L) = Len(listings)
  BY <1>1, <1>2, <1>3, ExceptSeq
<1> QED BY <1>1, <1>4

\* Applications that differ in their states only.
SameApps(A) ==
    /\ A \in Seq(AppType) /\ Len(A) = Len(apps) /\ DOMAIN A = DOMAIN apps
    /\ \A b \in DOMAIN apps : A[b].cB = apps[b].cB /\ A[b].txId = apps[b].txId

SameEngs(E) ==
    /\ E \in Seq(EngType) /\ Len(E) = Len(engs) /\ DOMAIN E = DOMAIN engs
    /\ \A b \in DOMAIN engs : E[b].appId = engs[b].appId

\* Updating the status of one application.
LEMMA AppUpdate ==
    ASSUME ChainTypeOK, NEW a \in DOMAIN apps, NEW v \in {"pending", "engaged", "reclaimed"},
           NEW A, A = [apps EXCEPT ![a].status = v]
    PROVE  SameApps(A)
<1>1. apps \in Seq(AppType) /\ a \in 1..Len(apps) /\ apps[a] \in AppType
  BY DEF ChainTypeOK
<1> DEFINE e == [apps[a] EXCEPT !.status = v]
<1>2. e \in AppType /\ e.cB = apps[a].cB /\ e.txId = apps[a].txId
  BY <1>1 DEF AppType
<1>3. A = [apps EXCEPT ![a] = e]
  BY <1>1
<1> HIDE DEF e
<1>4. /\ A \in Seq(AppType) /\ Len(A) = Len(apps)
      /\ \A b \in 1..Len(apps) : A[b] = IF b = a THEN e ELSE apps[b]
  BY <1>1, <1>2, <1>3, ExceptSeq
<1>5. DOMAIN A = DOMAIN apps /\ DOMAIN apps = 1..Len(apps)
  BY <1>1, <1>4
<1> QED BY <1>2, <1>4, <1>5 DEF SameApps

\* Updating the status of one engagement.
LEMMA EngUpdate ==
    ASSUME ChainTypeOK, NEW e \in DOMAIN engs, NEW v \in {"open", "expired", "settled"},
           NEW E, E = [engs EXCEPT ![e].status = v]
    PROVE  SameEngs(E)
<1>1. engs \in Seq(EngType) /\ e \in 1..Len(engs) /\ engs[e] \in EngType
  BY DEF ChainTypeOK
<1> DEFINE g == [engs[e] EXCEPT !.status = v]
<1>2. g \in EngType /\ g.appId = engs[e].appId
  BY <1>1 DEF EngType
<1>3. E = [engs EXCEPT ![e] = g]
  BY <1>1
<1> HIDE DEF g
<1>4. /\ E \in Seq(EngType) /\ Len(E) = Len(engs)
      /\ \A b \in 1..Len(engs) : E[b] = IF b = e THEN g ELSE engs[b]
  BY <1>1, <1>2, <1>3, ExceptSeq
<1>5. DOMAIN E = DOMAIN engs /\ DOMAIN engs = 1..Len(engs)
  BY <1>1, <1>4
<1> QED BY <1>2, <1>4, <1>5 DEF SameEngs

\* What the invariant says of the records before a step.
LEMMA RecordsBefore ==
    ASSUME IInv
    PROVE  /\ ChainTypeOK
           /\ \A e \in DOMAIN engs : engs[e].appId \in DOMAIN apps
           /\ \A a \in DOMAIN apps :
                apps[a].txId \in DOMAIN listings /\ OpeningIn(apps[a].cB, run, payload)
  BY DEF IInv, Typed, ChainOK, KeptOK

LEMMA ReclaimKeeps == ASSUME IInv, NEW a, Reclaim(a) PROVE IInv'
<1>1. a \in DOMAIN apps /\ apps' = [apps EXCEPT ![a].status = "reclaimed"]
      /\ listings' = listings /\ engs' = engs /\ consumed' = consumed
  BY DEF Reclaim
<1>2. SameApps(apps')
  BY <1>1, RecordsBefore, AppUpdate
<1>3. RecordsGrow
  BY <1>1, <1>2, RecordsBefore DEF RecordsGrow, Grows, ChainTypeOK, SameApps
<1> QED BY <1>1, <1>2, <1>3, OthersKeep DEF Reclaim, SameApps

LEMMA ExpireKeeps == ASSUME IInv, NEW e, Expire(e) PROVE IInv'
<1>1. e \in DOMAIN engs /\ engs' = [engs EXCEPT ![e].status = "expired"]
      /\ apps' = apps /\ consumed' = consumed
  BY DEF Expire
<1>2. SameEngs(engs')
  BY <1>1, RecordsBefore, EngUpdate
<1>3. listings' \in Seq(ListingType) /\ Len(listings') = Len(listings)
      /\ DOMAIN listings' = DOMAIN listings
  <2> DEFINE l == apps[engs[e].appId].txId
  <2>1. l \in DOMAIN listings
    BY <1>1, RecordsBefore
  <2>2. PICK after \in {"expired", "cancelled"} : listings' = [listings EXCEPT ![l].state = after]
    BY DEF Expire
  <2> HIDE DEF l
  <2> QED BY <2>1, <2>2, RecordsBefore, ListingUpdate
<1>4. RecordsGrow
  BY <1>1, <1>2, <1>3, RecordsBefore DEF RecordsGrow, Grows, ChainTypeOK, SameEngs
<1> QED BY <1>1, <1>2, <1>3, <1>4, OthersKeep DEF Expire, SameEngs

LEMMA CancelKeeps == ASSUME IInv, NEW l, Cancel(l) PROVE IInv'
<1>1. l \in DOMAIN listings /\ listings' = [listings EXCEPT ![l].state = "cancelled"]
      /\ apps' = apps /\ engs' = engs /\ consumed' = consumed
  BY DEF Cancel, open
<1>2. listings' \in Seq(ListingType) /\ Len(listings') = Len(listings)
      /\ DOMAIN listings' = DOMAIN listings
  BY <1>1, RecordsBefore, ListingUpdate
<1>3. RecordsGrow
  BY <1>1, <1>2, RecordsBefore DEF RecordsGrow, Grows, ChainTypeOK
<1> QED BY <1>1, <1>2, <1>3, OthersKeep DEF Cancel

\* The node takes up the transaction of run i, which becomes t.
Takes(i, t) ==
    /\ tx[i].status = "pending" /\ t \in TxType /\ tx' = [tx EXCEPT ![i] = t]
    /\ t.call = tx[i].call /\ t.from = tx[i].from /\ t.status \in {"included", "failed"}
    /\ UNCHANGED <<run, payload, record, signed, faults>>

LEMMA TakenTx ==
    ASSUME IInv, NEW i \in Runs, NEW t, Takes(i, t)
    PROVE  /\ tx' \in [Runs -> TxType] /\ tx'[i] = t /\ \A k \in Runs : k # i => tx'[k] = tx[k]
           /\ Settles(run, tx, run, tx')
           /\ \A k \in Runs : /\ RunOK(k, run[k], tx'[k]) /\ tx'[k].call = tx[k].call
                              /\ (tx'[k].status # "none" => tx[k].status # "none")
                              /\ tx'[k].from = tx[k].from
<1>1. tx \in [Runs -> TxType] /\ \A k \in Runs : RunOK(k, run[k], tx[k])
  BY DEF IInv, Typed, RunsOK
<1>2. tx' \in [Runs -> TxType] /\ tx'[i] = t /\ \A k \in Runs : k # i => tx'[k] = tx[k]
  BY <1>1 DEF Takes
<1>3. Settles(run, tx, run, tx')
  BY <1>2 DEF Settles, Takes
<1>4. RunOK(i, run[i], t)
  BY <1>1 DEF RunOK, Unsent, Takes
<1>5. \A k \in Runs : RunOK(k, run[k], tx'[k])
  BY <1>1, <1>2, <1>4
<1>6. \A k \in Runs : /\ tx'[k].call = tx[k].call /\ tx'[k].from = tx[k].from
                      /\ (tx'[k].status # "none" => tx[k].status # "none")
  BY <1>2 DEF Takes
<1> QED BY <1>2, <1>3, <1>5, <1>6

LEMMA FailOnChainKeeps == ASSUME IInv, NEW i \in Runs, FailOnChain(i) PROVE IInv'
<1> DEFINE t == [tx[i] EXCEPT !.status = "failed"]
<1>1. tx[i] \in TxType /\ tx[i].status = "pending" /\ UNCHANGED chainVars
      /\ UNCHANGED <<run, payload, record, signed, faults>> /\ tx \in [Runs -> TxType]
  BY AtHand DEF FailOnChain, IInv, Typed
<1>2. t \in TxType /\ t.status = "failed" /\ t.call = tx[i].call /\ t.from = tx[i].from
  BY <1>1 DEF TxType
<1>3. tx' = [tx EXCEPT ![i] = t]
  BY <1>1 DEF FailOnChain
<1> HIDE DEF t
<1>4. Takes(i, t)
  BY <1>1, <1>2, <1>3 DEF Takes
<1>5. tx'[i] = t /\ \A k \in Runs : k # i => tx'[k] = tx[k]
  BY <1>4, TakenTx
<1>6. apps' = apps /\ engs' = engs /\ consumed' = consumed /\ listings' = listings
  BY <1>1 DEF chainVars
<1>7. RecordsGrow
  BY <1>6, RecordsBefore DEF RecordsGrow, Grows, ChainTypeOK
<1>8. \A k \in Runs : Made(tx'[k], apps', engs', consumed')
  BY <1>2, <1>5, <1>6 DEF IInv, ChainOK, Made
<1>9. \A k \in Runs : /\ tx'[k].status = "included" <=> tx[k].status = "included"
                      /\ tx[k].status = "included" => tx'[k] = tx[k]
  BY <1>1, <1>2, <1>5
<1>10. PayloadPaysOnce'
  BY <1>9 DEF IInv, ChainOK, PayloadPaysOnce
<1>11. \A phase : Opened(tx', phase) = Opened(tx, phase)
  BY <1>9 DEF Opened
<1>12. Counted(tx)'
  BY <1>6, <1>11 DEF IInv, ChainOK, Counted
<1> QED BY <1>1, <1>4, <1>7, <1>8, <1>10, <1>12, TakenTx, ChainKeeps

\* There is a run for the record that the next transaction makes.
LEMMA OpenedBound ==
    ASSUME NEW i \in Runs, tx[i].status # "included", NEW phase
    PROVE  /\ IsFiniteSet(Opened(tx, phase)) /\ i \notin Opened(tx, phase)
           /\ Cardinality(Opened(tx, phase)) \in Nat /\ Cardinality(Opened(tx, phase)) + 1 \in Runs
<1> DEFINE S == Opened(tx, phase)
           U == Runs \ {i}
<1>1. MaxRuns \in Nat \ {0}
  BY RunsAssumption
<1>2. IsFiniteSet(Runs) /\ Cardinality(Runs) = MaxRuns
  BY <1>1, FS_Interval DEF Runs
<1>3. IsFiniteSet(U) /\ Cardinality(U) = MaxRuns - 1
  BY <1>2, FS_RemoveElement
<1>4. S \in SUBSET U /\ i \notin S
  BY DEF Opened
<1> HIDE DEF S, U
<1>5. IsFiniteSet(S) /\ Cardinality(S) <= Cardinality(U)
  BY <1>3, <1>4, FS_Subset
<1>6. Cardinality(S) \in Nat
  BY <1>5, FS_CardinalityType
<1>7. Cardinality(S) + 1 \in Runs
  BY <1>1, <1>3, <1>5, <1>6 DEF Runs
<1> QED BY <1>4, <1>5, <1>6, <1>7 DEF S

\* What an included transaction does to the counts.
Adds(c, phase) == IF c.phase = phase THEN 1 ELSE 0

LEMMA OpenedAdds ==
    ASSUME IInv, NEW i \in Runs, NEW t, Takes(i, t), t.status = "included", NEW phase
    PROVE  Cardinality(Opened(tx', phase)) = Cardinality(Opened(tx, phase)) + Adds(t.call, phase)
<1>1. tx'[i] = t /\ \A k \in Runs : k # i => tx'[k] = tx[k]
  BY TakenTx
<1>2. /\ IsFiniteSet(Opened(tx, phase)) /\ i \notin Opened(tx, phase)
      /\ Cardinality(Opened(tx, phase)) \in Nat
  BY OpenedBound DEF Takes
<1>3. CASE t.call.phase = phase
  <2>1. Opened(tx', phase) = Opened(tx, phase) \cup {i}
    BY <1>1, <1>3 DEF Opened
  <2> QED BY <1>2, <1>3, <2>1, FS_AddElement DEF Adds
<1>4. CASE t.call.phase # phase
  <2>1. Opened(tx', phase) = Opened(tx, phase)
    BY <1>1, <1>2, <1>4 DEF Opened
  <2> QED BY <1>2, <1>4, <2>1 DEF Adds
<1> QED BY <1>3, <1>4

\* An included transaction, given what it does to the records.
LEMMA IncludedKeeps ==
    ASSUME IInv, NEW i \in Runs, NEW t, Takes(i, t), t.status = "included", RecordsGrow,
           Len(listings') = Len(listings) + Adds(t.call, "register"),
           Len(apps') = Len(apps) + Adds(t.call, "apply"),
           Len(engs') = Len(engs) + Adds(t.call, "engage"),
           t.call.phase # "engage" => t.call.eta \notin consumed,
           Made(t, apps', engs', consumed')
    PROVE  IInv'
<1>1. tx'[i] = t /\ \A k \in Runs : k # i => tx'[k] = tx[k]
  BY TakenTx
<1>2. \A k \in Runs : Made(tx[k], apps, engs, consumed) /\ Sent(tx[k])
  BY DEF IInv, ChainOK
<1>3. \A k \in Runs : Made(tx'[k], apps', engs', consumed')
  BY <1>1, <1>2, MadeStays DEF RecordsGrow
<1>4. Counted(tx)'
  <2>1. /\ Len(listings) = Cardinality(Opened(tx, "register"))
        /\ Len(apps) = Cardinality(Opened(tx, "apply"))
        /\ Len(engs) = Cardinality(Opened(tx, "engage"))
    BY DEF IInv, ChainOK, Counted
  <2> QED BY <2>1, OpenedAdds DEF Counted
<1>5. PayloadPaysOnce'
  <2>1. ASSUME NEW k \in Runs, k # i, tx[k].status = "included", tx[k].call.eta # 0
        PROVE  tx[k].call.eta # t.call.eta
    <3>1. tx[k].call \in Sendable /\ tx[k].call.phase # "engage"
      BY <1>2, <2>1, SendableFields DEF Sent
    <3>2. tx[k].call.eta \in consumed
      BY <1>2, <2>1, <3>1 DEF Made
    <3>3. t.call \in Sendable
      BY <1>2 DEF Sent, Takes
    <3>4. t.call.phase = "engage" => t.call.eta = 0
      BY <3>3, SendableFields
    <3> QED BY <2>1, <3>2, <3>4
  <2>2. ASSUME NEW j \in Runs, NEW k \in Runs, j # k, tx'[j].status = "included",
               tx'[k].status = "included", tx'[j].call.eta # 0
        PROVE  tx'[j].call.eta # tx'[k].call.eta
    <3>1. CASE j = i
      BY <1>1, <2>1, <2>2, <3>1
    <3>2. CASE k = i
      BY <1>1, <2>1, <2>2, <3>2
    <3>3. CASE j # i /\ k # i
      BY <1>1, <2>2, <3>3 DEF IInv, ChainOK, PayloadPaysOnce
    <3> QED BY <3>1, <3>2, <3>3
  <2> QED BY <2>2 DEF PayloadPaysOnce
<1> QED BY <1>3, <1>4, <1>5, TakenTx, ChainKeeps DEF Takes

LEMMA IncludeTakes ==
    ASSUME IInv, NEW i \in Runs, Include(i), eventOf(tx[i].call) \in Events
    PROVE  \E t : /\ Takes(i, t) /\ t.status = "included" /\ t.call = tx[i].call
                  /\ t.event = eventOf(tx[i].call)
<1> DEFINE v == eventOf(tx[i].call)
           t == [tx[i] EXCEPT !.status = "included", !.event = v]
<1>1. tx[i] \in TxType /\ tx \in [Runs -> TxType] /\ tx[i].status = "pending"
      /\ UNCHANGED <<run, payload, record, signed, faults>>
  BY AtHand DEF IInv, Typed, Include
<1>2. tx' = [tx EXCEPT ![i] = t]
  BY <1>1 DEF Include
<1> HIDE DEF v
<1>3. /\ t \in TxType /\ t.status = "included" /\ t.event = v /\ t.call = tx[i].call
      /\ t.from = tx[i].from
  BY <1>1 DEF TxType, v
<1> HIDE DEF t
<1>4. Takes(i, t)
  BY <1>1, <1>2, <1>3 DEF Takes
<1> QED BY <1>3, <1>4 DEF v

\* What holds of the call before it is taken up.
LEMMA CallBefore ==
    ASSUME IInv, NEW i \in Runs, Include(i)
    PROVE  /\ tx[i].status = "pending" /\ tx[i].call \in Sendable /\ tx[i].from \in Keys
           /\ Accepts(tx[i].from, tx[i].call) /\ Executes(tx[i].from, tx[i].call)
           /\ Kept(tx[i].call, run, payload)
           /\ Len(listings) + 1 \in Runs /\ Len(apps) + 1 \in Runs /\ Len(engs) + 1 \in Runs
<1>1. tx[i].status = "pending" /\ Accepts(tx[i].from, tx[i].call)
      /\ Executes(tx[i].from, tx[i].call)
  BY DEF Include
<1>2. tx[i].call \in Sendable /\ tx[i].from \in Keys /\ Kept(tx[i].call, run, payload)
  BY <1>1 DEF IInv, ChainOK, Sent, KeptOK
<1>3. Len(listings) + 1 \in Runs /\ Len(apps) + 1 \in Runs /\ Len(engs) + 1 \in Runs
  BY <1>1, OpenedBound DEF IInv, ChainOK, Counted
<1> QED BY <1>1, <1>2, <1>3

LEMMA IncludeRegister ==
    ASSUME IInv, NEW i \in Runs, Include(i), tx[i].call.phase = "register"
    PROVE  IInv'
<1> DEFINE c == tx[i].call
           from == tx[i].from
           n == Len(listings) + 1
           L == [owner |-> from, cTx |-> c.cTx, state |-> "active"]
<1>1. c \in Payloads /\ from \in Keys /\ n \in Runs /\ c.eta \in Runs /\ c.cTx \in Runs
  BY CallBefore, SendableFields, PayloadFields
<1>2. c.eta \notin consumed
  BY CallBefore DEF Accepts, registerAccepts, attestedBy
<1>3. listings' = Append(listings, L) /\ apps' = apps /\ engs' = engs
      /\ consumed' = consumed \cup {c.eta}
  BY CallBefore DEF Executes
<1>4. eventOf(c) = [txId |-> n, appId |-> 0, engId |-> 0]
  BY DEF eventOf, NoEvent
<1>5. eventOf(c) \in Events
  BY <1>1, <1>4 DEF Events, RegisteredEvent
<1>6. PICK t : Takes(i, t) /\ t.status = "included" /\ t.call = c /\ t.event = eventOf(c)
  BY <1>5, IncludeTakes
<1>7. L \in ListingType
  BY <1>1 DEF ListingType
<1>8. listings' \in Seq(ListingType) /\ Len(listings') = Len(listings) + 1
      /\ DOMAIN listings \subseteq DOMAIN listings'
  <2>1. listings \in Seq(ListingType)
    BY RecordsBefore DEF ChainTypeOK
  <2> HIDE DEF L
  <2>2. listings' \in Seq(ListingType) /\ Len(listings') = Len(listings) + 1
    BY <1>3, <1>7, <2>1, AppendProperties
  <2> QED BY <2>1, <2>2
<1>9. RecordsGrow
  <2> HIDE DEF L, n
  <2> QED BY <1>1, <1>3, <1>8, RecordsBefore DEF RecordsGrow, Grows, ChainTypeOK
<1>10. Made(t, apps', engs', consumed')
  <2>1. t.event.txId \in Runs /\ t.event.appId = 0
    BY <1>1, <1>4, <1>6
  <2> QED BY <1>3, <1>6, <2>1 DEF Made
<1>11. /\ Len(listings') = Len(listings) + Adds(t.call, "register")
       /\ Len(apps') = Len(apps) + Adds(t.call, "apply")
       /\ Len(engs') = Len(engs) + Adds(t.call, "engage")
  <2>1. Adds(c, "register") = 1 /\ Adds(c, "apply") = 0 /\ Adds(c, "engage") = 0
    BY DEF Adds
  <2>2. Len(apps) \in Nat /\ Len(engs) \in Nat
    BY RecordsBefore DEF ChainTypeOK
  <2> QED BY <1>3, <1>6, <1>8, <2>1, <2>2
<1> QED BY <1>2, <1>6, <1>9, <1>10, <1>11, IncludedKeeps

LEMMA IncludeApply ==
    ASSUME IInv, NEW i \in Runs, Include(i), tx[i].call.phase = "apply"
    PROVE  IInv'
<1> DEFINE c == tx[i].call
           from == tx[i].from
           n == Len(apps) + 1
           A == [txId |-> c.txId, depositor |-> from, cB |-> c.cB, status |-> "pending"]
<1>1. c \in Payloads /\ from \in Keys /\ n \in Runs /\ c.eta \in Runs
      /\ c \in ApplyPayload /\ c.txId \in Runs /\ c.cB \in Runs
  BY CallBefore, SendableFields, PayloadFields
<1>2. c.eta \notin consumed /\ c.txId \in DOMAIN listings
  BY CallBefore DEF Accepts, applyAccepts, attestedBy, open
<1>3. listings' = listings /\ apps' = Append(apps, A) /\ engs' = engs
      /\ consumed' = consumed \cup {c.eta}
  BY CallBefore DEF Executes
<1>4. eventOf(c) = [txId |-> c.txId, appId |-> n, engId |-> 0]
  BY DEF eventOf, NoEvent
<1>5. eventOf(c) \in Events
  BY <1>1, <1>4 DEF Events, AppliedEvent
<1>6. PICK t : Takes(i, t) /\ t.status = "included" /\ t.call = c /\ t.event = eventOf(c)
  BY <1>5, IncludeTakes
<1>7. A \in AppType /\ A.txId = c.txId /\ A.cB = c.cB
  BY <1>1 DEF AppType
<1>8. apps \in Seq(AppType) /\ Len(apps) \in Nat /\ DOMAIN apps = 1..Len(apps)
  BY RecordsBefore DEF ChainTypeOK
<1>9. /\ apps' \in Seq(AppType) /\ Len(apps') = Len(apps) + 1
      /\ \A a \in 1..Len(apps) : apps'[a] = apps[a]
      /\ apps'[Len(apps) + 1] = A
  <2> HIDE DEF A
  <2> QED BY <1>3, <1>7, <1>8, AppendProperties
<1>10. DOMAIN apps' = DOMAIN apps \cup {n} /\ n \notin DOMAIN apps /\ n \in DOMAIN apps'
  BY <1>8, <1>9
<1>11. OpeningIn(c.cB, run, payload)
  <2>1. KeptAt(c.cB, c, run, payload)
    BY CallBefore DEF Kept
  <2> QED BY <1>1, <2>1 DEF OpeningIn
<1> HIDE DEF A
<1>12. RecordsGrow
  <2>1. \A a \in DOMAIN apps' : /\ apps'[a].txId \in DOMAIN listings'
                                /\ OpeningIn(apps'[a].cB, run, payload)
    BY <1>2, <1>3, <1>7, <1>8, <1>9, <1>10, <1>11, RecordsBefore
  <2>2. Grows(apps, engs, consumed, apps', engs', consumed')
    BY <1>3, <1>8, <1>9, <1>10 DEF Grows
  <2>3. \A e \in DOMAIN engs' : engs'[e].appId \in DOMAIN apps'
    BY <1>3, <1>10, RecordsBefore
  <2> HIDE DEF n
  <2> QED BY <1>1, <1>3, <1>9, <2>1, <2>2, <2>3, RecordsBefore DEF RecordsGrow, ChainTypeOK
<1>13. Made(t, apps', engs', consumed')
  <2>1. t.event.txId \in Runs /\ t.event.appId = n
    BY <1>1, <1>4, <1>6
  <2>2. apps'[n].cB = c.cB
    BY <1>7, <1>9
  <2> HIDE DEF n
  <2> QED BY <1>3, <1>6, <1>10, <2>1, <2>2 DEF Made
<1>14. /\ Len(listings') = Len(listings) + Adds(t.call, "register")
       /\ Len(apps') = Len(apps) + Adds(t.call, "apply")
       /\ Len(engs') = Len(engs) + Adds(t.call, "engage")
  <2>1. Adds(c, "register") = 0 /\ Adds(c, "apply") = 1 /\ Adds(c, "engage") = 0
    BY DEF Adds
  <2>2. Len(listings) \in Nat /\ Len(engs) \in Nat
    BY RecordsBefore DEF ChainTypeOK
  <2> QED BY <1>3, <1>6, <1>9, <2>1, <2>2
<1> QED BY <1>2, <1>6, <1>12, <1>13, <1>14, IncludedKeeps

LEMMA IncludeEngage ==
    ASSUME IInv, NEW i \in Runs, Include(i), tx[i].call.phase = "engage"
    PROVE  IInv'
<1> DEFINE c == tx[i].call
           from == tx[i].from
           n == Len(engs) + 1
           G == [appId |-> c.appId, status |-> "open"]
<1>1. n \in Runs /\ c.txId \in Runs /\ c.appId \in Runs
  BY CallBefore, SendableFields
<1>2. c.txId \in DOMAIN listings /\ c.appId \in DOMAIN apps
  BY CallBefore DEF Accepts, engageAccepts
<1>3. /\ listings' = [listings EXCEPT ![c.txId].state = "locked"]
      /\ apps' = [apps EXCEPT ![c.appId].status = "engaged"]
      /\ engs' = Append(engs, G) /\ consumed' = consumed
  BY CallBefore DEF Executes
<1>4. eventOf(c) = [txId |-> c.txId, appId |-> c.appId, engId |-> n]
  BY DEF eventOf
<1>5. eventOf(c) \in Events
  BY <1>1, <1>4 DEF Events, EngagedEvent
<1>6. PICK t : Takes(i, t) /\ t.status = "included" /\ t.call = c /\ t.event = eventOf(c)
  BY <1>5, IncludeTakes
<1>7. G \in EngType /\ G.appId = c.appId
  BY <1>1 DEF EngType
<1>8. engs \in Seq(EngType) /\ Len(engs) \in Nat /\ DOMAIN engs = 1..Len(engs)
  BY RecordsBefore DEF ChainTypeOK
<1>9. /\ engs' \in Seq(EngType) /\ Len(engs') = Len(engs) + 1
      /\ \A e \in 1..Len(engs) : engs'[e] = engs[e]
      /\ engs'[Len(engs) + 1] = G
  <2> HIDE DEF G
  <2> QED BY <1>3, <1>7, <1>8, AppendProperties
<1>10. DOMAIN engs' = DOMAIN engs \cup {n}
  BY <1>8, <1>9
<1> HIDE DEF G
<1>11. listings' \in Seq(ListingType) /\ Len(listings') = Len(listings)
       /\ DOMAIN listings' = DOMAIN listings
  BY <1>2, <1>3, RecordsBefore, ListingUpdate
<1>12. SameApps(apps')
  BY <1>2, <1>3, RecordsBefore, AppUpdate
<1>13. RecordsGrow
  <2>1. \A a \in DOMAIN apps' : /\ apps'[a].txId \in DOMAIN listings'
                                /\ OpeningIn(apps'[a].cB, run, payload)
    BY <1>11, <1>12, RecordsBefore DEF SameApps
  <2>2. Grows(apps, engs, consumed, apps', engs', consumed')
    BY <1>3, <1>8, <1>9, <1>10, <1>12 DEF Grows, SameApps
  <2>3. \A e \in DOMAIN engs' : engs'[e].appId \in DOMAIN apps'
    BY <1>2, <1>7, <1>8, <1>9, <1>10, <1>12, RecordsBefore DEF SameApps
  <2> HIDE DEF n
  <2> QED BY <1>3, <1>9, <1>11, <1>12, <2>1, <2>2, <2>3, RecordsBefore
          DEF RecordsGrow, ChainTypeOK, SameApps
<1>14. Made(t, apps', engs', consumed')
  <2>1. t.event.txId \in Runs
    BY <1>1, <1>4, <1>6
  <2> HIDE DEF n
  <2> QED BY <1>6, <2>1 DEF Made
<1>15. /\ Len(listings') = Len(listings) + Adds(t.call, "register")
       /\ Len(apps') = Len(apps) + Adds(t.call, "apply")
       /\ Len(engs') = Len(engs) + Adds(t.call, "engage")
  <2>1. Adds(c, "register") = 0 /\ Adds(c, "apply") = 0 /\ Adds(c, "engage") = 1
    BY DEF Adds
  <2>2. Len(listings) \in Nat /\ Len(apps) \in Nat /\ Len(apps') = Len(apps)
    BY <1>12, RecordsBefore DEF ChainTypeOK, SameApps
  <2> QED BY <1>6, <1>9, <1>11, <2>1, <2>2
<1> QED BY <1>6, <1>13, <1>14, <1>15, IncludedKeeps

\* A settlement the contract takes is about the application that was engaged.
LEMMA SettleReconstructs ==
    ASSUME NEW from, NEW c \in SettlePayload, Reconstructed(from, c) = c
    PROVE  LET a == engs[c.engId].appId IN c.cB = apps[a].cB /\ c.txId = apps[a].txId
<1> DEFINE a == engs[c.engId].appId
           l == apps[a].txId
           x == [c EXCEPT !.submitter = from, !.txId = l, !.cTx = listings[l].cTx, !.cB = apps[a].cB]
<1>1. c.phase = "settle"
  BY DEF SettlePayload
<1>2. x = c
  BY <1>1 DEF Reconstructed
<1>3. x.cB = apps[a].cB /\ x.txId = l
  BY DEF SettlePayload
<1> QED BY <1>2, <1>3

LEMMA IncludeSettle ==
    ASSUME IInv, NEW i \in Runs, Include(i), tx[i].call.phase = "settle"
    PROVE  IInv'
<1> DEFINE c == tx[i].call
           from == tx[i].from
           a == engs[c.engId].appId
<1>1. c \in Payloads /\ c.eta \in Runs /\ c.txId \in Runs /\ c.engId \in Runs
  BY CallBefore, SendableFields, PayloadFields
<1>2. c \in SettlePayload
  BY <1>1 DEF Payloads, RegisterPayload, ApplyPayload
<1>3. c.eta \notin consumed /\ c.engId \in DOMAIN engs /\ Reconstructed(from, c) = c
  BY CallBefore DEF Accepts, settleAccepts, attestedBy
<1>4. c.cB = apps[a].cB /\ c.txId = apps[a].txId
  BY <1>2, <1>3, SettleReconstructs
<1>5. a \in DOMAIN apps /\ c.txId \in DOMAIN listings
  BY <1>3, <1>4, RecordsBefore
<1>6. /\ listings' = [listings EXCEPT ![c.txId].state = "settled"] /\ apps' = apps
      /\ engs' = [engs EXCEPT ![c.engId].status = "settled"]
      /\ consumed' = consumed \cup {c.eta}
  BY CallBefore DEF Executes
<1>7. eventOf(c) = [txId |-> c.txId, appId |-> 0, engId |-> c.engId]
  BY DEF eventOf, NoEvent
<1>8. eventOf(c) \in Events
  BY <1>1, <1>7 DEF Events, SettledEvent
<1>9. PICK t : Takes(i, t) /\ t.status = "included" /\ t.call = c /\ t.event = eventOf(c)
  BY <1>8, IncludeTakes
<1>10. listings' \in Seq(ListingType) /\ Len(listings') = Len(listings)
       /\ DOMAIN listings' = DOMAIN listings
  BY <1>5, <1>6, RecordsBefore, ListingUpdate
<1>11. SameEngs(engs')
  BY <1>3, <1>6, RecordsBefore, EngUpdate
<1>12. RecordsGrow
  BY <1>1, <1>6, <1>10, <1>11, RecordsBefore DEF RecordsGrow, Grows, ChainTypeOK, SameEngs
<1>13. Made(t, apps', engs', consumed')
  <2>1. t.event.txId \in Runs /\ t.event.appId = 0
    BY <1>1, <1>7, <1>9
  <2>2. c.engId \in DOMAIN engs' /\ engs'[c.engId].appId = a
    BY <1>3, <1>11 DEF SameEngs
  <2> QED BY <1>4, <1>5, <1>6, <1>9, <2>1, <2>2 DEF Made
<1>14. /\ Len(listings') = Len(listings) + Adds(t.call, "register")
       /\ Len(apps') = Len(apps) + Adds(t.call, "apply")
       /\ Len(engs') = Len(engs) + Adds(t.call, "engage")
  <2>1. Adds(c, "register") = 0 /\ Adds(c, "apply") = 0 /\ Adds(c, "engage") = 0
    BY DEF Adds
  <2>2. Len(listings) \in Nat /\ Len(apps) \in Nat /\ Len(engs) \in Nat /\ Len(engs') = Len(engs)
    BY <1>11, RecordsBefore DEF ChainTypeOK, SameEngs
  <2> QED BY <1>6, <1>9, <1>10, <2>1, <2>2
<1> QED BY <1>3, <1>9, <1>12, <1>13, <1>14, IncludedKeeps

LEMMA IncludeKeeps == ASSUME IInv, NEW i \in Runs, Include(i) PROVE IInv'
<1>1. tx[i].call.phase \in {"register", "apply", "settle", "engage"}
  BY CallBefore, SendableFields
<1> QED BY <1>1, IncludeRegister, IncludeApply, IncludeEngage, IncludeSettle

-----------------------------------------------------------------------------
(* The theorems.                                                           *)

LEMMA InitHolds == Init => IInv
<1> SUFFICES ASSUME Init PROVE IInv
  OBVIOUS
<1>1. /\ \A i \in Runs : run[i] = Idle /\ tx[i] = NoTx
      /\ \A d \in Dirs : payload[d] = NoCall /\ record[d] = Absent
  BY DEF Init
<1>2. /\ Idle \in RunType /\ Idle.pc = "idle" /\ Idle.attested = FALSE
      /\ Idle.out = Absent /\ Idle.exit = "none"
  BY CallTypes DEF Idle, RunType
<1>3. NoTx \in TxType /\ NoTx.status = "none"
  BY CallTypes DEF NoTx, TxType
<1>4. Absent.outcome = "none"
  BY DEF Absent
<1>5. NoCall \notin Payloads
  BY PayloadIsCall
<1>6. listings = <<>> /\ apps = <<>> /\ engs = <<>> /\ consumed = {} /\ signed = {} /\ faults = 0
  BY DEF Init
<1>7. Typed
  <2>1. ChainTypeOK
    BY <1>6 DEF ChainTypeOK
  <2>2. faults \in 0..MaxFaults
    BY <1>6, RunsAssumption
  <2> QED BY <1>2, <1>3, <2>1, <2>2, CallTypes DEF Typed, Init
<1>8. RunsOK
  BY <1>1, <1>2, <1>3, <1>4 DEF RunsOK, RunOK
<1>9. FilesOK
  BY <1>1, <1>4 DEF FilesOK, FileOK
<1>10. ChainOK
  <2>1. \A i \in Runs : Sent(tx[i]) /\ Made(tx[i], apps, engs, consumed)
    BY <1>1, <1>3 DEF Sent, Made
  <2>2. \A phase : Opened(tx, phase) = {}
    BY <1>1, <1>3 DEF Opened
  <2>3. Counted(tx)
    BY <1>6, <2>2, FS_EmptySet DEF Counted
  <2>4. PayloadPaysOnce
    BY <1>1, <1>3 DEF PayloadPaysOnce
  <2> QED BY <1>6, <2>1, <2>3, <2>4 DEF ChainOK
<1>11. KeptOK
  BY <1>1, <1>2, <1>3, <1>5, <1>6 DEF KeptOK
<1> QED BY <1>7, <1>8, <1>9, <1>10, <1>11 DEF IInv

LEMMA StartAnyKeeps == ASSUME IInv, NEW i \in Runs, Start(i) PROVE IInv'
<1>1. PICK o \in Script[i] :
        \/ Register(i, o) \/ ApplyFor(i, o) \/ Engage(i, o) \/ Settle(i, o) \/ Submit(i, o)
  BY DEF Start
<1>2. o \in [cmd : Commands, key : Keys, send : BOOLEAN, own : BOOLEAN]
  BY <1>1, ScriptAssumption
<1> QED BY <1>1, <1>2, RegisterKeeps, ApplyForKeeps, EngageKeeps, SettleKeeps, SubmitKeeps

LEMMA StutterKeeps == ASSUME IInv, UNCHANGED vars PROVE IInv'
<1>1. /\ run' = run /\ payload' = payload /\ record' = record /\ tx' = tx /\ signed' = signed
      /\ faults' = faults /\ UNCHANGED chainVars
  BY DEF vars
<1>2. listings' = listings /\ apps' = apps /\ engs' = engs /\ consumed' = consumed
  BY <1>1 DEF chainVars
<1>3. RecordsGrow
  BY <1>2, RecordsBefore DEF RecordsGrow, Grows, ChainTypeOK
<1> QED BY <1>1, <1>2, <1>3, OthersKeep

LEMMA NextKeeps == IInv /\ [Next]_vars => IInv'
<1> SUFFICES ASSUME IInv, [Next]_vars PROVE IInv'
  OBVIOUS
<1>1. CASE Others
  BY <1>1, ReclaimKeeps, ExpireKeeps, CancelKeeps DEF Others
<1>2. ASSUME NEW i \in Runs, Start(i) PROVE IInv'
  BY <1>2, StartAnyKeeps
<1>3. ASSUME NEW i \in Runs, Step(i) PROVE IInv'
  BY <1>3, AttestKeeps, SignKeeps, WritePayloadKeeps, SendKeeps, ReceiptKeeps, WriteRecordKeeps
     DEF Step
<1>4. ASSUME NEW i \in Runs, Fault(i) PROVE IInv'
  BY <1>4, RunErrsKeeps, KilledKeeps, ReplyLostKeeps, AnswerLostKeeps DEF Fault
<1>5. ASSUME NEW i \in Runs, Chain(i) PROVE IInv'
  BY <1>5, IncludeKeeps, FailOnChainKeeps DEF Chain
<1>6. CASE UNCHANGED vars
  BY <1>6, StutterKeeps
<1> QED BY <1>1, <1>2, <1>3, <1>4, <1>5, <1>6 DEF Next

\* The invariant holds throughout, whatever commands are started, killed and
\* pointed at each other's files.
THEOREM ProverRunInvariance == Spec => []IInv
<1>1. Init => IInv
  BY InitHolds
<1>2. IInv /\ [Next]_vars => IInv'
  BY NextKeeps
<1> QED BY <1>1, <1>2, PTL DEF Spec

\* record.json and payload.json are true of the chain: an included outcome is that
\* of the run's own transaction and names the records it made, exit code 0 means
\* included, and the opening of every c_B on the chain is in the payload.json of
\* the run that applied (run_apply writes it before it sends).
THEOREM FilesAlwaysHold == Spec => []FilesHold
<1>1. IInv => FilesHold
  BY FilesTrue, OpeningsKept DEF FilesHold
<1> QED BY <1>1, ProverRunInvariance, PTL

\* Whatever files settle is given and however often a payload is submitted, an
\* engagement is settled by a proof about its own application's c_B, and one
\* signed statement takes effect once.
THEOREM EffectsStayOwn == Spec => []EffectsAreOwn
  BY EffectsOwn, ProverRunInvariance, PTL

=============================================================================
