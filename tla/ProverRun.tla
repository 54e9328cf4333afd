----------------------------- MODULE ProverRun -----------------------------
(***************************************************************************)
(* The command line of the prover, offchain/crates/pprev-prover/src:       *)
(* main.rs, register.rs, phases.rs and chain.rs.  Every command is a run   *)
(* of its own process: register, apply and settle attest, obtain a         *)
(* signature, write payload.json, send a transaction and write             *)
(* record.json; engage only sends; submit, submit-apply and submit-settle  *)
(* send a payload that an earlier run left.  Runs meet only in the files   *)
(* of their output directories and on the chain.                           *)
(*                                                                         *)
(* A run may be killed at any step, a file write cut short, a reply or a   *)
(* receipt lost; a transaction that was sent outlives the run that sent    *)
(* it, and is included, or fails, whenever the node takes it up.           *)
(*                                                                         *)
(* A call is the statement x the notary signs, or engage's arguments.      *)
(* Runs draw eta, r and the salt at random: the number of the run stands   *)
(* for each.  C_tx stands for txData and r (the commitment binds them) and *)
(* c_B for the identifier and the salt.  Times are left to PPREV: the      *)
(* contract may refuse any attested call as stale.                         *)
(***************************************************************************)
EXTENDS Naturals, Sequences, FiniteSets

CONSTANTS
    Keys,        \* accounts: every run signs with one
    MaxRuns,     \* bound on commands started
    Script,      \* bound on what is started: Script[i] holds the commands, with
                 \* their key, whether they send and whether they have an output
                 \* directory of their own, that the i-th run may be
    MaxFaults    \* bound on kills, errors and lost replies

ASSUME RunsAssumption ==
    /\ MaxRuns \in Nat \ {0} /\ MaxFaults \in Nat

Runs == 1..MaxRuns
Commands == {"register", "apply", "engage", "settle", "submit"}

ASSUME ScriptAssumption ==
    Script \in [Runs -> SUBSET [cmd : Commands, key : Keys, send : BOOLEAN, own : BOOLEAN]]

VARIABLES
    run,         \* the commands, in the order in which they start
    payload,     \* payload.json of each output directory
    record,      \* record.json, or the file that --out of a submission names
    tx,          \* the transaction each run sent, if any
    signed,      \* statements the policy verifier has signed
    listings, apps, engs, consumed,   \* the contract's records
    faults       \* faults so far

chainVars == <<listings, apps, engs, consumed>>
vars == <<run, payload, record, tx, signed, chainVars, faults>>

\* --out: a directory of the run's own, or the one that the others share.
Dirs == 0..MaxRuns
dir(i) == IF run[i].own THEN i ELSE 0

NoCall  == [phase |-> "none", submitter |-> "none", eta |-> 0, cTx |-> 0,
            txId |-> 0, cB |-> 0, appId |-> 0, engId |-> 0]
NoEvent == [txId |-> 0, appId |-> 0, engId |-> 0]
NoTx    == [status |-> "none", from |-> "none", call |-> NoCall, event |-> NoEvent]
\* A file that was never written, and one that a kill left half written.
Absent  == [kind |-> "absent", outcome |-> "none", payload |-> NoCall, event |-> NoEvent]
Torn    == [Absent EXCEPT !.kind = "torn"]
Idle    == [pc |-> "idle", attested |-> FALSE, key |-> "none", x |-> NoCall, send |-> FALSE,
            own |-> FALSE, out |-> Absent, exit |-> "none"]

\* The payloads, and the events of included transactions.  A field that a
\* payload does not have is 0.
RegisterPayload ==
    [phase : {"register"}, submitter : Keys, eta : Runs, cTx : Runs,
     txId : {0}, cB : {0}, appId : {0}, engId : {0}]
ApplyPayload ==
    [phase : {"apply"}, submitter : Keys, eta : Runs, cTx : Runs,
     txId : Runs, cB : Runs, appId : {0}, engId : {0}]
EngageArguments ==
    [phase : {"engage"}, submitter : Keys, eta : {0}, cTx : {0},
     txId : Runs, cB : {0}, appId : Runs, engId : {0}]
SettlePayload ==
    [phase : {"settle"}, submitter : Keys, eta : Runs, cTx : Runs,
     txId : Runs, cB : Runs, appId : {0}, engId : Runs]
Payloads == RegisterPayload \cup ApplyPayload \cup SettlePayload
Calls == Payloads \cup EngageArguments \cup {NoCall}

RegisteredEvent == [txId : Runs, appId : {0}, engId : {0}]
AppliedEvent == [txId : Runs, appId : Runs, engId : {0}]
EngagedEvent == [txId : Runs, appId : Runs, engId : Runs]
SettledEvent == [txId : Runs, appId : {0}, engId : Runs]
Events == RegisteredEvent \cup AppliedEvent \cup EngagedEvent \cup SettledEvent \cup {NoEvent}

Files  == [kind : {"absent", "torn", "run", "sent", "error"},
           outcome : {"none", "included", "signed", "noWitness", "refused", "reverted"},
           payload : Calls, event : Events]

TypeOK ==
    /\ \A i \in Runs :
        /\ run[i].pc \in {"idle", "attest", "sign", "payload", "send", "receipt",
                          "record", "done"}
        /\ run[i].key \in Keys \cup {"none"} /\ run[i].x \in Calls
        /\ run[i].attested \in BOOLEAN /\ run[i].send \in BOOLEAN /\ run[i].own \in BOOLEAN
        /\ run[i].out \in Files /\ run[i].exit \in {"none", "ok", "failed"}
        /\ tx[i].status \in {"none", "pending", "included", "failed"}
        /\ tx[i].call \in Calls /\ tx[i].event \in Events
    /\ \A d \in Dirs : payload[d] \in Payloads \cup {NoCall, Torn} /\ record[d] \in Files
    /\ signed \subseteq Payloads /\ consumed \subseteq Runs
    /\ \A l \in DOMAIN listings :
        listings[l].state \in {"active", "locked", "expired", "settled", "cancelled"}
    /\ \A a \in DOMAIN apps : apps[a].status \in {"pending", "engaged", "reclaimed"}
    /\ \A e \in DOMAIN engs : engs[e].status \in {"open", "expired", "settled"}
    /\ faults \in 0..MaxFaults

Init ==
    /\ run = [i \in Runs |-> Idle]
    /\ payload = [d \in Dirs |-> NoCall] /\ record = [d \in Dirs |-> Absent]
    /\ tx = [i \in Runs |-> NoTx]
    /\ signed = {} /\ listings = <<>> /\ apps = <<>> /\ engs = <<>> /\ consumed = {}
    /\ faults = 0

-----------------------------------------------------------------------------
(* The contract as a run meets it: what PPREV.sol checks of a call, beside  *)
(* its times and amounts, and what the call records.                       *)

\* _isOpen
open(l) == l \in DOMAIN listings /\ listings[l].state \in {"active", "expired"}

\* The statement the contract rebuilds from the call, the caller and its own
\* records, and checks the signature against.
Reconstructed(from, c) ==
    IF c.phase = "settle"
    THEN LET a == engs[c.engId].appId
             l == apps[a].txId
         IN [c EXCEPT !.submitter = from, !.txId = l, !.cTx = listings[l].cTx, !.cB = apps[a].cB]
    ELSE [c EXCEPT !.submitter = from]

\* Mutant of attestedBy: the nonce is not checked.
attestedByOldNonce(from, c) == c \in signed /\ Reconstructed(from, c) = c

attestedBy(from, c) ==
    c \in signed /\ Reconstructed(from, c) = c /\ c.eta \notin consumed

\* register: R(b)-R(f).
registerAccepts(from, c) ==
    /\ attestedBy(from, c)
    /\ \A l \in DOMAIN listings : listings[l].cTx # c.cTx

\* applyFor: A(a)-A(g).
applyAccepts(from, c) ==
    /\ open(c.txId)
    /\ listings[c.txId].owner # from /\ listings[c.txId].cTx = c.cTx
    /\ attestedBy(from, c)
    /\ \A a \in DOMAIN apps :
        ~ (apps[a].status = "pending" /\ apps[a].txId = c.txId /\ apps[a].depositor = from)

engageAccepts(from, c) ==
    /\ c.txId \in DOMAIN listings /\ listings[c.txId].owner = from
    /\ c.appId \in DOMAIN apps
    /\ apps[c.appId].status = "pending" /\ apps[c.appId].txId = c.txId
    /\ open(c.txId)

\* settle: S(a)-S(h).  An engagement that expired is past its expiresAt, S(h).
settleAccepts(from, c) ==
    /\ c.engId \in DOMAIN engs /\ engs[c.engId].status # "expired"
    /\ LET l == apps[engs[c.engId].appId].txId
       IN listings[l].owner = from /\ listings[l].state = "locked" /\ listings[l].cTx = c.cTx
    /\ attestedBy(from, c)

Accepts(from, c) ==
    CASE c.phase = "register" -> registerAccepts(from, c)
      [] c.phase = "apply"    -> applyAccepts(from, c)
      [] c.phase = "engage"   -> engageAccepts(from, c)
      [] c.phase = "settle"   -> settleAccepts(from, c)

\* What the call would emit if it were next.
eventOf(c) ==
    CASE c.phase = "register" -> [NoEvent EXCEPT !.txId = Len(listings) + 1]
      [] c.phase = "apply"    -> [NoEvent EXCEPT !.txId = c.txId, !.appId = Len(apps) + 1]
      [] c.phase = "engage"   -> [txId |-> c.txId, appId |-> c.appId, engId |-> Len(engs) + 1]
      [] c.phase = "settle"   -> [NoEvent EXCEPT !.txId = c.txId, !.engId = c.engId]

Executes(from, c) ==
    /\ listings' = CASE c.phase = "register" ->
                            Append(listings, [owner |-> from, cTx |-> c.cTx, state |-> "active"])
                     [] c.phase = "engage" -> [listings EXCEPT ![c.txId].state = "locked"]
                     [] c.phase = "settle" -> [listings EXCEPT ![c.txId].state = "settled"]
                     [] c.phase = "apply" -> listings
    /\ apps' = CASE c.phase = "apply" ->
                        Append(apps, [txId |-> c.txId, depositor |-> from, cB |-> c.cB,
                                      status |-> "pending"])
                 [] c.phase = "engage" -> [apps EXCEPT ![c.appId].status = "engaged"]
                 [] c.phase \in {"register", "settle"} -> apps
    /\ engs' = CASE c.phase = "engage" -> Append(engs, [appId |-> c.appId, status |-> "open"])
                 [] c.phase = "settle" -> [engs EXCEPT ![c.engId].status = "settled"]
                 [] c.phase \in {"register", "apply"} -> engs
    /\ consumed' = IF c.phase = "engage" THEN consumed ELSE consumed \cup {c.eta}

-----------------------------------------------------------------------------
(* Starting a command.  One command at a time per key.                     *)

Starts(i, started) ==
    /\ run[i].pc = "idle" /\ \A j \in 1..(i - 1) : run[j].pc # "idle"
    /\ \A j \in Runs : run[j].key = started.key => run[j].pc = "done"
    /\ run' = [run EXCEPT ![i] = started]
    /\ UNCHANGED <<payload, record, tx, signed, chainVars, faults>>

attesting(o, x) ==
    [Idle EXCEPT !.pc = "attest", !.attested = TRUE, !.key = o.key, !.x = x, !.send = o.send,
                 !.own = o.own]
sending(o, c) ==
    [Idle EXCEPT !.pc = "send", !.key = o.key, !.x = c, !.send = TRUE, !.own = o.own]

\* Files that a command may be pointed at.
records == {record[d] : d \in Dirs}

Register(i, o) ==
    Starts(i, attesting(o, [NoCall EXCEPT !.phase = "register", !.submitter = o.key,
                                          !.eta = i, !.cTx = i]))

\* The record of any run whose transaction was included names a listing: the
\* payload beside the event has its opening.
listing_of(file) == file.kind = "run" /\ file.outcome = "included"

ApplyFor(i, o) ==
    \E listing \in records :
        /\ listing_of(listing)
        /\ Starts(i, attesting(o, [NoCall EXCEPT !.phase = "apply", !.submitter = o.key,
                                        !.eta = i, !.cB = i, !.cTx = listing.payload.cTx,
                                        !.txId = listing.event.txId]))

Engage(i, o) ==
    \E application \in records :
        /\ application.kind = "run" /\ application.event.appId # 0
        /\ Starts(i, sending(o, [NoCall EXCEPT !.phase = "engage", !.submitter = o.key,
                                        !.txId = application.event.txId,
                                        !.appId = application.event.appId]))

\* settle reads three files, and nothing but the contract relates them.  The
\* application's payload holds c_B and its opening, whatever came of it.
Settle(i, o) ==
    \E listing, application, engagement \in records :
        /\ listing_of(listing)
        /\ application.kind = "run" /\ application.payload.phase = "apply"
        /\ engagement.kind = "sent" /\ engagement.event.engId # 0 /\ engagement.event.appId # 0
        /\ Starts(i, attesting(o, [NoCall EXCEPT !.phase = "settle", !.submitter = o.key,
                                        !.eta = i, !.cTx = listing.payload.cTx,
                                        !.txId = listing.event.txId,
                                        !.cB = application.payload.cB,
                                        !.engId = engagement.event.engId]))

\* submit, submit-apply and submit-settle: any payload, with any key.
Submit(i, o) ==
    \E c \in {payload[d] : d \in Dirs} \ {Torn, NoCall} : Starts(i, sending(o, c))

-----------------------------------------------------------------------------
(* The steps of a run.                                                     *)

At(i, pc) == run[i].pc = pc

\* The run ends with this file: record.json of an attested run, the outcome of
\* a submission.
ends(i, outcome, event) ==
    [run[i] EXCEPT !.pc = "record",
        !.out = [kind |-> IF run[i].attested THEN "run" ELSE "sent", outcome |-> outcome,
                 payload |-> IF run[i].attested /\ outcome \in {"included", "signed", "reverted"}
                             THEN run[i].x ELSE NoCall,
                 event |-> event]]

Goes(i, r) == run' = [run EXCEPT ![i] = r]

\* Login, notarised session, presentation and its own check, and the proof.
\* A predicate without a witness ends the run, unless a proof was borrowed.
Attest(i) ==
    /\ At(i, "attest")
    /\ \/ Goes(i, [run[i] EXCEPT !.pc = "sign"])
       \/ Goes(i, ends(i, "noWitness", NoEvent))
    /\ UNCHANGED <<payload, record, tx, signed, chainVars, faults>>

\* The policy verifier answers: it signs, or refuses.
Sign(i) ==
    /\ At(i, "sign")
    /\ \/ Goes(i, [run[i] EXCEPT !.pc = "payload"]) /\ signed' = signed \cup {run[i].x}
       \/ Goes(i, ends(i, "refused", NoEvent)) /\ UNCHANGED signed
    /\ UNCHANGED <<payload, record, tx, chainVars, faults>>

\* Mutant of WritePayload: the payload is kept only once the outcome is known.
writePayloadLate(i) ==
    /\ At(i, "payload")
    /\ Goes(i, IF run[i].send THEN [run[i] EXCEPT !.pc = "send"] ELSE ends(i, "signed", NoEvent))
    /\ UNCHANGED <<payload, record, tx, signed, chainVars, faults>>

WritePayload(i) ==
    /\ At(i, "payload")
    /\ payload' = [payload EXCEPT ![dir(i)] = run[i].x]
    /\ Goes(i, IF run[i].send THEN [run[i] EXCEPT !.pc = "send"] ELSE ends(i, "signed", NoEvent))
    /\ UNCHANGED <<record, tx, signed, chainVars, faults>>

pendingTx(i) == [NoTx EXCEPT !.status = "pending", !.from = run[i].key, !.call = run[i].x]

\* The node runs the call before it takes the transaction; it may find it stale.
Send(i) ==
    /\ At(i, "send")
    /\ \/ /\ Accepts(run[i].key, run[i].x)
          /\ tx' = [tx EXCEPT ![i] = pendingTx(i)]
          /\ Goes(i, [run[i] EXCEPT !.pc = "receipt"])
       \/ /\ ~ Accepts(run[i].key, run[i].x) \/ run[i].x.phase # "engage"
          /\ Goes(i, ends(i, "reverted", NoEvent))
          /\ UNCHANGED tx
    /\ UNCHANGED <<payload, record, signed, chainVars, faults>>

\* Mutant of Receipt: a transaction the node took counts as included.
receiptOfPending(i) ==
    /\ At(i, "receipt")
    /\ IF tx[i].status = "failed"
       THEN Goes(i, ends(i, "reverted", NoEvent))
       ELSE Goes(i, ends(i, "included",
                         IF tx[i].status = "included" THEN tx[i].event ELSE eventOf(run[i].x)))
    /\ UNCHANGED <<payload, record, tx, signed, chainVars, faults>>

\* Mutant of Receipt: a transaction that failed on the chain is waited for.
receiptOfSuccess(i) ==
    /\ At(i, "receipt") /\ tx[i].status = "included"
    /\ Goes(i, ends(i, "included", tx[i].event))
    /\ UNCHANGED <<payload, record, tx, signed, chainVars, faults>>

\* The receipt is polled until the transaction is in a block.
Receipt(i) ==
    /\ At(i, "receipt") /\ tx[i].status \in {"included", "failed"}
    /\ Goes(i, IF tx[i].status = "included" THEN ends(i, "included", tx[i].event)
               ELSE ends(i, "reverted", NoEvent))
    /\ UNCHANGED <<payload, record, tx, signed, chainVars, faults>>

\* The command succeeds when its run came as far as it was asked to.
WriteRecord(i) ==
    /\ At(i, "record")
    /\ record' = [record EXCEPT ![dir(i)] = run[i].out]
    /\ Goes(i, [run[i] EXCEPT !.pc = "done", !.out = Absent,
                    !.exit = IF run[i].out.outcome = (IF run[i].send THEN "included" ELSE "signed")
                             THEN "ok" ELSE "failed"])
    /\ UNCHANGED <<payload, tx, signed, chainVars, faults>>

-----------------------------------------------------------------------------
(* Faults.                                                                 *)

fails(i) == [run[i] EXCEPT !.pc = "done", !.out = Absent, !.exit = "failed"]

Faults(n) == faults + n <= MaxFaults /\ faults' = faults + n

Running(i) == run[i].pc \notin {"idle", "done"}

\* Any other error: a peer is gone, the node is on another chain, the receipt or
\* its block cannot be read.  An attested run writes it over record.json.
RunErrs(i) ==
    /\ Running(i) /\ ~ At(i, "record") /\ Faults(1)
    /\ record' = IF run[i].attested
                 THEN [record EXCEPT ![dir(i)] = [Absent EXCEPT !.kind = "error"]] ELSE record
    /\ Goes(i, fails(i))
    /\ UNCHANGED <<payload, tx, signed, chainVars>>

\* The process is killed, or a write fails; a file it was writing is cut short.
Killed(i) ==
    /\ Running(i) /\ Faults(1)
    /\ payload' \in {payload} \cup
           (IF At(i, "payload") THEN {[payload EXCEPT ![dir(i)] = Torn]} ELSE {})
    /\ record' \in {record} \cup
           (IF At(i, "record") THEN {[record EXCEPT ![dir(i)] = Torn]} ELSE {})
    /\ Goes(i, fails(i))
    /\ UNCHANGED <<tx, signed, chainVars>>

\* The reply of the policy verifier is lost: x is signed, nobody holds it.
ReplyLost(i) ==
    /\ At(i, "sign") /\ Faults(1)
    /\ signed' = signed \cup {run[i].x}
    /\ record' = [record EXCEPT ![dir(i)] = [Absent EXCEPT !.kind = "error"]]
    /\ Goes(i, fails(i))
    /\ UNCHANGED <<payload, tx, chainVars>>

\* The node took the transaction but its answer is lost.
AnswerLost(i) ==
    /\ At(i, "send") /\ Accepts(run[i].key, run[i].x) /\ Faults(1)
    /\ tx' = [tx EXCEPT ![i] = pendingTx(i)]
    /\ record' = IF run[i].attested
                 THEN [record EXCEPT ![dir(i)] = [Absent EXCEPT !.kind = "error"]] ELSE record
    /\ Goes(i, fails(i))
    /\ UNCHANGED <<payload, signed, chainVars>>

-----------------------------------------------------------------------------
(* The chain takes up what was sent, in any order, and its other users act. *)

Include(i) ==
    /\ tx[i].status = "pending" /\ Accepts(tx[i].from, tx[i].call)
    /\ Executes(tx[i].from, tx[i].call)
    /\ tx' = [tx EXCEPT ![i].status = "included", ![i].event = eventOf(tx[i].call)]
    /\ UNCHANGED <<run, payload, record, signed, faults>>

FailOnChain(i) ==
    /\ tx[i].status = "pending"
    /\ ~ Accepts(tx[i].from, tx[i].call) \/ tx[i].call.phase # "engage"
    /\ tx' = [tx EXCEPT ![i].status = "failed"]
    /\ UNCHANGED <<run, payload, record, signed, chainVars, faults>>

Reclaim(a) ==
    /\ a \in DOMAIN apps /\ apps[a].status = "pending"
    /\ apps' = [apps EXCEPT ![a].status = "reclaimed"]
    /\ UNCHANGED <<run, payload, record, tx, signed, listings, engs, consumed, faults>>

\* The expiration that exhausts the listing cancels it.
Expire(e) ==
    /\ e \in DOMAIN engs /\ engs[e].status = "open"
    /\ engs' = [engs EXCEPT ![e].status = "expired"]
    /\ \E after \in {"expired", "cancelled"} :
        listings' = [listings EXCEPT ![apps[engs[e].appId].txId].state = after]
    /\ UNCHANGED <<run, payload, record, tx, signed, apps, consumed, faults>>

Cancel(l) ==
    /\ open(l)
    /\ listings' = [listings EXCEPT ![l].state = "cancelled"]
    /\ UNCHANGED <<run, payload, record, tx, signed, apps, engs, consumed, faults>>

-----------------------------------------------------------------------------
Start(i) ==
    \E o \in Script[i] :
        \/ o.cmd = "register" /\ Register(i, o)
        \/ o.cmd = "apply" /\ ApplyFor(i, o)
        \/ o.cmd = "engage" /\ Engage(i, o)
        \/ o.cmd = "settle" /\ Settle(i, o)
        \/ o.cmd = "submit" /\ Submit(i, o)

Step(i) == Attest(i) \/ Sign(i) \/ WritePayload(i) \/ Send(i) \/ Receipt(i) \/ WriteRecord(i)

Fault(i) == RunErrs(i) \/ Killed(i) \/ ReplyLost(i) \/ AnswerLost(i)

Chain(i) == Include(i) \/ FailOnChain(i)

Others == \E n \in Runs : Reclaim(n) \/ Expire(n) \/ Cancel(n)

Next == Others \/ \E i \in Runs : Start(i) \/ Step(i) \/ Fault(i) \/ Chain(i)

Spec == Init /\ [][Next]_vars

\* Runs go on and the node takes up what it was sent; nobody must start a
\* command, and nothing must fail.
FairSpec == Spec /\ \A i \in Runs : WF_vars(Step(i)) /\ WF_vars(Chain(i))

-----------------------------------------------------------------------------
(* Properties.                                                             *)

\* What the files say is on the chain: a file with an included outcome names the
\* records that its own transaction made, with the opening that its payload
\* holds, whatever else was sent meanwhile; and a command that was asked to send
\* succeeds only when its transaction was included.
FilesTruthful ==
    /\ \A d \in Dirs : record[d].outcome = "included" =>
        \E i \in Runs :
            /\ tx[i].status = "included" /\ tx[i].event = record[d].event /\ dir(i) = d
            /\ record[d].kind = "run" => tx[i].call = record[d].payload
            /\ record[d].event.appId # 0 /\ record[d].kind = "run" =>
                   apps[record[d].event.appId].cB = record[d].payload.cB
    /\ \A i \in Runs : run[i].exit = "ok" /\ run[i].send => tx[i].status = "included"

\* The opening of every c_B on the chain is in a file, however the run that
\* applied ended: run_apply writes payload.json before it sends.  (With an output
\* directory of its own; in a shared one a later run overwrites it.)
OpeningKept ==
    \A a \in DOMAIN apps : run[apps[a].cB].own =>
        \E d \in Dirs :
            payload[d] # Torn /\ payload[d].phase = "apply" /\ payload[d].cB = apps[a].cB

\* What is on disk, in the face of a process that may be killed at any step: the files
\* are true of the chain, and what the chain needs is in them (write_json, record).
FilesHold == FilesTruthful /\ OpeningKept

\* Whatever mixture of files a settle run is given, the engagement it settles is
\* settled by a proof about the c_B of that engagement's own application.
SettledByOwnOpening ==
    \A i \in Runs : tx[i].status = "included" /\ tx[i].call.phase = "settle" =>
        apps[engs[tx[i].call.engId].appId].cB = tx[i].call.cB

\* A payload pays once: of all the transactions sent with one signed statement,
\* by its own run and by submissions of its file, at most one takes effect, also
\* after the application it made was reclaimed.
PayloadPaysOnce ==
    \A i, j \in Runs :
        /\ i # j /\ tx[i].status = "included" /\ tx[j].status = "included"
        /\ tx[i].call.eta # 0
        => tx[i].call.eta # tx[j].call.eta

\* What the runs leave on the chain is their own and paid for once: the parts above,
\* over types that hold of every file and record.
EffectsAreOwn == TypeOK /\ SettledByOwnOpening /\ PayloadPaysOnce

\* Every command that starts ends.
RunsEnd == \A i \in Runs : Running(i) ~> At(i, "done")
=============================================================================
