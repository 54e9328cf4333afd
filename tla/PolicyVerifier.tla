--------------------------- MODULE PolicyVerifier ---------------------------
(***************************************************************************)
(* The notary's policy-verifier service: serve_verifier of                 *)
(* offchain/crates/pprev-notary/src/bin/pprev-notary.rs and the signing    *)
(* path of register.rs and phases.rs.  Clients submit requests at any      *)
(* time; each handler waits for the one lock on the verifier, checks the   *)
(* request, records its nonce and signs.  A request is checked and signed  *)
(* under one hold of the lock, so only a crash can come between the steps  *)
(* of one request.                                                         *)
(*                                                                         *)
(* A presentation, a proof and a statement are records of what the checks  *)
(* compare.  A Groth16 proof is the statement and the session it was made  *)
(* for.  Decoding and the event log are left out.                          *)
(***************************************************************************)
EXTENDS NonceStore, FiniteSets

CONSTANTS
    Client,
    Request,             \* what a client may submit
    NoRequest,           \* a handler that holds no request
    RegisterPolicies, ApplyPolicies, SettlePolicies,   \* identifiers, by phase
    TauLock,             \* PolicyVerifier::tau_lock: {} or one lock window
    MaxSessionSecs,      \* PolicyVerifier::max_session_secs
    TlsnClockTolerance,  \* TLSN_CLOCK_TOLERANCE
    MaxSubmissions,      \* bound on the requests submitted
    MaxCrashes           \* bound on the times the notary goes down

Statement == {r.x : r \in Request}

ASSUME RequestsAssumption ==
    /\ \A x \in Statement : x.eta \in Nonce
    /\ NoRequest \notin Request
    /\ \A r \in Request : r.presentation.tAtt \in Nat /\ r.presentation.connectionTime \in Nat
    /\ MaxSessionSecs \in Nat /\ TlsnClockTolerance \in Nat
    /\ TauLock \subseteq Nat
    /\ MaxSubmissions \in Nat /\ MaxCrashes \in Nat

VARIABLES
    pc,          \* where the holder of the lock is; "idle": the lock is free
    current,     \* the statement being signed
    waiting,     \* the request each client's handler holds
    issued,      \* the statements signed, in order
    submissions, crashes

serviceVars == <<pc, current, waiting, issued, submissions, crashes>>
vars == <<storeVars, serviceVars>>

running == pc # "down"

\* The statements signed, and their nonces.
Signed == {issued[i] : i \in 1..Len(issued)}
SignedEtas == {x.eta : x \in Signed}

Signer == INSTANCE NotarySigner WITH signed <- Signed

TypeOK ==
    /\ StoreTypeOK
    /\ pc \in {"down", "idle", "record", "sync", "sign"}
    /\ pc \in {"record", "sync", "sign"} => current \in Statement
    /\ waiting \in [Client -> Request \cup {NoRequest}]
    /\ issued \in Seq(Statement)
    /\ submissions \in 0..MaxSubmissions /\ crashes \in 0..MaxCrashes

Init ==
    /\ StoreInit
    /\ pc = "down" /\ current = NoRequest
    /\ waiting = [c \in Client |-> NoRequest]
    /\ issued = <<>>
    /\ submissions = 0 /\ crashes = 0

-----------------------------------------------------------------------------
(* The checks of one request. *)

ensure_unsigned(eta) == ~contains(eta)

\* Mutant of check_times: only a time ahead of the notary's clock is refused.
check_timesAhead(tAtt, connectionTime) == tAtt + TlsnClockTolerance >= connectionTime

check_times(tAtt, connectionTime) ==
    /\ tAtt + TlsnClockTolerance >= connectionTime
    /\ tAtt > connectionTime => tAtt - connectionTime <= MaxSessionSecs

\* The attestation is genuine, of the expected exchange and consistent in time.
check_shape(presentation, subject) ==
    /\ presentation.genuine
    /\ presentation.subject = subject
    /\ check_times(presentation.tAtt, presentation.connectionTime)

verifyProof(r) == r.proof = [x |-> r.x, presentation |-> r.presentation]

\* What the three phases check after their policy, the nonce and the subject.
attested(r) ==
    /\ check_shape(r.presentation, r.subject)
    /\ r.x.tAtt = r.presentation.tAtt
    /\ verifyProof(r)

acceptsRegister(r) ==
    /\ r.x.phase = "R"
    /\ r.x.policyId \in RegisterPolicies
    /\ ensure_unsigned(r.x.eta)
    /\ r.subject = r.x.propertyId
    /\ attested(r)

acceptsApply(r) ==
    /\ r.x.phase = "A"
    /\ r.x.policyId \in ApplyPolicies
    /\ ensure_unsigned(r.x.eta)
    /\ r.subject = ""
    /\ attested(r)

\* engagement_day fails when expiresAt precedes tau_lock.
acceptsSettle(r) ==
    /\ r.x.phase = "S"
    /\ r.x.policyId \in SettlePolicies
    /\ \E tau_lock \in TauLock : r.x.expiresAt >= tau_lock
    /\ ensure_unsigned(r.x.eta)
    /\ r.subject # ""
    /\ attested(r)

accepts(r) == acceptsRegister(r) \/ acceptsApply(r) \/ acceptsSettle(r)

-----------------------------------------------------------------------------
(* Actions. *)

\* main: the record is opened before the service listens.  When open fails the
\* notary does not start.
Start ==
    /\ pc = "down"
    /\ open
    /\ pc' = "idle"
    /\ UNCHANGED <<current, waiting, issued, submissions, crashes>>

\* A client's submission is read; its handler then waits for the lock.
Submit(c, r) ==
    /\ running /\ waiting[c] = NoRequest
    /\ submissions < MaxSubmissions
    /\ waiting' = [waiting EXCEPT ![c] = r]
    /\ submissions' = submissions + 1
    /\ UNCHANGED <<storeVars, pc, current, issued, crashes>>

\* A handler takes the lock; its request passes every check of its phase.
Accept(c) ==
    /\ pc = "idle" /\ waiting[c] # NoRequest
    /\ accepts(waiting[c])
    /\ pc' = "record"
    /\ current' = waiting[c].x
    /\ waiting' = [waiting EXCEPT ![c] = NoRequest]
    /\ UNCHANGED <<storeVars, issued, submissions, crashes>>

Refuse(c) ==
    /\ pc = "idle" /\ waiting[c] # NoRequest
    /\ ~accepts(waiting[c])
    /\ waiting' = [waiting EXCEPT ![c] = NoRequest]
    /\ UNCHANGED <<storeVars, pc, current, issued, submissions, crashes>>

WriteDigit ==
    /\ pc = "record"
    /\ writeDigit(current.eta)
    /\ UNCHANGED serviceVars

WriteNewline ==
    /\ pc = "record"
    /\ writeNewline
    /\ pc' = "sync"
    /\ UNCHANGED <<current, waiting, issued, submissions, crashes>>

\* Mutant of RecordFails: the error ends the service, not the request.
RecordFailsStopping ==
    /\ pc \in {"record", "sync"}
    /\ recordFails
    /\ pc' = "down"
    /\ UNCHANGED <<current, waiting, issued, submissions, crashes>>

\* A write or the sync fails; the client is told so and the lock is released.
RecordFails ==
    /\ pc \in {"record", "sync"}
    /\ recordFails
    /\ pc' = "idle"
    /\ UNCHANGED <<current, waiting, issued, submissions, crashes>>

SyncData ==
    /\ pc = "sync"
    /\ syncData(current.eta)
    /\ pc' = "sign"
    /\ UNCHANGED <<current, waiting, issued, submissions, crashes>>

\* The digest is signed; the reply may or may not reach the client.
Sign ==
    /\ pc = "sign"
    /\ issued' = Append(issued, current)
    /\ pc' = "idle"
    /\ UNCHANGED <<storeVars, current, waiting, submissions, crashes>>

\* The signer returns an error: the nonce is used up without a signature.
SignFails ==
    /\ pc = "sign"
    /\ pc' = "idle"
    /\ UNCHANGED <<storeVars, current, waiting, issued, submissions, crashes>>

\* Requests in hand are lost with the process, whatever step they are at.
GoDown ==
    /\ running
    /\ crashes < MaxCrashes
    /\ crashes' = crashes + 1
    /\ pc' = "down"
    /\ waiting' = [c \in Client |-> NoRequest]
    /\ UNCHANGED <<current, issued, submissions>>

Kill      == kill /\ GoDown
PowerLoss == powerLoss /\ GoDown

Handle == \E c \in Client : Accept(c) \/ Refuse(c)
Finish == WriteDigit \/ WriteNewline \/ RecordFails \/ SyncData \/ Sign \/ SignFails

Next ==
    \/ Start
    \/ \E c \in Client, r \in Request : Submit(c, r)
    \/ \E c \in Client : Accept(c)
    \/ \E c \in Client : Refuse(c)
    \/ WriteDigit \/ WriteNewline \/ RecordFails \/ SyncData
    \/ Sign \/ SignFails
    \/ Kill \/ PowerLoss

Spec == Init /\ [][Next]_vars

\* A spawned handler runs, and a free lock is taken by some waiting handler.
FairSpec == Spec /\ WF_vars(Handle) /\ WF_vars(Finish)

-----------------------------------------------------------------------------
(* Properties. *)

\* The notary signs no two statements with the same nonce, in any phase, over
\* any crashes, failed writes and restarts: nonces.rs, NonceStore::record.
SignedOnce == \A i, j \in 1..Len(issued) : issued[i].eta = issued[j].eta => i = j

Prefixes(s) == {SubSeq(s, 1, j) : j \in 0..Len(s)}

\* Whatever file a restart finds, it refuses the file or reads every nonce that
\* was signed: what makes NonceStore::record write before the signature.
LoadRemembersSigned ==
    \A k \in synced..Len(lines) :
        LET ls  == SubSeq(lines, 1, k)
            cut == IF k = Len(lines) THEN tail ELSE lines[k + 1]
        IN \A t \in Prefixes(cut) :
             wellFormed(ls, t) => SignedEtas \subseteq LinesOf(ls, t)

\* Some request proves x for a genuine session that began no more than the tolerance
\* after x's time and no longer than a session lasts before it.
Supported(x) ==
    \E r \in Request :
        /\ r.x = x /\ r.proof.x = x
        /\ r.presentation.genuine
        /\ LET began == r.proof.presentation.connectionTime
           IN x.tAtt \in 0..(began + MaxSessionSecs) /\ began \in 0..(x.tAtt + TlsnClockTolerance)

\* A statement is signed with a time no further from a genuine session on its
\* subject than D29 allows: what binds the contract's freshness window to the
\* moment the source was read (check_shape, and tAtt in every sign_* function).
SignedTimeSupported == \A i \in 1..Len(issued) : Supported(issued[i])

\* serve_verifier: every submission leaves the wait for the lock, because
\* every path through the signing code gives it back.
Answered == \A c \in Client : waiting[c] # NoRequest ~> waiting[c] = NoRequest

\* The policy verifier implements the signer the contract relies on.
ImplementsSigner == Signer!Spec

\* nonces.rs: "an append-only file with one nonce per line as 64 hex digits,
\* loaded at start".  When record has returned, the file is one open accepts.
RecordedIsLoadable == pc = "sign" => wellFormed(lines, tail)

(* The inductive invariant behind SignedOnce. *)

\* The last w digits of line are the first w digits of eta.
EndsWith(line, eta, w) ==
    /\ Len(line) >= w
    /\ \A j \in 1..w : line[Len(line) - w + j] = eta[j]

\* Line m of the file ends with the whole of eta: alone on the line, or after
\* digits that an interrupted record left there, which open refuses.
OnLine(eta, m) == EndsWith(lines[m], eta, NONCE_DIGITS)

\* Every signed nonce is on a line that no power loss can take away.
SignedOnDisk == \A i \in 1..Len(issued) : \E m \in 1..synced : OnLine(issued[i].eta, m)

\* The running notary remembers every signed nonce.
SignedInMemory == running => SignedEtas \subseteq seen

\* How far the record of the current nonce has come.
RecordProgress ==
    /\ pc \in {"down", "idle", "sign"} => written = 0
    /\ pc = "record" => EndsWith(tail, current.eta, written)
    /\ pc = "sync" => Len(lines) > 0 /\ OnLine(current.eta, Len(lines))
    /\ pc = "sign" => /\ current.eta \in seen
                      /\ \E m \in 1..synced : OnLine(current.eta, m)

CurrentUnsigned == pc \in {"record", "sync", "sign"} => current.eta \notin SignedEtas

IInv ==
    TypeOK /\ SignedOnce /\ SignedOnDisk /\ SignedInMemory /\ RecordProgress /\ CurrentUnsigned
=============================================================================
