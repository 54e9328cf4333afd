---------------------------- MODULE Notarisation ----------------------------
(***************************************************************************)
(* ProverSession and NotarySession together: every attempt of the prover is *)
(* a session of one notary.  The connection that the prover sees is the one *)
(* the notary's tasks hold, so a cut is no longer assumed but is one of the *)
(* notary's timeouts, errors or its end; and a notary's stage goes on only  *)
(* with what the prover's future has come to.                               *)
(*                                                                          *)
(* How far the two halves of MPC-TLS may be apart is tlsn's: a half         *)
(* completes a step only when the other has begun it.                       *)
(***************************************************************************)
EXTENDS ProverSession

CONSTANTS
    PREPROCESS_TIMEOUT, SESSION_TIMEOUT, TOLERANCE,   \* as in NotarySession
    MaxStart                                          \* no connection is accepted later

VARIABLES
    up, now, stage, outcome, leftAt, ndriver, peer, started, connTime, fetched, tAtt, sent, received, log

Attempts == 1..(MaxRetries + 1)

N == INSTANCE NotarySession WITH Sessions <- Attempts, driver <- ndriver

notaryVars ==
    <<up, now, stage, outcome, leftAt, ndriver, peer, started, connTime, fetched, tAtt, sent, received,
      log>>
allVars == <<vars, notaryVars>>

CInit == Init /\ N!Init

-----------------------------------------------------------------------------
(* The connection between them.                                             *)

\* A task of the notary owns the socket of session s.
holds(s) == up /\ (ndriver[s] = "running" \/ (ndriver[s] = "ended" /\ N!running(s)))

\* The prover finds it open as long as that, and while an attestation is on its way.
connection == IF holds(attempts) \/ sent[attempts] = "whole" THEN "open" ELSE "closed"

\* The prover drops what it has of an attempt that is over: its guard aborts the
\* driver and the socket closes.
Hangup == IF Session' THEN UNCHANGED notaryVars ELSE N!PeerLeaves(attempts)

-----------------------------------------------------------------------------
(* The prover's steps.                                                      *)

Open == Connect /\ N!Accept(attempts + 1)

Refused == ConnectFails /\ UNCHANGED notaryVars

\* run_mpc: each await of it needs the notary's part.
Preprocess ==
    /\ FinishPreprocessing /\ stage[attempts] # "commit"
    /\ UNCHANGED notaryVars

Fetch == ContactRegistry /\ UNCHANGED notaryVars

\* The proof of the transcript: the notary has seen the end of the connection.
Commit ==
    /\ FinishMpc /\ stage[attempts] \notin N!preprocessing \cup {"handshake", "run"}
    /\ UNCHANGED notaryVars

Fails == (PreprocessTimeout \/ MpcSeesLoss \/ MpcFails \/ DriverFails) /\ UNCHANGED notaryVars

\* On an open connection the driver ends once both sides have closed the session.
DriverDone ==
    /\ DriverEnds /\ (conn = "open" => stage[attempts] \notin N!mpcTls)
    /\ UNCHANGED notaryVars

Decide ==
    /\ \/ SelectOk \/ SelectFailed \/ SelectDriver
       \/ GraceDriverEnds \/ GraceDriverExpires \/ GraceMpcOver \/ Join
    /\ Hangup

\* The read to the end of the stream gave the attestation, and it is valid.
ReadAttestation == Attested /\ attempts \in received /\ Hangup

\* It gave less, the connection broke on the way, or the attestation is not valid.
ReadFails == NotAttested /\ (conn = "closed" \/ sent[attempts] = "whole") /\ Hangup

-----------------------------------------------------------------------------
(* The notary's steps, and what the prover reads of them.                   *)

\* The prover's handle is closed.
closing(s) == s = attempts /\ phase \in {"join", "exchange"}

NotaryStage(s) ==
    \/ s = attempts /\ mpc \in running /\ N!Commit(s) /\ stage'[s] = "accept"
    \/ s = attempts /\ mpc \in running /\ N!AcceptMpc(s)
    \/ s = attempts /\ mpc = "registry" /\ (N!Handshake(s) \/ N!Run(s))
    \/ s = attempts /\ mpc \in {"registry", "ok"} /\ N!Verify(s)
    \/ N!DriverEnds(s) /\ (peer[s] = "live" => closing(s))
    \/ N!Join(s)
    \/ s = attempts /\ phase = "exchange" /\ N!Attest(s)
    \/ N!Write(s) \/ N!Close(s) \/ N!StageFails(s)

\* What the notary's step means for the connection.
Seen ==
    /\ UNCHANGED <<result, attempts, phase, mpc, preprocessed, driver, contacted, faults>>
    /\ conn' = IF Session THEN connection' ELSE conn

NotaryTimeout(s) == N!Timeouts(s) /\ Seen
NotaryLogs(s) == N!Log(s) /\ Seen
NotaryGoes(s) == NotaryStage(s) /\ Seen
NotaryStops == N!Stop /\ Seen
Clock == N!Tick /\ Seen

\* The prover reads what the notary has sent, also when the notary has gone since.
Reads == phase = "exchange" /\ N!Receive(attempts) /\ Seen

-----------------------------------------------------------------------------
CNext ==
    \/ Open \/ Refused \/ Preprocess \/ Fetch \/ Commit \/ Fails \/ DriverDone
    \/ Decide \/ Reads \/ ReadAttestation \/ ReadFails
    \/ Clock \/ NotaryStops
    \/ \E s \in Attempts : NotaryGoes(s) \/ NotaryTimeout(s) \/ NotaryLogs(s)

CSpec == CInit /\ [][CNext]_allVars

\* When the notary has verified, what is left of run_mpc is the prover's own.
FinishLocally == Commit /\ holds(attempts) /\ stage[attempts] \notin N!mpcTls

\* The fairness of the two parts without the cut that ProverSession assumes: the
\* notary's clock and timers stand for it.  What was sent arrives, or its read fails.
CFairSpec ==
    /\ CSpec
    /\ WF_allVars(Open \/ Refused \/ Decide \/ Reads \/ ReadAttestation \/ ReadFails)
    /\ WF_allVars(DriverDone) /\ WF_allVars(FinishLocally) /\ WF_allVars(Clock)
    /\ \A s \in Attempts :
        WF_allVars(NotaryTimeout(s)) /\ WF_allVars(N!DriverEnds(s) /\ NotaryGoes(s))

-----------------------------------------------------------------------------
(* Properties.                                                              *)

\* The notary is the one that ProverSession assumes, fairness included: it closes
\* every connection that lasts, though its timeouts are its own and start over with
\* every attempt (notarize, notarize_session, notarize_shape).
ImplementsProver == FairSpec

\* The attestation a run ends with is of its last attempt, and the notary has taken
\* no session of an earlier one past the handshake: it never signs for an attempt
\* that is tried again, whichever side saw the end of it first.
AttestedByLastAttempt ==
    /\ result = "notarized" => attempts \in received
    /\ \A s \in 1..(attempts - 1) :
        /\ sent[s] = "none" /\ outcome[s] # "attested"
        /\ stage[s] \notin {"run", "verify", "join"} \cup N!exchange

\* In the end the run has a result, and the notary has no task that works for it and
\* holds none of its connections: the prover leaves no driver behind on the notary's
\* side, not even one that the notary has detached (DriverGuard on both sides).
NothingLeftOpen ==
    <>[](result # "pending" /\ \A s \in Attempts : ~holds(s) /\ (up => ~N!running(s)))
=============================================================================
