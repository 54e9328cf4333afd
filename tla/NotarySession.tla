---------------------------- MODULE NotarySession ----------------------------
(***************************************************************************)
(* The notary's half of MPC-TLS sessions: serve_mpc of                      *)
(* pprev-notary/src/bin/pprev-notary.rs, and notarize with its two timeouts *)
(* in pprev-notary/src/session.rs.                                          *)
(*                                                                          *)
(* A session is a task that goes through stages, each an await on the       *)
(* prover at the other end, who may go on, stall for ever or leave.  A      *)
(* second task, the driver, owns the socket until the session joins it; a   *)
(* guard aborts the driver when the session is dropped before that.  Time   *)
(* is the notary's clock.  Timers fire at their deadline, before the clock  *)
(* goes on; what is ready at the deadline may still win.                    *)
(***************************************************************************)
EXTENDS Integers

CONSTANTS
    Sessions,            \* connections accepted
    PREPROCESS_TIMEOUT,  \* config.preprocess_timeout
    SESSION_TIMEOUT,     \* config.session_timeout
    TOLERANCE,           \* TLSN_CLOCK_TOLERANCE
    MaxStart             \* no connection is accepted later

ASSUME TimeoutsAssumption ==
    PREPROCESS_TIMEOUT \in Nat /\ SESSION_TIMEOUT \in Nat /\ TOLERANCE \in Nat /\ MaxStart \in Nat

VARIABLES
    up,         \* the process runs
    now,        \* the notary's clock
    stage,      \* where the session's task is
    outcome,    \* how notarize returned
    leftAt,     \* the stage it returned from, those of MPC-TLS taken as one
    driver,     \* the driver task
    peer,       \* what the prover does
    started,    \* when the connection was accepted
    connTime,   \* ConnectionInfo.time, the prover's clock at the handshake
    fetched,    \* when the registry's response was in the transcript
    tAtt,       \* t_att
    sent,       \* how much of the attestation the socket has taken
    received,   \* sessions whose prover has read the whole attestation
    log         \* the event log: the outcome written for a session

vars ==
    <<up, now, stage, outcome, leftAt, driver, peer, started, connTime, fetched, tAtt, sent, received, log>>
times == <<started, connTime, fetched, tAtt>>
ending == <<outcome, leftAt>>
wire == <<sent, received>>

preprocessing == {"commit", "accept", "reject"}
mpcTls == preprocessing \cup {"handshake", "run", "verify"}
exchange == {"read", "write", "close"}
running(s) == stage[s] \in mpcTls \cup {"join"} \cup exchange
over(s) == stage[s] \in {"returned", "logged"}

Init ==
    /\ up = TRUE /\ now = 0
    /\ stage = [s \in Sessions |-> "idle"]
    /\ outcome = [s \in Sessions |-> "none"] /\ leftAt = [s \in Sessions |-> "none"]
    /\ driver = [s \in Sessions |-> "none"]
    /\ peer = [s \in Sessions |-> "live"]
    /\ started = [s \in Sessions |-> 0] /\ connTime = [s \in Sessions |-> 0]
    /\ fetched = [s \in Sessions |-> 0] /\ tAtt = [s \in Sessions |-> 0]
    /\ sent = [s \in Sessions |-> "none"] /\ received = {}
    /\ log = [s \in Sessions |-> "none"]

-----------------------------------------------------------------------------
(* Returning from notarize.                                                 *)

\* Mutant of dropDriver: the driver has no guard.
leaveDriver(s) == UNCHANGED driver

\* The guard aborts the driver, unless join has taken the handle out of it.
dropDriver(s) ==
    driver' = IF driver[s] = "running" /\ stage[s] # "join"
              THEN [driver EXCEPT ![s] = "aborted"] ELSE driver

Return(s, as) ==
    /\ stage' = [stage EXCEPT ![s] = "returned"]
    /\ outcome' = [outcome EXCEPT ![s] = as]
    /\ leftAt' = [leftAt EXCEPT ![s] = IF stage[s] \in mpcTls THEN "mpc" ELSE stage[s]]
    /\ dropDriver(s)

-----------------------------------------------------------------------------
(* serve_mpc.                                                               *)

Accept(s) ==
    /\ up /\ stage[s] = "idle" /\ now <= MaxStart
    /\ stage' = [stage EXCEPT ![s] = "commit"]
    /\ driver' = [driver EXCEPT ![s] = "running"]
    /\ started' = [started EXCEPT ![s] = now]
    /\ UNCHANGED <<up, now, ending, peer, connTime, fetched, tAtt, wire, log>>

\* One event for a session, when notarize has returned.
Log(s) ==
    /\ up /\ stage[s] = "returned"
    /\ stage' = [stage EXCEPT ![s] = "logged"]
    /\ log' = [log EXCEPT ![s] = outcome[s]]
    /\ UNCHANGED <<up, now, ending, driver, peer, times, wire>>

\* The process is stopped and takes its tasks with it.
Stop ==
    /\ up
    /\ up' = FALSE
    /\ driver' = [s \in Sessions |-> IF driver[s] = "running" THEN "aborted" ELSE driver[s]]
    /\ UNCHANGED <<now, stage, ending, peer, times, wire, log>>

-----------------------------------------------------------------------------
(* notarize_session, stage by stage.                                        *)

\* What a stage awaits: the prover's part, through the driver.
answers(s) == up /\ peer[s] = "live" /\ driver[s] = "running"

Go(s, from, to) ==
    /\ stage[s] = from
    /\ stage' = [stage EXCEPT ![s] = to]

\* commit: the prover asks for MPC-TLS or for the proxy.
Commit(s) ==
    /\ answers(s)
    /\ Go(s, "commit", "accept") \/ Go(s, "commit", "reject")
    /\ UNCHANGED <<up, now, ending, driver, peer, times, wire, log>>

AcceptMpc(s) ==
    /\ answers(s) /\ Go(s, "accept", "handshake")
    /\ UNCHANGED <<up, now, ending, driver, peer, times, wire, log>>

Reject(s) ==
    /\ answers(s) /\ stage[s] = "reject"
    /\ Return(s, "failed")
    /\ UNCHANGED <<up, now, peer, times, wire, log>>

\* tlsn takes the prover's time only near its own.
Handshake(s) ==
    /\ answers(s) /\ Go(s, "handshake", "run")
    /\ \E t \in (now - TOLERANCE)..(now + TOLERANCE) : connTime' = [connTime EXCEPT ![s] = t]
    /\ UNCHANGED <<up, now, ending, driver, peer, started, fetched, tAtt, wire, log>>

\* run: until the TLS connection to the registry is closed.
Run(s) ==
    /\ answers(s) /\ Go(s, "run", "verify")
    /\ fetched' = [fetched EXCEPT ![s] = now]
    /\ UNCHANGED <<up, now, ending, driver, peer, started, connTime, tAtt, wire, log>>

\* verify, accept and close, then the handle is closed.
Verify(s) ==
    /\ answers(s) /\ Go(s, "verify", "join")
    /\ UNCHANGED <<up, now, ending, driver, peer, times, wire, log>>

\* The driver ends when the prover closes its side too, and gives the socket back.
DriverEnds(s) ==
    /\ up /\ driver[s] = "running" /\ peer[s] # "stalled"
    /\ peer[s] = "live" => stage[s] = "join" \/ over(s)
    /\ driver' = [driver EXCEPT ![s] = IF peer[s] = "live" THEN "ended" ELSE "failed"]
    /\ UNCHANGED <<up, now, stage, ending, peer, times, wire, log>>

Join(s) ==
    /\ up /\ driver[s] = "ended" /\ Go(s, "join", "read")
    /\ UNCHANGED <<up, now, ending, driver, peer, times, wire, log>>

\* Mutant of Attest: t_att is the time the session began.
AttestAtStart(s) ==
    /\ up /\ Go(s, "read", "write")
    /\ tAtt' = [tAtt EXCEPT ![s] = started[s]]
    /\ UNCHANGED <<up, now, ending, driver, peer, started, connTime, fetched, wire, log>>

\* The request is read to its end, also when the prover has stalled or left since it
\* sent it; from there to the signature nothing is awaited.
Attest(s) ==
    /\ up /\ Go(s, "read", "write")
    /\ tAtt' = [tAtt EXCEPT ![s] = now]
    /\ UNCHANGED <<up, now, ending, driver, peer, started, connTime, fetched, wire, log>>

\* Mutant of Write: write in place of write_all.
WriteOnce(s) ==
    /\ up /\ Go(s, "write", "close")
    /\ \E taken \in {"part", "whole"} : sent' = [sent EXCEPT ![s] = taken]
    /\ UNCHANGED <<up, now, ending, driver, peer, times, received, log>>

\* write_all ends when the socket has taken all of it, whatever has become of the
\* prover; until then the socket may be full.
Write(s) ==
    /\ up /\ stage[s] = "write"
    /\ \/ /\ sent[s] = "none"
          /\ sent' = [sent EXCEPT ![s] = "part"]
          /\ stage' = stage
       \/ /\ sent' = [sent EXCEPT ![s] = "whole"]
          /\ Go(s, "write", "close")
    /\ UNCHANGED <<up, now, ending, driver, peer, times, received, log>>

\* Shutting down the socket's sending side does not wait for the prover either.
Close(s) ==
    /\ up /\ stage[s] = "close"
    /\ Return(s, "attested")
    /\ UNCHANGED <<up, now, peer, times, wire, log>>

\* A stage returns an error: the prover left, its part was refused, the driver
\* failed, the request cannot be read or asks for another version.
StageFails(s) ==
    /\ up /\ running(s)
    /\ peer[s] # "stalled" \/ driver[s] = "failed"
    /\ stage[s] = "join" => driver[s] = "failed"
    /\ Return(s, "failed")
    /\ UNCHANGED <<up, now, peer, times, wire, log>>

-----------------------------------------------------------------------------
(* The two timeouts.                                                        *)

elapsed(s) == now - started[s]

PreprocessTimeout(s) ==
    /\ up /\ stage[s] \in preprocessing /\ elapsed(s) >= PREPROCESS_TIMEOUT
    /\ Return(s, "cut")
    /\ UNCHANGED <<up, now, peer, times, wire, log>>

\* Mutant of SessionTimeout: it bounds MPC-TLS and not the exchange after it.
SessionTimeoutOfMpc(s) ==
    /\ up /\ stage[s] \in mpcTls /\ elapsed(s) >= SESSION_TIMEOUT
    /\ Return(s, "cut")
    /\ UNCHANGED <<up, now, peer, times, wire, log>>

SessionTimeout(s) ==
    /\ up /\ running(s) /\ elapsed(s) >= SESSION_TIMEOUT
    /\ Return(s, "cut")
    /\ UNCHANGED <<up, now, peer, times, wire, log>>

\* No timer is due.
Tick ==
    /\ now < MaxStart + SESSION_TIMEOUT
    /\ \A s \in Sessions : up =>
        /\ stage[s] \in preprocessing => elapsed(s) < PREPROCESS_TIMEOUT
        /\ running(s) => elapsed(s) < SESSION_TIMEOUT
    /\ now' = now + 1
    /\ UNCHANGED <<up, stage, ending, driver, peer, times, wire, log>>

-----------------------------------------------------------------------------
(* The prover.                                                              *)

PeerStalls(s) ==
    /\ peer[s] = "live" /\ stage[s] # "idle"
    /\ peer' = [peer EXCEPT ![s] = "stalled"]
    /\ UNCHANGED <<up, now, stage, ending, driver, times, wire, log>>

PeerLeaves(s) ==
    /\ peer[s] = "live" /\ stage[s] # "idle"
    /\ peer' = [peer EXCEPT ![s] = "gone"]
    /\ UNCHANGED <<up, now, stage, ending, driver, times, wire, log>>

\* The prover reads to the end of the stream: the end follows the attestation when
\* the notary closes the socket or drops it.
Receive(s) ==
    /\ peer[s] = "live" /\ sent[s] = "whole" /\ s \notin received
    /\ up => stage[s] # "close"
    /\ received' = received \cup {s}
    /\ UNCHANGED <<up, now, stage, ending, driver, peer, times, sent, log>>

Timeouts(s) == PreprocessTimeout(s) \/ SessionTimeout(s)

Stages(s) ==
    \/ Commit(s) \/ AcceptMpc(s) \/ Reject(s) \/ Handshake(s) \/ Run(s) \/ Verify(s)
    \/ DriverEnds(s) \/ Join(s) \/ Attest(s) \/ Write(s) \/ Close(s) \/ StageFails(s)

Next ==
    \/ Tick \/ Stop
    \/ \E s \in Sessions :
        \/ Accept(s) \/ Stages(s) \/ Timeouts(s) \/ Log(s)
        \/ PeerStalls(s) \/ PeerLeaves(s) \/ Receive(s)

Spec == Init /\ [][Next]_vars

\* The clock goes on, timers fire, and tasks that can go on are scheduled: the
\* session's when it has returned, the driver's when the prover closes or leaves.
\* Nothing is assumed of the prover.
FairSpec ==
    /\ Spec /\ WF_vars(Tick)
    /\ \A s \in Sessions :
        WF_vars(Timeouts(s)) /\ WF_vars(Log(s)) /\ WF_vars(DriverEnds(s))

-----------------------------------------------------------------------------
(* Properties.                                                              *)

\* Stages, tasks and times of a session; the clock does not pass a deadline, so
\* a session that runs is within its bounds (notarize, notarize_session).
TypeOK ==
    /\ up \in BOOLEAN /\ now \in Nat
    /\ stage \in [Sessions -> {"idle", "join", "returned", "logged"} \cup mpcTls \cup exchange]
    /\ outcome \in [Sessions -> {"none", "attested", "cut", "failed"}]
    /\ leftAt \in [Sessions -> {"none", "mpc", "join"} \cup exchange]
    /\ driver \in [Sessions -> {"none", "running", "ended", "failed", "aborted"}]
    /\ peer \in [Sessions -> {"live", "stalled", "gone"}]
    /\ started \in [Sessions -> Nat] /\ fetched \in [Sessions -> Nat] /\ tAtt \in [Sessions -> Nat]
    /\ connTime \in [Sessions -> Int]
    /\ sent \in [Sessions -> {"none", "part", "whole"}] /\ received \subseteq Sessions
    /\ log \in [Sessions -> {"none", "attested", "cut", "failed"}]

signed(s) == stage[s] \in {"write", "close"} \/ outcome[s] = "attested" \/ sent[s] # "none"

\* An attestation's time is the notary's, not before the response it attests was
\* there, and within the bounds check_times uses: not further behind the
\* connection's time than the tolerance, nor further after it than the longest
\* session and the tolerance (notarize_session, t_att; check_times).
AttestedInTime ==
    \A s \in Sessions : signed(s) =>
        /\ fetched[s] <= tAtt[s]
        /\ tAtt[s] <= started[s] + SESSION_TIMEOUT
        /\ tAtt[s] + TOLERANCE >= connTime[s]
        /\ tAtt[s] - connTime[s] <= SESSION_TIMEOUT + TOLERANCE

\* What the log says of the attestation.  A session logged as attested has handed
\* all of it to the socket, though its prover may have stalled or left and never
\* reads it; a write that failed or was cut half-way is not logged so.  And a prover
\* that has an attestation finds its session logged as attested, unless the session
\* was cut or failed while it closed the socket (serve_mpc; notarize_session,
\* write_all and close before the report).
LogTellsWhatWasSent ==
    \A s \in Sessions :
        /\ log[s] = "attested" => sent[s] = "whole"
        /\ s \in received => log[s] \in {"none", "attested"} \/ leftAt[s] = "close"

\* A session that returned leaves no driver running, but for one that was cut
\* while it joined the driver: not one that was cut before, nor one that failed in
\* any stage, the join included (DriverGuard).
OnlyTheJoinLeavesADriver ==
    \A s \in Sessions : (over(s) /\ driver[s] = "running") =>
        outcome[s] = "cut" /\ leftAt[s] = "join"

\* Every connection accepted is logged with an outcome, whatever its prover does,
\* unless the process is stopped.
SessionsEnd == \A s \in Sessions : (stage[s] # "idle") ~> (log[s] # "none" \/ ~up)
=============================================================================
