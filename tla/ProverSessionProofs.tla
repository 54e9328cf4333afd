------------------------ MODULE ProverSessionProofs ------------------------
(***************************************************************************)
(* Proofs about one notarisation of the prover, for every number of        *)
(* retries: the registry is reached by one attempt at most, a final        *)
(* failure is not retried and a cut before preprocessing is.  The second   *)
(* half is about Notarisation: with the notary's sessions in the place of  *)
(* the assumed cuts the prover is the same prover, and no attempt that is  *)
(* tried again has come past the notary's handshake.                       *)
(***************************************************************************)
EXTENDS Notarisation, TLAPS

LEMMA RetriesNat == MaxRetries \in Nat
BY RetriesAssumption

LEMMA InitSInv == Init => SInv
<1> SUFFICES ASSUME Init PROVE SInv
  OBVIOUS
<1>1. attempts \in 0..(MaxRetries + 1) /\ attempts <= MaxRetries
  BY RetriesNat DEF Init
<1>2. TypeOK
  BY <1>1 DEF Init, TypeOK, running
<1> QED BY <1>1, <1>2 DEF Init, SInv

\* An attempt that stalls has not set the flag, so that it may be retried.
LEMMA StallOrEnd ==
    ASSUME SInv, Session, NEW v \in {"stall", "final", "ok"}, EndAttempt(v),
           v = "stall" => ~preprocessed
    PROVE  SInv'
<1>1. UNCHANGED <<attempts, mpc, preprocessed, driver, conn, faults, contacted>>
  BY DEF EndAttempt, attemptVars
<1>2. phase' \in {"connect", "done"} /\ result' \in {"pending", "notarized", "gaveUp", "failed"}
  BY DEF EndAttempt, exhausted, SInv, TypeOK
<1>3. phase' = "connect" => v = "stall" /\ result' = result /\ attempts <= MaxRetries
  <2>1. ~exhausted => attempts <= MaxRetries
    BY RetriesNat DEF exhausted, SInv, TypeOK
  <2>2. phase' = "connect" => v = "stall" /\ result' = result /\ ~exhausted
    BY DEF EndAttempt
  <2> QED BY <2>1, <2>2
<1>4. TypeOK'
  BY <1>1, <1>2 DEF SInv, TypeOK
<1>5. phase' = "connect" => result' = "pending" /\ contacted' = {}
  BY <1>1, <1>3 DEF SInv, Session
<1> QED BY <1>1, <1>2, <1>3, <1>4, <1>5 DEF SInv

\* A step of notarize_shape to a next phase.
LEMMA ToKeepsSInv ==
    ASSUME SInv, Session, NEW next \in {"join", "exchange", "graceDriver", "graceMpc"}, To(next),
           next = "graceDriver" => mpc = "lossy" /\ ~preprocessed,
           next = "graceMpc" => driver # "running"
    PROVE  SInv'
BY DEF SInv, TypeOK, Session, To, attemptVars

LEMMA DecideVerdict ==
    ASSUME NEW failed \in {"closure", "lossy", "final", "none"},
           NEW ended \in {"clean", "closure", "failed", "none"}
    PROVE  decide(failed, ended) \in {"stall", "final"}
BY DEF decide, closure

LEMMA AfterDriverVerdict ==
    ASSUME SInv, driver # "running"
    PROVE  /\ after_driver_end(mpc, driver) \in {"stall", "final"}
           /\ preprocessed => after_driver_end(mpc, driver) = "final"
BY DEF after_driver_end, decide, closure, SInv, TypeOK, running, Errors

\* The steps of the connection, the notary, the driver and the future.
LEMMA RunsKeepSInv ==
    ASSUME SInv,
           \/ Connect \/ ConnectFails \/ NotaryCuts \/ DriverEnds \/ DriverFails
           \/ FinishPreprocessing \/ ContactRegistry \/ FinishMpc
           \/ PreprocessTimeout \/ MpcSeesLoss \/ MpcFails
    PROVE  SInv'
<1>1. CASE Connect
  <2>1. attempts' \in 0..(MaxRetries + 1)
    BY <1>1, RetriesNat DEF SInv, TypeOK, Connect
  <2>2. TypeOK'
    BY <1>1, <2>1 DEF SInv, TypeOK, Connect, running
  <2> QED BY <1>1, <2>2 DEF SInv, Connect
<1>2. CASE ConnectFails
  BY <1>2, RetriesNat DEF SInv, TypeOK, ConnectFails, attemptVars, running, Errors
<1>3. CASE NotaryCuts
  BY <1>3 DEF SInv, TypeOK, NotaryCuts, Session, running, Errors
<1>4. CASE DriverEnds
  BY <1>4 DEF SInv, TypeOK, DriverEnds, Session, running, Errors
<1>5. CASE DriverFails
  BY <1>5 DEF SInv, TypeOK, DriverFails, Session, running, Errors
<1>6. CASE FinishPreprocessing
  BY <1>6 DEF SInv, TypeOK, FinishPreprocessing, Polled, running, Errors
<1>7. CASE ContactRegistry
  BY <1>7 DEF SInv, TypeOK, ContactRegistry, Polled, running, Errors
<1>8. CASE FinishMpc
  BY <1>8 DEF SInv, TypeOK, FinishMpc, Polled, running, Errors
<1>9. CASE PreprocessTimeout
  BY <1>9 DEF SInv, TypeOK, PreprocessTimeout, Polled, running, Errors
<1>10. CASE MpcSeesLoss
  BY <1>10 DEF SInv, TypeOK, MpcSeesLoss, Polled, running, Errors
<1>11. CASE MpcFails
  BY <1>11 DEF SInv, TypeOK, MpcFails, Polled, running, Errors
<1> QED BY <1>1, <1>2, <1>3, <1>4, <1>5, <1>6, <1>7, <1>8, <1>9, <1>10, <1>11

\* A step of notarize_shape goes on to a next phase, or ends the attempt with a
\* verdict; a stall only where the flag is not set.
Goes ==
    \E next \in {"join", "exchange", "graceDriver", "graceMpc"} :
        /\ To(next)
        /\ next = "graceDriver" => mpc = "lossy" /\ ~preprocessed
        /\ next = "graceMpc" => driver # "running"
Ends ==
    \E v \in {"stall", "final", "ok"} :
        /\ EndAttempt(v)
        /\ v = "stall" => ~preprocessed
        /\ v = "ok" => Attested

LEMMA DecisionKind ==
    ASSUME SInv, Decisions
    PROVE  Session /\ (Goes \/ Ends)
<1>1. CASE SelectOk
  BY <1>1 DEF SelectOk, Session, Goes
<1>2. CASE SelectFailed
  <2>1. Session
    BY <1>2 DEF SelectFailed, Session
  <2>2. CASE mpc = "stalled" /\ EndAttempt("stall")
    BY <2>1, <2>2 DEF SInv, Ends
  <2>3. CASE mpc # "stalled" /\ preprocessed /\ EndAttempt("final")
    BY <2>1, <2>3 DEF Ends
  <2>4. CASE mpc \in {"final", "closure"} /\ ~preprocessed /\ EndAttempt(decide(mpc, "none"))
    BY <2>1, <2>4, DecideVerdict DEF Ends
  <2>5. CASE mpc = "lossy" /\ ~preprocessed /\ To("graceDriver")
    BY <2>1, <2>5 DEF Goes
  <2> QED BY <1>2, <2>2, <2>3, <2>4, <2>5 DEF SelectFailed
<1>3. CASE SelectDriver
  <2>1. Session /\ driver # "running"
    BY <1>3 DEF SelectDriver, Session
  <2>2. CASE preprocessed /\ EndAttempt("final")
    BY <2>1, <2>2 DEF Ends
  <2>3. CASE To("graceMpc")
    BY <2>1, <2>3 DEF Goes
  <2> QED BY <1>3, <2>2, <2>3 DEF SelectDriver
<1>4. CASE GraceDriverEnds
  <2>1. /\ Session /\ ~preprocessed
        /\ driver \in {"clean", "closure", "failed"}
        /\ EndAttempt(decide("lossy", driver))
    BY <1>4 DEF GraceDriverEnds, Session, SInv, TypeOK
  <2> QED BY <2>1, DecideVerdict DEF Ends
<1>5. CASE GraceDriverExpires
  <2>1. Session /\ ~preprocessed /\ EndAttempt(decide("lossy", "none"))
    BY <1>5 DEF GraceDriverExpires, Session, SInv
  <2> QED BY <2>1, DecideVerdict DEF Ends
<1>6. CASE GraceMpcOver
  <2>1. Session /\ driver # "running" /\ EndAttempt(after_driver_end(mpc, driver))
    BY <1>6 DEF GraceMpcOver, Session, SInv
  <2> QED BY <2>1, AfterDriverVerdict DEF Ends
<1>7. CASE Join
  BY <1>7 DEF Join, Session, Goes, Ends
<1>8. CASE Attested
  BY <1>8 DEF Attested, Session, Ends
<1>9. CASE NotAttested
  BY <1>9 DEF NotAttested, Session, Ends
<1> QED BY <1>1, <1>2, <1>3, <1>4, <1>5, <1>6, <1>7, <1>8, <1>9 DEF Decisions

\* The steps of notarize_shape.
LEMMA DecisionsKeepSInv ==
    ASSUME SInv, Decisions
    PROVE  SInv'
<1>1. Session /\ (Goes \/ Ends)
  BY DecisionKind
<1>2. CASE Goes
  BY <1>1, <1>2, ToKeepsSInv DEF Goes
<1>3. CASE Ends
  BY <1>1, <1>3, StallOrEnd DEF Ends
<1> QED BY <1>1, <1>2, <1>3

LEMMA NextSInv == SInv /\ [Next]_vars => SInv'
<1> SUFFICES ASSUME SInv, [Next]_vars PROVE SInv'
  OBVIOUS
<1>1. CASE Next
  BY <1>1, RunsKeepSInv, DecisionsKeepSInv DEF Next, Decisions
<1>2. CASE UNCHANGED vars
  BY <1>2 DEF vars, SInv, TypeOK
<1> QED BY <1>1, <1>2

\* The flag, the future and the attempt that reached the registry agree throughout
\* (notarize_shape and with_retries).
THEOREM Invariance == Spec => []SInv
BY InitSInv, NextSInv, PTL DEF Spec

\* The state of a notarisation keeps its type: in particular with_retries never
\* makes more than MaxRetries + 1 attempts.
THEOREM TypeCorrect == Spec => []TypeOK
<1>1. SInv => TypeOK
  BY DEF SInv
<1> QED BY <1>1, Invariance, PTL

\* The attempt that reaches the registry is the last, whatever the number of
\* retries and however the flag, the driver's end and the grace periods race.
THEOREM RegistryReachedByOneAttempt == Spec => []RegistryReachedOnce
<1>1. SInv => RegistryReachedOnce
  BY DEF SInv, RegistryReachedOnce
<1> QED BY <1>1, Invariance, PTL

\* Nothing final is retried: no final failure of the prover, and no failed driver
\* that the session has looked at.
THEOREM FinalFailureEnds == Spec => FinalStaysFinal
<1>1. ASSUME SInv, Next, Retries PROVE mpc # "final"
  <2> SUFFICES ASSUME mpc = "final" PROVE FALSE
    OBVIOUS
  <2> USE <1>1
  <2>1. SelectFailed \/ GraceDriverEnds \/ GraceDriverExpires \/ GraceMpcOver
    BY DEF Next, Retries, Connect, ConnectFails, NotaryCuts, DriverEnds, DriverFails,
           FinishPreprocessing, ContactRegistry, FinishMpc, PreprocessTimeout, MpcSeesLoss,
           MpcFails, SelectOk, SelectDriver, Join, Attested, NotAttested, EndAttempt, To,
           exhausted
  <2>2. ~SelectFailed
    BY DEF Retries, SelectFailed, EndAttempt, To, decide, closure
  <2>3. phase # "graceDriver"
    BY DEF SInv
  <2>4. ~GraceMpcOver
    BY DEF SInv, TypeOK, Retries, GraceMpcOver, EndAttempt, after_driver_end, decide, closure,
           running
  <2> QED BY <2>1, <2>2, <2>3, <2>4 DEF GraceDriverEnds, GraceDriverExpires
<1>2. ASSUME SInv, Next, Retries, driver = "failed"
      PROVE  phase = "select" /\ mpc \in {"stalled", "closure"}
  <2> SUFFICES ASSUME ~(phase = "select" /\ mpc \in {"stalled", "closure"}) PROVE FALSE
    OBVIOUS
  <2> USE <1>2
  <2>1. SelectFailed \/ GraceDriverEnds \/ GraceDriverExpires \/ GraceMpcOver
    BY DEF Next, Retries, Connect, ConnectFails, NotaryCuts, DriverEnds, DriverFails,
           FinishPreprocessing, ContactRegistry, FinishMpc, PreprocessTimeout, MpcSeesLoss,
           MpcFails, SelectOk, SelectDriver, Join, Attested, NotAttested, EndAttempt, To,
           exhausted
  <2>2. ~SelectFailed
    BY DEF Retries, SelectFailed, EndAttempt, To, decide, closure
  <2>3. ~GraceDriverEnds
    BY DEF Retries, GraceDriverEnds, EndAttempt, decide, closure
  <2>4. ~GraceMpcOver
    BY DEF SInv, TypeOK, Retries, GraceMpcOver, EndAttempt, after_driver_end, decide, closure,
           Errors, running
  <2> QED BY <2>1, <2>2, <2>3, <2>4 DEF GraceDriverExpires
<1>3. SInv /\ [Next]_vars =>
      [Retries => /\ mpc # "final"
                  /\ driver = "failed" => phase = "select" /\ mpc \in {"stalled", "closure"}]_vars
  BY <1>1, <1>2
<1> QED BY <1>3, Invariance, PTL DEF Spec, FinalStaysFinal

\* When a closed connection ends the driver within CUT_GRACE, a cut before
\* preprocessing alone never fails the run: it is retried, or the retries are
\* used up.
THEOREM CutAloneIsRetried == ASSUME PromptDriver PROVE Spec => CutIsRetried
<1>1. SInv /\ [Next]_vars => [~FailsUnprovoked]_vars
  <2> SUFFICES ASSUME SInv, Next, FailsUnprovoked PROVE FALSE
    BY DEF vars
  <2>0. driver # "failed" /\ mpc # "final" /\ (mpc = "lossy" => conn = "closed")
    BY DEF SInv, FailsUnprovoked
  <2>1. mpc # "ok" /\ result = "pending" /\ driver \in {"running", "clean", "closure"}
    BY <2>0 DEF SInv, TypeOK, FailsUnprovoked
  <2>2. SelectFailed \/ GraceDriverEnds \/ GraceDriverExpires \/ GraceMpcOver
    BY <2>1 DEF Next, FailsUnprovoked, Connect, ConnectFails, NotaryCuts, DriverEnds,
           DriverFails, FinishPreprocessing, ContactRegistry, FinishMpc, PreprocessTimeout,
           MpcSeesLoss, MpcFails, SelectOk, SelectDriver, Join, Attested, NotAttested, To
  <2>3. ~SelectFailed
    BY <2>0, <2>1 DEF FailsUnprovoked, SelectFailed, Errors, EndAttempt, To, decide, closure
  <2>4. ~GraceDriverEnds
    BY <2>0, <2>1 DEF FailsUnprovoked, GraceDriverEnds, EndAttempt, decide, closure
  <2>5. ~GraceDriverExpires
    BY <2>0 DEF SInv, GraceDriverExpires
  <2>6. ~GraceMpcOver
    BY <2>0, <2>1 DEF SInv, TypeOK, FailsUnprovoked, GraceMpcOver, EndAttempt,
           after_driver_end, decide, closure, Errors, running
  <2> QED BY <2>2, <2>3, <2>4, <2>5, <2>6
<1> QED BY <1>1, Invariance, PTL DEF Spec, CutIsRetried

-----------------------------------------------------------------------------
(* The prover and the notary together. *)

\* What the notary's variables are.
NotaryTypeOK ==
    /\ up \in BOOLEAN
    /\ stage \in [Attempts -> {"idle", "join", "returned", "logged"} \cup N!mpcTls \cup N!exchange]
    /\ outcome \in [Attempts -> {"none", "attested", "cut", "failed"}]
    /\ ndriver \in [Attempts -> {"none", "running", "ended", "failed", "aborted"}]
    /\ sent \in [Attempts -> {"none", "part", "whole"}] /\ received \subseteq Attempts

\* The exchange is on the socket that the driver gave back; a session that was
\* not accepted has nothing.
NotaryOrder ==
    \A s \in Attempts :
        /\ stage[s] \in N!exchange => ndriver[s] = "ended"
        /\ stage[s] = "idle" => outcome[s] = "none" /\ ndriver[s] = "none" /\ sent[s] = "none"

\* The notary has not come past the handshake with session s, and never did.
late == {"run", "verify", "join"} \cup N!exchange
Early(s) == sent[s] = "none" /\ outcome[s] # "attested" /\ stage[s] \notin late

\* Nothing of session s is open, nor will be.
Dead(s) == ~holds(s) /\ sent[s] # "whole"

NotaryInv == NotaryTypeOK /\ NotaryOrder

\* The prover sees the connection as it is; it retries only what the notary is early
\* with; and later attempts have not begun.
CInv ==
    /\ SInv /\ NotaryInv
    /\ Session => attempts >= 1 /\ conn = connection
    /\ phase = "connect" => ~preprocessed
    /\ \A s \in Attempts : s > attempts => stage[s] = "idle"
    /\ \A s \in Attempts : s = attempts /\ phase # "done" /\ ~preprocessed => Early(s)
    /\ \A s \in Attempts : s < attempts => Early(s)
    /\ result = "notarized" => attempts \in received

\* A step of the notary on session s: all other sessions are left alone, an early
\* session whose prover has not asked the registry stays early, a dead one dead.
OnSession(s) ==
    /\ up' = up
    /\ \A u \in Attempts : u # s =>
        /\ stage'[u] = stage[u] /\ outcome'[u] = outcome[u] /\ ndriver'[u] = ndriver[u]
        /\ sent'[u] = sent[u] /\ (u \in received' <=> u \in received)
    /\ stage[s] # "idle"
    /\ Early(s) /\ (s = attempts => mpc # "registry") => Early(s)'
    /\ Dead(s) => Dead(s)'
    /\ s \in received => s \in received'

LEMMA NotarySessionStep ==
    ASSUME NotaryInv, NEW s \in Attempts,
           NotaryStage(s) \/ N!Timeouts(s) \/ N!Log(s) \/ N!Receive(s)
    PROVE  NotaryInv' /\ OnSession(s)
<1> USE DEF NotaryInv, NotaryTypeOK, NotaryOrder, OnSession, Early, late, Dead, holds, N!running,
            N!mpcTls, N!preprocessing, N!exchange, N!Go, N!times, N!ending, N!wire
<1>1. CASE N!Commit(s)
  BY <1>1 DEF N!Commit, N!answers
<1>2. CASE N!AcceptMpc(s)
  BY <1>2 DEF N!AcceptMpc, N!answers
<1>3. CASE s = attempts /\ mpc = "registry" /\ N!Handshake(s)
  BY <1>3 DEF N!Handshake, N!answers
<1>4. CASE N!Run(s)
  BY <1>4 DEF N!Run, N!answers
<1>5. CASE N!Verify(s)
  BY <1>5 DEF N!Verify, N!answers
<1>6. CASE N!DriverEnds(s)
  BY <1>6 DEF N!DriverEnds
<1>7. CASE N!Join(s)
  BY <1>7 DEF N!Join
<1>8. CASE N!Attest(s)
  BY <1>8 DEF N!Attest
<1>9. CASE N!Write(s)
  BY <1>9 DEF N!Write
<1>10. CASE N!Close(s)
  BY <1>10 DEF N!Close, N!Return, N!dropDriver
<1>11. CASE N!StageFails(s)
  BY <1>11 DEF N!StageFails, N!Return, N!dropDriver
<1>12. CASE N!PreprocessTimeout(s)
  BY <1>12 DEF N!PreprocessTimeout, N!Return, N!dropDriver
<1>13. CASE N!SessionTimeout(s)
  BY <1>13 DEF N!SessionTimeout, N!Return, N!dropDriver
<1>14. CASE N!Log(s)
  BY <1>14 DEF N!Log
<1>15. CASE N!Receive(s)
  BY <1>15 DEF N!Receive
<1> QED BY <1>1, <1>2, <1>3, <1>4, <1>5, <1>6, <1>7, <1>8, <1>9, <1>10, <1>11, <1>12, <1>13, <1>14,
           <1>15
        DEF NotaryStage, N!Timeouts

\* A decision of the prover leaves its attempt as it is, and the notary but for the
\* connection that it may drop.
LEMMA DecisionStep ==
    ASSUME CInv, Decisions, Hangup, result' = "notarized" => attempts \in received
    PROVE  CInv'
<1>1. SInv' /\ Session /\ (Goes \/ Ends)
  BY DecisionsKeepSInv, DecisionKind DEF CInv
<1>2. /\ UNCHANGED <<attempts, mpc, preprocessed, driver, conn, faults, contacted>>
      /\ phase' = "connect" => ~preprocessed
  BY <1>1 DEF Goes, Ends, To, EndAttempt, attemptVars
<1>3. UNCHANGED <<up, stage, outcome, ndriver, sent, received>>
  BY DEF Hangup, notaryVars, N!PeerLeaves, N!ending, N!wire
<1>4. phase # "done"
  BY <1>1 DEF Session
<1>5. NotaryInv' /\ connection' = connection /\ (\A s \in Attempts : Early(s)' <=> Early(s))
  BY <1>2, <1>3 DEF CInv, NotaryInv, NotaryTypeOK, NotaryOrder, connection, holds, Early, N!running
<1>6. Session' => attempts' >= 1 /\ conn' = connection'
  BY <1>1, <1>2, <1>5 DEF CInv
<1> QED BY <1>1, <1>2, <1>3, <1>4, <1>5, <1>6 DEF CInv

\* The future, the driver and the timers of the prover, within an attempt.
LEMMA AttemptStep ==
    ASSUME CInv, Preprocess \/ Fetch \/ Commit \/ Fails \/ DriverDone
    PROVE  CInv'
<1>1. /\ SInv' /\ Session
      /\ UNCHANGED <<result, attempts, phase, conn, notaryVars>> /\ (~preprocessed' => ~preprocessed)
  <2>1. SInv'
    BY RunsKeepSInv DEF CInv, Preprocess, Fetch, Commit, Fails, DriverDone
  <2>2. /\ Session
        /\ UNCHANGED <<result, attempts, phase, conn, notaryVars>> /\ (~preprocessed' => ~preprocessed)
    BY DEF Preprocess, Fetch, Commit, Fails, DriverDone, FinishPreprocessing, ContactRegistry,
           FinishMpc, PreprocessTimeout, MpcSeesLoss, MpcFails, DriverFails, DriverEnds, Polled,
           Session
  <2> QED BY <2>1, <2>2
<1>2. UNCHANGED <<up, stage, outcome, ndriver, sent, received>>
  BY <1>1 DEF notaryVars
<1>3. NotaryInv' /\ connection' = connection /\ (\A s \in Attempts : Early(s)' <=> Early(s))
  BY <1>1, <1>2 DEF CInv, NotaryInv, NotaryTypeOK, NotaryOrder, connection, holds, Early, N!running
<1>4. Session' /\ phase # "done" /\ phase # "connect"
  BY <1>1 DEF Session
<1> QED BY <1>1, <1>2, <1>3, <1>4 DEF CInv

\* The next attempt is a session the notary has not seen, and the one before it, if
\* any, ended early.
LEMMA OpenStep ==
    ASSUME CInv, Open \/ Refused
    PROVE  CInv'
<1>1. /\ phase = "connect" /\ attempts' = attempts + 1 /\ attempts \in Nat
      /\ attempts <= MaxRetries /\ ~preprocessed /\ result = "pending" /\ SInv'
  <2>1. SInv /\ (Connect \/ ConnectFails)
    BY DEF CInv, Open, Refused
  <2>2. SInv'
    BY <2>1, RunsKeepSInv
  <2>3. phase = "connect" /\ attempts' = attempts + 1
    BY <2>1 DEF Connect, ConnectFails
  <2>4. attempts \in Nat /\ attempts <= MaxRetries /\ result = "pending"
    BY <2>1, <2>3, RetriesNat DEF SInv, TypeOK
  <2>5. ~preprocessed
    BY <2>3 DEF CInv
  <2> QED BY <2>2, <2>3, <2>4, <2>5
<1>2. attempts + 1 \in Attempts /\ (\A s \in Attempts : s \in Nat)
  BY <1>1, RetriesNat DEF Attempts
<1>3. \A s \in Attempts : s < attempts + 1 => Early(s)
  BY <1>1, <1>2 DEF CInv
<1>4. stage[attempts + 1] = "idle" /\ \A s \in Attempts : s > attempts + 1 => stage[s] = "idle"
  BY <1>1, <1>2 DEF CInv
<1>5. CASE Refused
  <2>1. UNCHANGED <<up, stage, outcome, ndriver, sent, received>> /\ phase' = "done" /\ result' = "failed"
    BY <1>5 DEF Refused, ConnectFails, notaryVars
  <2>2. NotaryInv' /\ (\A s \in Attempts : Early(s)' <=> Early(s))
    BY <2>1 DEF CInv, NotaryInv, NotaryTypeOK, NotaryOrder, Early
  <2>3. ~Session'
    BY <2>1 DEF Session
  <2> QED BY <1>1, <1>3, <1>4, <2>1, <2>2, <2>3 DEF CInv
<1>6. CASE Open
  <2> DEFINE n == attempts + 1
  <2>1. /\ up /\ UNCHANGED <<up, outcome, sent, received>>
        /\ stage' = [stage EXCEPT ![n] = "commit"] /\ ndriver' = [ndriver EXCEPT ![n] = "running"]
        /\ phase' = "select" /\ ~preprocessed' /\ conn' = "open" /\ result' = "pending"
    BY <1>1, <1>6 DEF Open, Connect, N!Accept, N!ending, N!wire
  <2>2. n \in Attempts /\ stage[n] = "idle" /\ attempts' = n
    BY <1>1, <1>2, <1>4
  <2> HIDE DEF n
  <2>3. NotaryInv'
    BY <2>1, <2>2 DEF CInv, NotaryInv, NotaryTypeOK, NotaryOrder, N!exchange, N!mpcTls,
                      N!preprocessing
  <2>4. \A s \in Attempts : s # n => (Early(s)' <=> Early(s)) /\ stage'[s] = stage[s]
    BY <2>1, <2>2 DEF CInv, NotaryInv, NotaryTypeOK, Early
  <2>5. (\A s \in Attempts : s = attempts' => Early(s)') /\ ndriver'[n] = "running"
    <3>1. sent[n] = "none" /\ outcome[n] = "none"
      BY <2>2 DEF CInv, NotaryInv, NotaryOrder
    <3>2. stage'[n] = "commit" /\ ndriver'[n] = "running"
      BY <2>1, <2>2 DEF CInv, NotaryInv, NotaryTypeOK
    <3> QED BY <2>1, <2>2, <3>1, <3>2 DEF Early, late, N!exchange
  <2>6. connection' = "open"
    BY <2>1, <2>2, <2>5 DEF connection, holds
  <2>7. attempts' >= 1
    BY <1>1
  <2>8. \A s \in Attempts : s > attempts' => stage'[s] = "idle"
    BY <1>1, <1>2, <1>4, <2>2, <2>4 DEF n
  <2>9. \A s \in Attempts : s < attempts' => Early(s)'
    BY <1>1, <1>2, <1>3, <2>2, <2>4 DEF n
  <2> QED BY <1>1, <2>1, <2>2, <2>3, <2>5, <2>6, <2>7, <2>8, <2>9 DEF CInv
<1> QED BY <1>5, <1>6

\* What every step of the notary, its clock and its end leaves: received attestations,
\* early sessions, sessions that have not begun and dead ones.
NotaryKeeps ==
    /\ NotaryInv'
    /\ \A s \in Attempts :
        /\ s \in received => s \in received'
        /\ stage[s] = "idle" => stage'[s] = "idle"
        /\ Early(s) /\ (s = attempts => mpc # "registry") => Early(s)'
        /\ Dead(s) => Dead(s)'

\* The notary's step is a cut to the prover, or nothing: a connection that is closed
\* does not open again.
LEMMA SeenStep ==
    ASSUME CInv, Seen, NotaryKeeps
    PROVE  CInv' /\ (NotaryCuts \/ UNCHANGED vars)
<1>1. UNCHANGED <<result, attempts, phase, mpc, preprocessed, driver, contacted, faults>>
        /\ conn' = IF Session THEN connection' ELSE conn
  BY DEF Seen
<1>2. SInv /\ TypeOK
  BY DEF CInv, SInv
<1>3. ASSUME ~Session PROVE NotaryCuts \/ UNCHANGED vars
  <2>1. UNCHANGED vars
    BY <1>1, <1>3 DEF vars
  <2> QED BY <2>1
<1>4. ASSUME Session PROVE NotaryCuts \/ UNCHANGED vars
  <2>1. attempts \in Attempts /\ conn = connection /\ attempts' = attempts
    BY <1>1, <1>2, <1>4, RetriesNat DEF CInv, TypeOK, Attempts
  <2>2. connection \in {"open", "closed"} /\ (connection = "closed" <=> Dead(attempts))
    BY DEF connection, Dead
  <2>3. connection' \in {"open", "closed"} /\ (connection' = "closed" <=> Dead(attempts)')
    BY DEF connection, Dead
  <2>4. Dead(attempts) => Dead(attempts)'
    BY <2>1 DEF NotaryKeeps, Dead, holds, N!running
  <2>5. conn = "closed" => conn' = "closed"
    BY <1>1, <1>4, <2>1, <2>2, <2>3, <2>4
  <2>6. conn' \in {"open", "closed"} /\ conn \in {"open", "closed"}
    BY <1>1, <1>4, <2>1, <2>2, <2>3
  <2> QED BY <1>1, <1>4, <2>5, <2>6 DEF NotaryCuts, vars
<1>5. NotaryCuts \/ UNCHANGED vars
  BY <1>3, <1>4
<1>6. SInv'
  BY <1>2, <1>5, NextSInv DEF Next
<1>7. Session' => attempts' >= 1 /\ conn' = connection'
  BY <1>1 DEF CInv, Session
<1>8. \A s \in Attempts : Early(s) /\ (s = attempts => ~preprocessed) => Early(s)'
  <2>1. mpc = "registry" => preprocessed
    BY <1>2 DEF SInv
  <2> QED BY <2>1 DEF NotaryKeeps
<1>9. \A s \in Attempts : s = attempts' /\ phase' # "done" /\ ~preprocessed' => Early(s)'
  BY <1>1, <1>8 DEF CInv
<1>10. \A s \in Attempts : s < attempts' => Early(s)'
  <2>1. \A s \in Attempts : s < attempts => s # attempts /\ Early(s)
    BY <1>2, RetriesNat DEF CInv, TypeOK, Attempts
  <2> QED BY <1>1, <1>8, <2>1
<1>11. \A s \in Attempts : s > attempts' => stage'[s] = "idle"
  BY <1>1 DEF CInv, NotaryKeeps
<1>12. result' = "notarized" => attempts' \in received'
  BY <1>1 DEF CInv, NotaryKeeps, NotaryInv, NotaryTypeOK
<1>13. phase' = "connect" => ~preprocessed'
  BY <1>1 DEF CInv
<1> QED BY <1>5, <1>6, <1>7, <1>9, <1>10, <1>11, <1>12, <1>13 DEF CInv, NotaryKeeps

\* The notary's steps do keep that.
LEMMA NotaryStepKeeps ==
    ASSUME NotaryInv,
           \/ N!Tick \/ N!Stop
           \/ \E s \in Attempts : NotaryStage(s) \/ N!Timeouts(s) \/ N!Log(s) \/ N!Receive(s),
           Seen
    PROVE  NotaryKeeps
<1>1. CASE N!Tick
  <2>1. UNCHANGED <<up, stage, outcome, ndriver, sent, received>>
    BY <1>1 DEF N!Tick, N!ending, N!wire
  <2> QED BY <2>1 DEF NotaryKeeps, NotaryInv, NotaryTypeOK, NotaryOrder, Early, Dead, holds, N!running
<1>2. CASE N!Stop
  <2>1. /\ up' = FALSE /\ UNCHANGED <<stage, outcome, sent, received>>
        /\ ndriver' = [s \in Attempts |-> IF ndriver[s] = "running" THEN "aborted" ELSE ndriver[s]]
    BY <1>2 DEF N!Stop, N!ending, N!wire
  <2>2. NotaryInv'
    BY <2>1 DEF NotaryInv, NotaryTypeOK, NotaryOrder
  <2> QED BY <2>1, <2>2 DEF NotaryKeeps, Early, Dead, holds
<1>3. ASSUME NEW s \in Attempts, NotaryStage(s) \/ N!Timeouts(s) \/ N!Log(s) \/ N!Receive(s)
      PROVE  NotaryKeeps
  <2>1. NotaryInv' /\ OnSession(s)
    BY <1>3, NotarySessionStep
  <2>2. \A u \in Attempts : u # s =>
            /\ u \in received => u \in received'
            /\ stage[u] = "idle" => stage'[u] = "idle"
            /\ Early(u) => Early(u)'
            /\ Dead(u) => Dead(u)'
    BY <2>1 DEF OnSession, Early, Dead, holds, N!running
  <2>3. /\ s \in received => s \in received'
        /\ stage[s] # "idle"
        /\ Early(s) /\ (s = attempts => mpc # "registry") => Early(s)'
        /\ Dead(s) => Dead(s)'
    BY <2>1 DEF OnSession
  <2> QED BY <2>1, <2>2, <2>3 DEF NotaryKeeps
<1> QED BY <1>1, <1>2, <1>3

\* Before the first attempt neither side has anything.
LEMMA InitCInv == CInit => CInv
<1> SUFFICES ASSUME CInit PROVE CInv
  OBVIOUS
<1>1. SInv
  BY InitSInv DEF CInit
<1>2. NotaryInv
  BY DEF CInit, N!Init, NotaryInv, NotaryTypeOK, NotaryOrder, N!exchange, N!mpcTls, N!preprocessing
<1>3. ~Session /\ ~preprocessed /\ result = "pending"
  BY DEF CInit, Init, Session
<1>4. \A s \in Attempts : Early(s) /\ stage[s] = "idle"
  BY DEF CInit, N!Init, Early, late, N!exchange
<1> QED BY <1>1, <1>2, <1>3, <1>4 DEF CInv

\* Every step keeps the invariant, and is a step of the prover or none.
LEMMA NextCInv ==
    ASSUME CInv, [CNext]_allVars
    PROVE  CInv' /\ [Next]_vars
<1>1. CASE UNCHANGED allVars
  <2>1. UNCHANGED vars /\ UNCHANGED <<up, stage, outcome, ndriver, sent, received>>
    BY <1>1 DEF allVars, notaryVars
  <2>2. SInv'
    BY <2>1, NextSInv DEF CInv
  <2>3. UNCHANGED <<result, attempts, phase, preprocessed, conn>>
    BY <2>1 DEF vars
  <2>4. NotaryInv' /\ connection' = connection /\ (Session' <=> Session)
          /\ (\A s \in Attempts : Early(s)' <=> Early(s))
    BY <2>1, <2>3 DEF CInv, NotaryInv, NotaryTypeOK, NotaryOrder, connection, holds, Early,
                      N!running, Session
  <2> QED BY <2>1, <2>2, <2>3, <2>4 DEF CInv
<1>2. CASE Open \/ Refused
  BY <1>2, OpenStep DEF Open, Refused, Next
<1>3. CASE Preprocess \/ Fetch \/ Commit \/ Fails \/ DriverDone
  BY <1>3, AttemptStep DEF Preprocess, Fetch, Commit, Fails, DriverDone, Next
<1>4. CASE Decide
  <2>1. Decisions /\ Next /\ Hangup /\ ~Attested
    BY <1>4 DEF Decide, Decisions, Next, Attested, SelectOk, SelectFailed, SelectDriver,
                GraceDriverEnds, GraceDriverExpires, GraceMpcOver, Join
  <2>2. result' = "notarized" => attempts \in received
    <3>1. result = "pending" /\ (Goes \/ Ends)
      BY <2>1, DecisionKind DEF CInv, SInv, Session
    <3>2. CASE Goes
      BY <3>1, <3>2 DEF Goes, To
    <3>3. CASE Ends
      BY <2>1, <3>1, <3>3 DEF Ends, EndAttempt
    <3> QED BY <3>1, <3>2, <3>3
  <2> QED BY <2>1, <2>2, DecisionStep
<1>5. CASE ReadAttestation \/ ReadFails
  <2>1. Decisions /\ Next /\ Hangup
    BY <1>5 DEF ReadAttestation, ReadFails, Decisions, Next
  <2>2. result' = "notarized" => attempts \in received
    BY <1>5 DEF ReadAttestation, ReadFails, NotAttested, EndAttempt
  <2> QED BY <2>1, <2>2, DecisionStep
<1>6. CASE Clock \/ NotaryStops \/ Reads \/ \E s \in Attempts : NotaryGoes(s) \/ NotaryTimeout(s) \/ NotaryLogs(s)
  <2>1. /\ Seen
        /\ \/ N!Tick \/ N!Stop
           \/ \E s \in Attempts : NotaryStage(s) \/ N!Timeouts(s) \/ N!Log(s) \/ N!Receive(s)
    <3>1. CASE Reads
      <4>1. attempts \in Attempts
        BY <3>1, RetriesNat DEF Reads, Session, CInv, SInv, TypeOK, Attempts
      <4> QED BY <3>1, <4>1 DEF Reads
    <3>2. CASE ~Reads
      BY <1>6, <3>2 DEF Clock, NotaryStops, NotaryGoes, NotaryTimeout, NotaryLogs
    <3> QED BY <3>1, <3>2
  <2>2. NotaryKeeps
    BY <2>1, NotaryStepKeeps DEF CInv
  <2> QED BY <2>1, <2>2, SeenStep DEF Next
<1> QED BY <1>1, <1>2, <1>3, <1>4, <1>5, <1>6 DEF CNext

\* Prover and notary agree on the connection, and every attempt but the last has
\* left the notary before or at the handshake.
THEOREM JointInvariance == CSpec => []CInv
BY InitCInv, NextCInv, PTL DEF CSpec

\* The composition is the prover of ProverSession: the notary that this module puts in
\* the place of the assumed one does nothing to it but cut the connection, so what is
\* proved of the prover holds with it (fairness is left to the model checker).
THEOREM ProverRefinement == CSpec => Spec
<1>1. CInit => Init
  BY DEF CInit
<1> QED BY <1>1, NextCInv, JointInvariance, PTL DEF CSpec, Spec

\* with_retries, notarize_shape and notarize_session: whatever the number of retries
\* and the timeouts, a run ends with the attestation of its last attempt, and the
\* notary was past the handshake with no other.
THEOREM LastAttemptAttested == CSpec => []AttestedByLastAttempt
<1>1. CInv => AttestedByLastAttempt
  <2> SUFFICES ASSUME CInv PROVE AttestedByLastAttempt
    OBVIOUS
  <2>1. \A s \in 1..(attempts - 1) : s \in Attempts /\ s < attempts
    BY RetriesNat DEF CInv, SInv, TypeOK, Attempts
  <2>2. \A s \in 1..(attempts - 1) : Early(s)
    BY <2>1 DEF CInv
  <2> QED BY <2>2 DEF CInv, AttestedByLastAttempt, Early, late
<1> QED BY <1>1, JointInvariance, PTL

\* The composition is the notary of NotarySession, one session to an attempt: what is
\* proved there of the times it attests and of its drivers holds with this prover.
THEOREM NotaryRefinement == CSpec => N!Spec
<1>1. CInit => N!Init
  BY DEF CInit
<1>2. CInv /\ [CNext]_allVars => [N!Next]_(N!vars)
  <2> SUFFICES ASSUME CInv, [CNext]_allVars PROVE N!Next \/ UNCHANGED notaryVars
    BY DEF notaryVars, N!vars
  <2>1. CASE UNCHANGED allVars
    BY <2>1 DEF allVars
  <2>2. CASE Open
    <3>1. attempts + 1 \in Attempts /\ N!Accept(attempts + 1)
      BY <2>2, RetriesNat DEF Open, Connect, CInv, SInv, TypeOK, Attempts
    <3> QED BY <3>1 DEF N!Next
  <2>3. CASE Refused \/ Preprocess \/ Fetch \/ Commit \/ Fails \/ DriverDone
    BY <2>3 DEF Refused, Preprocess, Fetch, Commit, Fails, DriverDone
  <2>4. CASE Decide \/ ReadAttestation \/ ReadFails
    <3>1. Decisions /\ Hangup
      BY <2>4 DEF Decide, ReadAttestation, ReadFails, Decisions
    <3>2. Session
      BY <3>1, DecisionKind DEF CInv
    <3>3. attempts \in Attempts
      BY <3>2, RetriesNat DEF CInv, SInv, TypeOK, Attempts
    <3> QED BY <3>1, <3>3 DEF Hangup, N!Next
  <2>5. CASE Clock \/ NotaryStops \/ Reads
    <3>1. CASE Reads
      <4>1. attempts \in Attempts
        BY <3>1, RetriesNat DEF Reads, Session, CInv, SInv, TypeOK, Attempts
      <4> QED BY <3>1, <4>1 DEF Reads, N!Next
    <3>2. CASE Clock \/ NotaryStops
      BY <3>2 DEF Clock, NotaryStops, N!Next
    <3> QED BY <2>5, <3>1, <3>2
  <2>6. ASSUME NEW s \in Attempts, NotaryGoes(s) \/ NotaryTimeout(s) \/ NotaryLogs(s)
        PROVE  N!Next
    <3>1. N!Stages(s) \/ N!Timeouts(s) \/ N!Log(s)
      BY <2>6 DEF NotaryGoes, NotaryTimeout, NotaryLogs, NotaryStage, N!Stages
    <3> QED BY <3>1 DEF N!Next
  <2> QED BY <2>1, <2>2, <2>3, <2>4, <2>5, <2>6 DEF CNext
<1> QED BY <1>1, <1>2, JointInvariance, PTL DEF CSpec, N!Spec
=============================================================================
