------------------------ MODULE NotarySessionProofs ------------------------
(***************************************************************************)
(* What holds of every session with any timeouts and tolerance.  A session  *)
(* is within its deadline while it runs, because the clock waits for its    *)
(* timer; the times taken on the way are ordered by the stage it is at.     *)
(***************************************************************************)
EXTENDS NotarySession, TLAPS

afterHandshake == {"run", "verify", "join", "read", "write", "close"}
afterRun == {"verify", "join", "read", "write", "close"}

\* While the process is up a running session is within its deadline.
WithinDeadline ==
    \A s \in Sessions :
        /\ started[s] <= now
        /\ (up /\ running(s)) => now <= started[s] + SESSION_TIMEOUT

\* The times a session has taken, by its stage.
TimesOrdered ==
    \A s \in Sessions :
        /\ stage[s] \in afterHandshake =>
            started[s] - TOLERANCE <= connTime[s] /\ connTime[s] <= now + TOLERANCE
        /\ stage[s] \in afterRun => fetched[s] <= now

\* What session s signed was in time; it is handed to the socket in the exchange, all of it
\* before the socket is closed; and the log has the outcome, which does not change.
Signed(s) ==
    /\ signed(s) => /\ fetched[s] <= tAtt[s]
                    /\ tAtt[s] <= started[s] + SESSION_TIMEOUT
                    /\ tAtt[s] + TOLERANCE >= connTime[s]
                    /\ tAtt[s] - connTime[s] <= SESSION_TIMEOUT + TOLERANCE
    /\ sent[s] # "none" => stage[s] \in {"write", "close"} \/ over(s)
    /\ s \in received \/ stage[s] = "close" \/ outcome[s] = "attested" => sent[s] = "whole"
    /\ sent[s] = "whole" /\ stage[s] # "close" =>
        outcome[s] = "attested" \/ leftAt[s] = "close"
    /\ outcome[s] # "none" \/ leftAt[s] # "none" => over(s)
    /\ log[s] \in {"none", outcome[s]}

SignedInTime == \A s \in Sessions : Signed(s)

IInv == TypeOK /\ WithinDeadline /\ TimesOrdered /\ SignedInTime

-----------------------------------------------------------------------------
LEMMA InitIInv == Init => IInv
  BY TimeoutsAssumption
  DEF Init, IInv, TypeOK, WithinDeadline, TimesOrdered, SignedInTime, Signed, signed, over, running,
      afterHandshake, afterRun, mpcTls, preprocessing, exchange

\* Returning keeps the types: a session returns from a stage it runs in.
LEMMA ReturnTypes ==
    ASSUME TypeOK, NEW s \in Sessions, NEW as \in {"attested", "cut", "failed"},
           running(s), Return(s, as)
    PROVE  /\ stage' \in [Sessions -> {"idle", "join", "returned", "logged"} \cup mpcTls \cup exchange]
           /\ outcome' \in [Sessions -> {"none", "attested", "cut", "failed"}]
           /\ leftAt' \in [Sessions -> {"none", "mpc", "join"} \cup exchange]
           /\ driver' \in [Sessions -> {"none", "running", "ended", "failed", "aborted"}]
<1> DEFINE from == IF stage[s] \in mpcTls THEN "mpc" ELSE stage[s]
<1>1. from \in {"none", "mpc", "join"} \cup exchange
  BY DEF running
<1>2. leftAt' = [leftAt EXCEPT ![s] = from]
  BY DEF Return
<1> HIDE DEF from
<1>3. leftAt' \in [Sessions -> {"none", "mpc", "join"} \cup exchange]
  BY <1>1, <1>2 DEF TypeOK
<1> QED BY <1>3 DEF TypeOK, Return, dropDriver

\* Every step keeps the types.
LEMMA TypeStep == IInv /\ [Next]_vars => TypeOK'
<1> SUFFICES ASSUME IInv, [Next]_vars PROVE TypeOK'
  OBVIOUS
<1> USE TimeoutsAssumption DEF IInv, TypeOK, times, ending, wire
<1>1. CASE Tick
  BY <1>1 DEF Tick, mpcTls, preprocessing, exchange
<1>2. CASE Stop
  BY <1>2 DEF Stop, mpcTls, preprocessing, exchange
<1>3. ASSUME NEW s \in Sessions, Accept(s) PROVE TypeOK'
  BY <1>3 DEF Accept, mpcTls, preprocessing, exchange
<1>4. ASSUME NEW s \in Sessions, Commit(s) PROVE TypeOK'
  BY <1>4 DEF Commit, answers, Go, mpcTls, preprocessing, exchange
<1>5. ASSUME NEW s \in Sessions, AcceptMpc(s) PROVE TypeOK'
  BY <1>5 DEF AcceptMpc, answers, Go, mpcTls, preprocessing, exchange
<1>6. ASSUME NEW s \in Sessions, Reject(s) PROVE TypeOK'
  <2>1. running(s) /\ Return(s, "failed")
    BY <1>6 DEF Reject, running, mpcTls, preprocessing, exchange
  <2> QED BY <1>6, <2>1, ReturnTypes DEF Reject
<1>7. ASSUME NEW s \in Sessions, Handshake(s) PROVE TypeOK'
  BY <1>7 DEF Handshake, answers, Go, mpcTls, preprocessing, exchange
<1>8. ASSUME NEW s \in Sessions, Run(s) PROVE TypeOK'
  BY <1>8 DEF Run, answers, Go, mpcTls, preprocessing, exchange
<1>9. ASSUME NEW s \in Sessions, Verify(s) PROVE TypeOK'
  BY <1>9 DEF Verify, answers, Go, mpcTls, preprocessing, exchange
<1>10. ASSUME NEW s \in Sessions, DriverEnds(s) PROVE TypeOK'
  BY <1>10 DEF DriverEnds, mpcTls, preprocessing, exchange
<1>11. ASSUME NEW s \in Sessions, Join(s) PROVE TypeOK'
  BY <1>11 DEF Join, Go, mpcTls, preprocessing, exchange
<1>12. ASSUME NEW s \in Sessions, Attest(s) PROVE TypeOK'
  BY <1>12 DEF Attest, Go, mpcTls, preprocessing, exchange
<1>13. ASSUME NEW s \in Sessions, Write(s) PROVE TypeOK'
  BY <1>13 DEF Write, Go, mpcTls, preprocessing, exchange
<1>14. ASSUME NEW s \in Sessions, Close(s) PROVE TypeOK'
  <2>1. running(s) /\ Return(s, "attested")
    BY <1>14 DEF Close, running, mpcTls, preprocessing, exchange
  <2> QED BY <1>14, <2>1, ReturnTypes DEF Close
<1>15. ASSUME NEW s \in Sessions, StageFails(s) PROVE TypeOK'
  <2>1. running(s) /\ Return(s, "failed")
    BY <1>15 DEF StageFails, running, mpcTls, preprocessing, exchange
  <2> QED BY <1>15, <2>1, ReturnTypes DEF StageFails
<1>16. ASSUME NEW s \in Sessions, PreprocessTimeout(s) PROVE TypeOK'
  <2>1. running(s) /\ Return(s, "cut")
    BY <1>16 DEF PreprocessTimeout, running, mpcTls, preprocessing, exchange
  <2> QED BY <1>16, <2>1, ReturnTypes DEF PreprocessTimeout
<1>17. ASSUME NEW s \in Sessions, SessionTimeout(s) PROVE TypeOK'
  <2>1. running(s) /\ Return(s, "cut")
    BY <1>17 DEF SessionTimeout, running, mpcTls, preprocessing, exchange
  <2> QED BY <1>17, <2>1, ReturnTypes DEF SessionTimeout
<1>18. ASSUME NEW s \in Sessions, Log(s) PROVE TypeOK'
  BY <1>18 DEF Log, mpcTls, preprocessing, exchange
<1>19. ASSUME NEW s \in Sessions, PeerStalls(s) PROVE TypeOK'
  BY <1>19 DEF PeerStalls, mpcTls, preprocessing, exchange
<1>20. ASSUME NEW s \in Sessions, PeerLeaves(s) PROVE TypeOK'
  BY <1>20 DEF PeerLeaves, mpcTls, preprocessing, exchange
<1>21. CASE UNCHANGED vars
  BY <1>21 DEF vars, mpcTls, preprocessing, exchange
<1>22. ASSUME NEW s \in Sessions, Receive(s) PROVE TypeOK'
  BY <1>22 DEF Receive, mpcTls, preprocessing, exchange
<1>23. QED
  BY <1>1, <1>2, <1>3, <1>4, <1>5, <1>6, <1>7, <1>8, <1>9, <1>10, <1>11, <1>12, <1>13, <1>14, <1>15, <1>16, <1>17, <1>18, <1>19, <1>20, <1>21, <1>22 DEF Next, Stages, Timeouts

\* The clock stops at the deadline of a session that runs.
LEMMA DeadlineStep == IInv /\ [Next]_vars => WithinDeadline'
<1> SUFFICES ASSUME IInv, [Next]_vars PROVE WithinDeadline'
  OBVIOUS
<1> USE TimeoutsAssumption DEF IInv, TypeOK, times, ending, wire
<1>1. CASE Tick
  BY <1>1 DEF Tick, WithinDeadline, running, elapsed, over, mpcTls, preprocessing, exchange
<1>2. CASE Stop
  BY <1>2 DEF Stop, WithinDeadline, running, elapsed, over, mpcTls, preprocessing, exchange
<1>3. ASSUME NEW s \in Sessions, Accept(s) PROVE WithinDeadline'
  BY <1>3 DEF Accept, WithinDeadline, running, elapsed, over, mpcTls, preprocessing, exchange
<1>4. ASSUME NEW s \in Sessions, Commit(s) PROVE WithinDeadline'
  BY <1>4 DEF Commit, answers, Go, WithinDeadline, running, elapsed, over, mpcTls, preprocessing, exchange
<1>5. ASSUME NEW s \in Sessions, AcceptMpc(s) PROVE WithinDeadline'
  BY <1>5 DEF AcceptMpc, answers, Go, WithinDeadline, running, elapsed, over, mpcTls, preprocessing, exchange
<1>6. ASSUME NEW s \in Sessions, Reject(s) PROVE WithinDeadline'
  BY <1>6 DEF Reject, answers, Return, dropDriver, WithinDeadline, running, elapsed, over, mpcTls, preprocessing, exchange
<1>7. ASSUME NEW s \in Sessions, Handshake(s) PROVE WithinDeadline'
  BY <1>7 DEF Handshake, answers, Go, WithinDeadline, running, elapsed, over, mpcTls, preprocessing, exchange
<1>8. ASSUME NEW s \in Sessions, Run(s) PROVE WithinDeadline'
  BY <1>8 DEF Run, answers, Go, WithinDeadline, running, elapsed, over, mpcTls, preprocessing, exchange
<1>9. ASSUME NEW s \in Sessions, Verify(s) PROVE WithinDeadline'
  BY <1>9 DEF Verify, answers, Go, WithinDeadline, running, elapsed, over, mpcTls, preprocessing, exchange
<1>10. ASSUME NEW s \in Sessions, DriverEnds(s) PROVE WithinDeadline'
  BY <1>10 DEF DriverEnds, WithinDeadline, running, elapsed, over, mpcTls, preprocessing, exchange
<1>11. ASSUME NEW s \in Sessions, Join(s) PROVE WithinDeadline'
  BY <1>11 DEF Join, Go, WithinDeadline, running, elapsed, over, mpcTls, preprocessing, exchange
<1>12. ASSUME NEW s \in Sessions, Attest(s) PROVE WithinDeadline'
  BY <1>12 DEF Attest, Go, WithinDeadline, running, elapsed, over, mpcTls, preprocessing, exchange
<1>13. ASSUME NEW s \in Sessions, Write(s) PROVE WithinDeadline'
  BY <1>13 DEF Write, Go, WithinDeadline, running, elapsed, over, mpcTls, preprocessing, exchange
<1>14. ASSUME NEW s \in Sessions, Close(s) PROVE WithinDeadline'
  BY <1>14 DEF Close, Return, dropDriver, WithinDeadline, running, elapsed, over, mpcTls, preprocessing, exchange
<1>15. ASSUME NEW s \in Sessions, StageFails(s) PROVE WithinDeadline'
  BY <1>15 DEF StageFails, Return, dropDriver, WithinDeadline, running, elapsed, over, mpcTls, preprocessing, exchange
<1>16. ASSUME NEW s \in Sessions, PreprocessTimeout(s) PROVE WithinDeadline'
  BY <1>16 DEF PreprocessTimeout, Return, dropDriver, WithinDeadline, running, elapsed, over, mpcTls, preprocessing, exchange
<1>17. ASSUME NEW s \in Sessions, SessionTimeout(s) PROVE WithinDeadline'
  BY <1>17 DEF SessionTimeout, Return, dropDriver, WithinDeadline, running, elapsed, over, mpcTls, preprocessing, exchange
<1>18. ASSUME NEW s \in Sessions, Log(s) PROVE WithinDeadline'
  BY <1>18 DEF Log, WithinDeadline, running, elapsed, over, mpcTls, preprocessing, exchange
<1>19. ASSUME NEW s \in Sessions, PeerStalls(s) PROVE WithinDeadline'
  BY <1>19 DEF PeerStalls, WithinDeadline, running, elapsed, over, mpcTls, preprocessing, exchange
<1>20. ASSUME NEW s \in Sessions, PeerLeaves(s) PROVE WithinDeadline'
  BY <1>20 DEF PeerLeaves, WithinDeadline, running, elapsed, over, mpcTls, preprocessing, exchange
<1>21. CASE UNCHANGED vars
  BY <1>21 DEF vars, WithinDeadline, running, elapsed, over, mpcTls, preprocessing, exchange
<1>22. ASSUME NEW s \in Sessions, Receive(s) PROVE WithinDeadline'
  BY <1>22 DEF Receive, WithinDeadline, running, elapsed, over, mpcTls, preprocessing, exchange
<1>23. QED
  BY <1>1, <1>2, <1>3, <1>4, <1>5, <1>6, <1>7, <1>8, <1>9, <1>10, <1>11, <1>12, <1>13, <1>14, <1>15, <1>16, <1>17, <1>18, <1>19, <1>20, <1>21, <1>22 DEF Next, Stages, Timeouts

\* A time is taken from a clock that only goes on.
LEMMA TimesStep == IInv /\ [Next]_vars => TimesOrdered'
<1> SUFFICES ASSUME IInv, [Next]_vars PROVE TimesOrdered'
  OBVIOUS
<1> USE TimeoutsAssumption DEF IInv, TypeOK, times, ending, wire
<1>1. CASE Tick
  BY <1>1 DEF Tick, TimesOrdered, WithinDeadline, running, over, afterHandshake, afterRun, mpcTls, preprocessing, exchange
<1>2. CASE Stop
  BY <1>2 DEF Stop, TimesOrdered, WithinDeadline, running, over, afterHandshake, afterRun, mpcTls, preprocessing, exchange
<1>3. ASSUME NEW s \in Sessions, Accept(s) PROVE TimesOrdered'
  BY <1>3 DEF Accept, TimesOrdered, WithinDeadline, running, over, afterHandshake, afterRun, mpcTls, preprocessing, exchange
<1>4. ASSUME NEW s \in Sessions, Commit(s) PROVE TimesOrdered'
  BY <1>4 DEF Commit, answers, Go, TimesOrdered, WithinDeadline, running, over, afterHandshake, afterRun, mpcTls, preprocessing, exchange
<1>5. ASSUME NEW s \in Sessions, AcceptMpc(s) PROVE TimesOrdered'
  BY <1>5 DEF AcceptMpc, answers, Go, TimesOrdered, WithinDeadline, running, over, afterHandshake, afterRun, mpcTls, preprocessing, exchange
<1>6. ASSUME NEW s \in Sessions, Reject(s) PROVE TimesOrdered'
  BY <1>6 DEF Reject, answers, Return, dropDriver, TimesOrdered, WithinDeadline, running, over, afterHandshake, afterRun, mpcTls, preprocessing, exchange
<1>7. ASSUME NEW s \in Sessions, Handshake(s) PROVE TimesOrdered'
  BY <1>7 DEF Handshake, answers, Go, TimesOrdered, WithinDeadline, running, over, afterHandshake, afterRun, mpcTls, preprocessing, exchange
<1>8. ASSUME NEW s \in Sessions, Run(s) PROVE TimesOrdered'
  BY <1>8 DEF Run, answers, Go, TimesOrdered, WithinDeadline, running, over, afterHandshake, afterRun, mpcTls, preprocessing, exchange
<1>9. ASSUME NEW s \in Sessions, Verify(s) PROVE TimesOrdered'
  BY <1>9 DEF Verify, answers, Go, TimesOrdered, WithinDeadline, running, over, afterHandshake, afterRun, mpcTls, preprocessing, exchange
<1>10. ASSUME NEW s \in Sessions, DriverEnds(s) PROVE TimesOrdered'
  BY <1>10 DEF DriverEnds, TimesOrdered, WithinDeadline, running, over, afterHandshake, afterRun, mpcTls, preprocessing, exchange
<1>11. ASSUME NEW s \in Sessions, Join(s) PROVE TimesOrdered'
  BY <1>11 DEF Join, Go, TimesOrdered, WithinDeadline, running, over, afterHandshake, afterRun, mpcTls, preprocessing, exchange
<1>12. ASSUME NEW s \in Sessions, Attest(s) PROVE TimesOrdered'
  BY <1>12 DEF Attest, Go, TimesOrdered, WithinDeadline, running, over, afterHandshake, afterRun, mpcTls, preprocessing, exchange
<1>13. ASSUME NEW s \in Sessions, Write(s) PROVE TimesOrdered'
  BY <1>13 DEF Write, Go, TimesOrdered, WithinDeadline, running, over, afterHandshake, afterRun, mpcTls, preprocessing, exchange
<1>14. ASSUME NEW s \in Sessions, Close(s) PROVE TimesOrdered'
  BY <1>14 DEF Close, Return, dropDriver, TimesOrdered, WithinDeadline, running, over, afterHandshake, afterRun, mpcTls, preprocessing, exchange
<1>15. ASSUME NEW s \in Sessions, StageFails(s) PROVE TimesOrdered'
  BY <1>15 DEF StageFails, Return, dropDriver, TimesOrdered, WithinDeadline, running, over, afterHandshake, afterRun, mpcTls, preprocessing, exchange
<1>16. ASSUME NEW s \in Sessions, PreprocessTimeout(s) PROVE TimesOrdered'
  BY <1>16 DEF PreprocessTimeout, Return, dropDriver, TimesOrdered, WithinDeadline, running, over, afterHandshake, afterRun, mpcTls, preprocessing, exchange
<1>17. ASSUME NEW s \in Sessions, SessionTimeout(s) PROVE TimesOrdered'
  BY <1>17 DEF SessionTimeout, Return, dropDriver, TimesOrdered, WithinDeadline, running, over, afterHandshake, afterRun, mpcTls, preprocessing, exchange
<1>18. ASSUME NEW s \in Sessions, Log(s) PROVE TimesOrdered'
  BY <1>18 DEF Log, TimesOrdered, WithinDeadline, running, over, afterHandshake, afterRun, mpcTls, preprocessing, exchange
<1>19. ASSUME NEW s \in Sessions, PeerStalls(s) PROVE TimesOrdered'
  BY <1>19 DEF PeerStalls, TimesOrdered, WithinDeadline, running, over, afterHandshake, afterRun, mpcTls, preprocessing, exchange
<1>20. ASSUME NEW s \in Sessions, PeerLeaves(s) PROVE TimesOrdered'
  BY <1>20 DEF PeerLeaves, TimesOrdered, WithinDeadline, running, over, afterHandshake, afterRun, mpcTls, preprocessing, exchange
<1>21. CASE UNCHANGED vars
  BY <1>21 DEF vars, TimesOrdered, WithinDeadline, running, over, afterHandshake, afterRun, mpcTls, preprocessing, exchange
<1>22. ASSUME NEW s \in Sessions, Receive(s) PROVE TimesOrdered'
  BY <1>22 DEF Receive, TimesOrdered, WithinDeadline, running, over, afterHandshake, afterRun, mpcTls, preprocessing, exchange
<1>23. QED
  BY <1>1, <1>2, <1>3, <1>4, <1>5, <1>6, <1>7, <1>8, <1>9, <1>10, <1>11, <1>12, <1>13, <1>14, <1>15, <1>16, <1>17, <1>18, <1>19, <1>20, <1>21, <1>22 DEF Next, Stages, Timeouts

\* A session that is cut or fails has signed what it had before.
LEMMA ReturnSigned ==
    ASSUME TypeOK, SignedInTime, NEW s \in Sessions, NEW as \in {"cut", "failed"},
           running(s), Return(s, as), UNCHANGED <<times, wire, log>>
    PROVE  SignedInTime'
<1> SUFFICES ASSUME NEW u \in Sessions PROVE Signed(u)'
  BY DEF SignedInTime
<1> USE DEF TypeOK, times, wire
<1>1. UNCHANGED <<started, connTime, fetched, tAtt, sent, received, log>> /\ Signed(u)
  BY DEF SignedInTime
<1>2. CASE u # s
  <2>1. stage'[u] = stage[u] /\ outcome'[u] = outcome[u] /\ leftAt'[u] = leftAt[u]
    BY <1>2 DEF Return
  <2> QED BY <1>1, <2>1 DEF Signed, signed, over
<1>3. CASE u = s
  <2>1. stage'[u] = "returned" /\ outcome'[u] = as
    BY <1>3 DEF Return
  <2>2. leftAt'[u] = IF stage[u] \in mpcTls THEN "mpc" ELSE stage[u]
    BY <1>3 DEF Return
  <2>3. stage[u] = "close" => leftAt'[u] = "close"
    BY <2>2 DEF mpcTls, preprocessing
  <2>4. ~over(u) /\ outcome[u] = "none" /\ leftAt[u] = "none"
    BY <1>1, <1>3 DEF Signed, running, over, mpcTls, preprocessing, exchange
  <2>5. sent[u] # "none" => signed(u)
    BY DEF signed
  <2>6. signed(u)' => signed(u)
    BY <1>1, <2>1, <2>5 DEF signed
  <2>7. log[u] = "none" /\ (s \in received => sent[s] = "whole")
    BY <1>1, <1>3, <2>4 DEF Signed
  <2>8. sent[u] = "whole" => leftAt'[u] = "close"
    BY <1>1, <2>3, <2>4 DEF Signed
  <2> QED BY <1>1, <1>3, <2>1, <2>4, <2>6, <2>7, <2>8 DEF Signed, over
<1> QED BY <1>2, <1>3

\* An attestation is made from a running session.
LEMMA SignedStep == IInv /\ [Next]_vars => SignedInTime'
<1> SUFFICES ASSUME IInv, [Next]_vars PROVE SignedInTime'
  OBVIOUS
<1> USE TimeoutsAssumption DEF IInv, TypeOK, times, ending, wire
<1>1. CASE Tick
  BY <1>1 DEF Tick, SignedInTime, Signed, TimesOrdered, WithinDeadline, signed, running, over, afterHandshake, afterRun, mpcTls, preprocessing, exchange
<1>2. CASE Stop
  BY <1>2 DEF Stop, SignedInTime, Signed, TimesOrdered, WithinDeadline, signed, running, over, afterHandshake, afterRun, mpcTls, preprocessing, exchange
<1>3. ASSUME NEW s \in Sessions, Accept(s) PROVE SignedInTime'
  BY <1>3 DEF Accept, SignedInTime, Signed, TimesOrdered, WithinDeadline, signed, running, over, afterHandshake, afterRun, mpcTls, preprocessing, exchange
<1>4. ASSUME NEW s \in Sessions, Commit(s) PROVE SignedInTime'
  BY <1>4 DEF Commit, answers, Go, SignedInTime, Signed, TimesOrdered, WithinDeadline, signed, running, over, afterHandshake, afterRun, mpcTls, preprocessing, exchange
<1>5. ASSUME NEW s \in Sessions, AcceptMpc(s) PROVE SignedInTime'
  BY <1>5 DEF AcceptMpc, answers, Go, SignedInTime, Signed, TimesOrdered, WithinDeadline, signed, running, over, afterHandshake, afterRun, mpcTls, preprocessing, exchange
<1>6. ASSUME NEW s \in Sessions, Reject(s) PROVE SignedInTime'
  <2>1. running(s) /\ Return(s, "failed")
    BY <1>6 DEF Reject, running, mpcTls, preprocessing, exchange
  <2> QED BY <1>6, <2>1, ReturnSigned DEF Reject
<1>7. ASSUME NEW s \in Sessions, Handshake(s) PROVE SignedInTime'
  BY <1>7 DEF Handshake, answers, Go, SignedInTime, Signed, TimesOrdered, WithinDeadline, signed, running, over, afterHandshake, afterRun, mpcTls, preprocessing, exchange
<1>8. ASSUME NEW s \in Sessions, Run(s) PROVE SignedInTime'
  BY <1>8 DEF Run, answers, Go, SignedInTime, Signed, TimesOrdered, WithinDeadline, signed, running, over, afterHandshake, afterRun, mpcTls, preprocessing, exchange
<1>9. ASSUME NEW s \in Sessions, Verify(s) PROVE SignedInTime'
  BY <1>9 DEF Verify, answers, Go, SignedInTime, Signed, TimesOrdered, WithinDeadline, signed, running, over, afterHandshake, afterRun, mpcTls, preprocessing, exchange
<1>10. ASSUME NEW s \in Sessions, DriverEnds(s) PROVE SignedInTime'
  BY <1>10 DEF DriverEnds, SignedInTime, Signed, TimesOrdered, WithinDeadline, signed, running, over, afterHandshake, afterRun, mpcTls, preprocessing, exchange
<1>11. ASSUME NEW s \in Sessions, Join(s) PROVE SignedInTime'
  BY <1>11 DEF Join, Go, SignedInTime, Signed, TimesOrdered, WithinDeadline, signed, running, over, afterHandshake, afterRun, mpcTls, preprocessing, exchange
<1>12. ASSUME NEW s \in Sessions, Attest(s) PROVE SignedInTime'
  BY <1>12 DEF Attest, Go, SignedInTime, Signed, TimesOrdered, WithinDeadline, signed, running, over, afterHandshake, afterRun, mpcTls, preprocessing, exchange
<1>13. ASSUME NEW s \in Sessions, Write(s) PROVE SignedInTime'
  BY <1>13 DEF Write, Go, SignedInTime, Signed, TimesOrdered, WithinDeadline, signed, running, over, afterHandshake, afterRun, mpcTls, preprocessing, exchange
<1>14. ASSUME NEW s \in Sessions, Close(s) PROVE SignedInTime'
  BY <1>14 DEF Close, Return, dropDriver, SignedInTime, Signed, TimesOrdered, WithinDeadline, signed, running, over, afterHandshake, afterRun, mpcTls, preprocessing, exchange
<1>15. ASSUME NEW s \in Sessions, StageFails(s) PROVE SignedInTime'
  <2>1. running(s) /\ Return(s, "failed")
    BY <1>15 DEF StageFails, running, mpcTls, preprocessing, exchange
  <2> QED BY <1>15, <2>1, ReturnSigned DEF StageFails
<1>16. ASSUME NEW s \in Sessions, PreprocessTimeout(s) PROVE SignedInTime'
  <2>1. running(s) /\ Return(s, "cut")
    BY <1>16 DEF PreprocessTimeout, running, mpcTls, preprocessing, exchange
  <2> QED BY <1>16, <2>1, ReturnSigned DEF PreprocessTimeout
<1>17. ASSUME NEW s \in Sessions, SessionTimeout(s) PROVE SignedInTime'
  <2>1. running(s) /\ Return(s, "cut")
    BY <1>17 DEF SessionTimeout, running, mpcTls, preprocessing, exchange
  <2> QED BY <1>17, <2>1, ReturnSigned DEF SessionTimeout
<1>18. ASSUME NEW s \in Sessions, Log(s) PROVE SignedInTime'
  BY <1>18 DEF Log, SignedInTime, Signed, TimesOrdered, WithinDeadline, signed, running, over, afterHandshake, afterRun, mpcTls, preprocessing, exchange
<1>19. ASSUME NEW s \in Sessions, PeerStalls(s) PROVE SignedInTime'
  BY <1>19 DEF PeerStalls, SignedInTime, Signed, TimesOrdered, WithinDeadline, signed, running, over, afterHandshake, afterRun, mpcTls, preprocessing, exchange
<1>20. ASSUME NEW s \in Sessions, PeerLeaves(s) PROVE SignedInTime'
  BY <1>20 DEF PeerLeaves, SignedInTime, Signed, TimesOrdered, WithinDeadline, signed, running, over, afterHandshake, afterRun, mpcTls, preprocessing, exchange
<1>21. CASE UNCHANGED vars
  BY <1>21 DEF vars, SignedInTime, Signed, TimesOrdered, WithinDeadline, signed, running, over, afterHandshake, afterRun, mpcTls, preprocessing, exchange
<1>22. ASSUME NEW s \in Sessions, Receive(s) PROVE SignedInTime'
  BY <1>22 DEF Receive, SignedInTime, Signed, TimesOrdered, WithinDeadline, signed, running, over, afterHandshake, afterRun, mpcTls, preprocessing, exchange
<1>23. QED
  BY <1>1, <1>2, <1>3, <1>4, <1>5, <1>6, <1>7, <1>8, <1>9, <1>10, <1>11, <1>12, <1>13, <1>14, <1>15, <1>16, <1>17, <1>18, <1>19, <1>20, <1>21, <1>22 DEF Next, Stages, Timeouts

LEMMA Inductive == Spec => []IInv
<1>1. IInv /\ [Next]_vars => IInv'
  BY TypeStep, DeadlineStep, TimesStep, SignedStep DEF IInv
<1>2. QED
  BY InitIInv, <1>1, PTL DEF Spec

\* The state of the notary's sessions keeps its type (notarize, serve_mpc).
THEOREM TypeCorrect == Spec => []TypeOK
<1>1. IInv => TypeOK
  BY DEF IInv
<1>2. QED
  BY Inductive, <1>1, PTL

\* For every choice of the timeouts and of the tolerance, the time an attestation
\* carries is not before its response and within the bounds of check_times for a
\* session window of SESSION_TIMEOUT + TOLERANCE (notarize_session, check_times).
THEOREM AttestationTimes == Spec => []AttestedInTime
<1>1. IInv => AttestedInTime
  BY DEF IInv, SignedInTime, Signed, AttestedInTime
<1>2. QED
  BY Inductive, <1>1, PTL

\* For any timeouts and any prover, a session logged as attested has handed the whole
\* attestation to the socket, and a prover that has read one finds its session logged
\* as attested, or cut or failed while it closed the socket (serve_mpc,
\* notarize_session).
THEOREM LogIsRight == Spec => []LogTellsWhatWasSent
<1>1. IInv => LogTellsWhatWasSent
  <2> SUFFICES ASSUME IInv, NEW s \in Sessions
               PROVE  /\ log[s] = "attested" => sent[s] = "whole"
                      /\ s \in received => log[s] \in {"none", "attested"} \/ leftAt[s] = "close"
    BY DEF LogTellsWhatWasSent
  <2>1. log[s] \in {"none", outcome[s]} /\ (outcome[s] = "attested" => sent[s] = "whole")
    BY DEF IInv, SignedInTime, Signed
  <2>2. CASE stage[s] = "close"
    BY <2>1, <2>2 DEF IInv, SignedInTime, Signed, over
  <2>3. CASE stage[s] # "close"
    BY <2>1, <2>3 DEF IInv, SignedInTime, Signed
  <2> QED BY <2>1, <2>2, <2>3
<1>2. QED
  BY Inductive, <1>1, PTL

\* What is behind OnlyTheJoinLeavesADriver: a session that has not begun has no driver
\* yet, and one that exchanges the request for the attestation has none any more.
DriverOwned ==
    \A s \in Sessions :
        /\ stage[s] = "idle" => driver[s] = "none"
        /\ stage[s] \in exchange => driver[s] = "ended"

\* Every return but the one from the join takes the driver with it: the guard
\* aborts it, the join fails only when the driver has, and after it there is none.
LEMMA DriverStep ==
    IInv /\ DriverOwned /\ OnlyTheJoinLeavesADriver /\ [Next]_vars
        => DriverOwned' /\ OnlyTheJoinLeavesADriver'
<1> DEFINE Inv == DriverOwned /\ OnlyTheJoinLeavesADriver
<1> SUFFICES ASSUME IInv, Inv, [Next]_vars PROVE Inv'
  OBVIOUS
<1>0. /\ stage \in [Sessions -> {"idle", "join", "returned", "logged"} \cup mpcTls \cup exchange]
      /\ outcome \in [Sessions -> {"none", "attested", "cut", "failed"}]
      /\ driver \in [Sessions -> {"none", "running", "ended", "failed", "aborted"}]
      /\ leftAt \in [Sessions -> {"none", "mpc", "join"} \cup exchange]
  BY DEF IInv, TypeOK
<1> USE <1>0
    DEF DriverOwned, OnlyTheJoinLeavesADriver, over, running,
        mpcTls, preprocessing, exchange, times, ending, wire
<1>1. CASE Tick
  BY <1>1 DEF Tick
<1>2. CASE Stop
  BY <1>2 DEF Stop
<1>3. ASSUME NEW s \in Sessions, Accept(s) PROVE Inv'
  BY <1>3 DEF Accept
<1>4. ASSUME NEW s \in Sessions, Commit(s) PROVE Inv'
  BY <1>4 DEF Commit, answers, Go
<1>5. ASSUME NEW s \in Sessions, AcceptMpc(s) PROVE Inv'
  BY <1>5 DEF AcceptMpc, answers, Go
<1>6. ASSUME NEW s \in Sessions, Reject(s) PROVE Inv'
  BY <1>6 DEF Reject, answers, Return, dropDriver
<1>7. ASSUME NEW s \in Sessions, Handshake(s) PROVE Inv'
  BY <1>7 DEF Handshake, answers, Go
<1>8. ASSUME NEW s \in Sessions, Run(s) PROVE Inv'
  BY <1>8 DEF Run, answers, Go
<1>9. ASSUME NEW s \in Sessions, Verify(s) PROVE Inv'
  BY <1>9 DEF Verify, answers, Go
<1>10. ASSUME NEW s \in Sessions, DriverEnds(s) PROVE Inv'
  BY <1>10 DEF DriverEnds
<1>11. ASSUME NEW s \in Sessions, Join(s) PROVE Inv'
  BY <1>11 DEF Join, Go
<1>12. ASSUME NEW s \in Sessions, Attest(s) PROVE Inv'
  BY <1>12 DEF Attest, Go
<1>13. ASSUME NEW s \in Sessions, Write(s) PROVE Inv'
  BY <1>13 DEF Write, Go
<1>14. ASSUME NEW s \in Sessions, Close(s) PROVE Inv'
  BY <1>14 DEF Close, Return, dropDriver
<1>15. ASSUME NEW s \in Sessions, StageFails(s) PROVE Inv'
  BY <1>15 DEF StageFails, Return, dropDriver
<1>16. ASSUME NEW s \in Sessions, PreprocessTimeout(s) PROVE Inv'
  BY <1>16 DEF PreprocessTimeout, Return, dropDriver
<1>17. ASSUME NEW s \in Sessions, SessionTimeout(s) PROVE Inv'
  BY <1>17 DEF SessionTimeout, Return, dropDriver
<1>18. ASSUME NEW s \in Sessions, Log(s) PROVE Inv'
  BY <1>18 DEF Log
<1>19. ASSUME NEW s \in Sessions, PeerStalls(s) PROVE Inv'
  BY <1>19 DEF PeerStalls
<1>20. ASSUME NEW s \in Sessions, PeerLeaves(s) PROVE Inv'
  BY <1>20 DEF PeerLeaves
<1>21. CASE UNCHANGED vars
  BY <1>21 DEF vars
<1>22. ASSUME NEW s \in Sessions, Receive(s) PROVE Inv'
  BY <1>22 DEF Receive
<1>23. QED
  BY <1>1, <1>2, <1>3, <1>4, <1>5, <1>6, <1>7, <1>8, <1>9, <1>10, <1>11, <1>12, <1>13, <1>14, <1>15, <1>16, <1>17, <1>18, <1>19, <1>20, <1>21, <1>22
     DEF Next, Stages, Timeouts

\* A session that returned leaves no driver running, for any timeouts, but for one
\* that was cut in the stage in which it joins the driver (DriverGuard).
THEOREM DriversAreDropped == Spec => []OnlyTheJoinLeavesADriver
<1>1. Init => DriverOwned /\ OnlyTheJoinLeavesADriver
  BY DEF Init, DriverOwned, OnlyTheJoinLeavesADriver, over, exchange
<1>2. QED
  BY Inductive, DriverStep, <1>1, PTL DEF Spec
=============================================================================
