--------------------------- MODULE ProverSession ---------------------------
(***************************************************************************)
(* One notarisation as the prover runs it:                                 *)
(* offchain/crates/pprev-prover/src/session.rs, notarize_shape within      *)
(* with_retries, and the notary at the other end of the connection as      *)
(* offchain/crates/pprev-notary/src/session.rs behaves towards it.         *)
(*                                                                         *)
(* An attempt has two concurrent parts: the MPC-TLS future (run_mpc) and   *)
(* the task that drives the connection.  The notary may cut the connection *)
(* at any time, and the cut reaches the two parts in either order, as one  *)
(* of several errors, or reaches the first of them never.  The prover must *)
(* tell a cut before anything reached the registry, which it retries, from *)
(* every other failure, which it does not.                                 *)
(*                                                                         *)
(* An error is its class: "stalled" (PreprocessingStalled), "closure" (it  *)
(* shows the connection closing), "lossy" (tlsn's internal error) and      *)
(* "final" (any other).  A timer may fire whenever it runs, except where   *)
(* PromptDriver says that the driver task sees a closed connection within  *)
(* CUT_GRACE.                                                              *)
(***************************************************************************)
EXTENDS Naturals

CONSTANTS
    MaxRetries,      \* max_retries of with_retries
    PromptDriver     \* whether a closed connection ends the driver in CUT_GRACE

ASSUME RetriesAssumption == MaxRetries \in Nat /\ PromptDriver \in BOOLEAN

VARIABLES
    result,          \* of with_retries
    attempts,        \* stats.attempts
    phase,           \* where notarize_shape is
    mpc,             \* the run_mpc future: its step, or the class of its error
    preprocessed,    \* the flag shared by run_mpc and notarize_shape
    driver,          \* the driver task, or how it ended
    conn,            \* whether the notary holds the connection open
    contacted,       \* the attempts that reached the registry
    faults           \* what went wrong in this attempt, beside a cut

vars == <<result, attempts, phase, mpc, preprocessed, driver, conn, contacted, faults>>

Errors  == {"stalled", "closure", "lossy", "final"}
running == {"preprocessing", "preprocessed", "registry"}

TypeOK ==
    /\ result \in {"pending", "notarized", "gaveUp", "failed"}
    /\ attempts \in 0..(MaxRetries + 1)
    /\ phase \in {"connect", "select", "graceDriver", "graceMpc", "join", "exchange", "done"}
    /\ mpc \in running \cup {"ok"} \cup Errors
    /\ preprocessed \in BOOLEAN
    /\ driver \in {"running", "clean", "closure", "failed"}
    /\ conn \in {"open", "closed"}
    /\ contacted \subseteq 0..(MaxRetries + 1)
    /\ faults \subseteq {"driver", "internal", "final"}

Init ==
    /\ result = "pending" /\ attempts = 0 /\ phase = "connect"
    /\ mpc = "preprocessing" /\ preprocessed = FALSE
    /\ driver = "running" /\ conn = "open"
    /\ contacted = {} /\ faults = {}

attemptVars == <<mpc, preprocessed, driver, conn, faults>>

-----------------------------------------------------------------------------
(* What an attempt comes to. *)

\* The driver's end shows a closed connection.
closure(ended) == ended \in {"clean", "closure"}

\* Mutant of decide: a closed connection makes every failure a stall.
decideByDriver(failed, ended) ==
    CASE ended = "failed"                       -> "final"
      [] ended # "failed" /\ failed = "final"   -> IF closure(ended) THEN "stall" ELSE "final"
      [] ended # "failed" /\ failed = "closure" -> "stall"
      [] ended # "failed" /\ failed \in {"lossy", "none"} ->
             IF closure(ended) THEN "stall" ELSE "final"

\* The driver's end, or "none" when it was not seen; the prover's failure, or
\* "none".
decide(failed, ended) ==
    CASE ended = "failed"                      -> "final"
      [] ended # "failed" /\ failed = "final"   -> "final"
      [] ended # "failed" /\ failed = "closure" -> "stall"
      [] ended # "failed" /\ failed \in {"lossy", "none"} ->
             IF closure(ended) THEN "stall" ELSE "final"

\* Mutant of after_driver_end: the phase is not read again after the wait.
afterDriverEndReadOnce(outcome, ended) ==
    CASE outcome \in running -> decide("none", ended)
      [] outcome = "ok" -> "final"
      [] outcome = "stalled" -> IF closure(ended) THEN "stall" ELSE "final"
      [] outcome \in {"closure", "lossy", "final"} -> decide(outcome, ended)

\* The wait for the prover is over: it failed with an error, finished, or is
\* still running when the grace ends.
after_driver_end(outcome, ended) ==
    IF preprocessed THEN "final"
    ELSE CASE outcome \in running -> decide("none", ended)
           [] outcome = "ok" -> "final"
           [] outcome = "stalled" -> IF closure(ended) THEN "stall" ELSE "final"
           [] outcome \in {"closure", "lossy", "final"} -> decide(outcome, ended)

exhausted == attempts > MaxRetries

\* with_retries: a stall is retried up to the limit, all else ends the run.
EndAttempt(verdict) ==
    /\ CASE verdict = "stall" /\ ~exhausted -> result' = result /\ phase' = "connect"
         [] verdict = "stall" /\ exhausted  -> result' = "gaveUp" /\ phase' = "done"
         [] verdict = "final"               -> result' = "failed" /\ phase' = "done"
         [] verdict = "ok"                  -> result' = "notarized" /\ phase' = "done"
    /\ UNCHANGED <<attempts, attemptVars, contacted>>

-----------------------------------------------------------------------------
(* with_retries opens a connection. *)

Connect ==
    /\ phase = "connect"
    /\ attempts' = attempts + 1
    /\ phase' = "select"
    /\ mpc' = "preprocessing" /\ preprocessed' = FALSE
    /\ driver' = "running" /\ conn' = "open" /\ faults' = {}
    /\ UNCHANGED <<result, contacted>>

ConnectFails ==
    /\ phase = "connect"
    /\ attempts' = attempts + 1
    /\ result' = "failed" /\ phase' = "done"
    /\ UNCHANGED <<attemptVars, contacted>>

-----------------------------------------------------------------------------
(* The connection, the notary and the driver task. *)

Session == phase \notin {"connect", "done"}

\* The notary drops the session: a timeout of its own, an error, or a crash.
NotaryCuts ==
    /\ Session /\ conn = "open"
    /\ conn' = "closed"
    /\ UNCHANGED <<result, attempts, phase, mpc, preprocessed, driver, contacted, faults>>

\* A closed connection ends the driver, cleanly or with an error that says so;
\* after handle.close() it ends cleanly when the notary has closed too.
DriverEnds ==
    /\ Session /\ driver = "running"
    /\ \/ conn = "closed" /\ driver' \in {"clean", "closure"}
       \/ conn = "open" /\ phase = "join" /\ driver' = "clean"
    /\ UNCHANGED <<result, attempts, phase, mpc, preprocessed, conn, contacted, faults>>

\* The driver panics or meets a protocol error.
DriverFails ==
    /\ Session /\ driver = "running" /\ phase # "exchange"
    /\ driver' = "failed"
    /\ faults' = faults \cup {"driver"}
    /\ UNCHANGED <<result, attempts, phase, mpc, preprocessed, conn, contacted>>

-----------------------------------------------------------------------------
(* The MPC-TLS future, while notarize_shape polls it. *)

Polled == phase \in {"select", "graceMpc"} /\ mpc \in running

FinishPreprocessing ==
    /\ Polled /\ mpc = "preprocessing"
    /\ mpc' = "preprocessed" /\ preprocessed' = TRUE
    /\ UNCHANGED <<result, attempts, phase, driver, conn, contacted, faults>>

ContactRegistry ==
    /\ Polled /\ mpc = "preprocessed"
    /\ mpc' = "registry" /\ contacted' = contacted \cup {attempts}
    /\ UNCHANGED <<result, attempts, phase, preprocessed, driver, conn, faults>>

FinishMpc ==
    /\ Polled /\ mpc = "registry"
    /\ mpc' = "ok"
    /\ UNCHANGED <<result, attempts, phase, preprocessed, driver, conn, contacted, faults>>

PreprocessTimeout ==
    /\ Polled /\ mpc = "preprocessing"
    /\ mpc' = "stalled"
    /\ UNCHANGED <<result, attempts, phase, preprocessed, driver, conn, contacted, faults>>

\* The loss of the connection shows as a closure or as an internal error.
MpcSeesLoss ==
    /\ Polled /\ (conn = "closed" \/ driver = "failed")
    /\ mpc' \in {"closure", "lossy"}
    /\ UNCHANGED <<result, attempts, phase, preprocessed, driver, conn, contacted, faults>>

\* A rejection, an error of the configuration or the registry, an internal one.
MpcFails ==
    /\ Polled
    /\ \/ mpc' = "final" /\ faults' = faults \cup {"final"}
       \/ mpc' = "lossy" /\ faults' = faults \cup {"internal"}
    /\ UNCHANGED <<result, attempts, phase, preprocessed, driver, conn, contacted>>

-----------------------------------------------------------------------------
(* notarize_shape: a biased select of the future over the driver. *)

To(next) == phase' = next /\ UNCHANGED <<result, attempts, attemptVars, contacted>>

SelectOk == phase = "select" /\ mpc = "ok" /\ To("join")

\* Mutant of SelectFailed: an ambiguous failure is decided without the driver.
SelectFailedAtOnce ==
    /\ phase = "select" /\ mpc \in Errors
    /\ \/ mpc = "stalled" /\ EndAttempt("stall")
       \/ mpc # "stalled" /\ preprocessed /\ EndAttempt("final")
       \/ mpc # "stalled" /\ ~preprocessed /\ EndAttempt(decide(mpc, "none"))

\* Mutant of SelectFailed: the flag is not asked, only the error.
SelectFailedByError ==
    /\ phase = "select" /\ mpc \in Errors
    /\ \/ mpc = "stalled" /\ EndAttempt("stall")
       \/ mpc \in {"final", "closure"} /\ EndAttempt(decide(mpc, "none"))
       \/ mpc = "lossy" /\ To("graceDriver")

SelectFailed ==
    /\ phase = "select" /\ mpc \in Errors
    /\ \/ mpc = "stalled" /\ EndAttempt("stall")
       \/ mpc # "stalled" /\ preprocessed /\ EndAttempt("final")
       \/ mpc \in {"final", "closure"} /\ ~preprocessed /\ EndAttempt(decide(mpc, "none"))
       \/ mpc = "lossy" /\ ~preprocessed /\ To("graceDriver")

\* Mutant of SelectDriver: the driver's end is not looked at once preprocessed.
SelectDriverBefore ==
    /\ phase = "select" /\ mpc \in running /\ driver # "running"
    /\ ~preprocessed /\ To("graceMpc")

SelectDriver ==
    /\ phase = "select" /\ mpc \in running /\ driver # "running"
    /\ \/ preprocessed /\ EndAttempt("final")
       \/ ~preprocessed /\ To("graceMpc")

GraceDriverEnds ==
    /\ phase = "graceDriver" /\ driver # "running"
    /\ EndAttempt(decide("lossy", driver))

GraceDriverExpires ==
    /\ phase = "graceDriver" /\ driver = "running"
    /\ PromptDriver => conn = "open"
    /\ EndAttempt(decide("lossy", "none"))

\* The future completed within the grace, or the grace ran out on it.
GraceMpcOver ==
    /\ phase = "graceMpc"
    /\ EndAttempt(after_driver_end(mpc, driver))

\* handle.close() and the join of the driver, which gives the socket back.
Join ==
    /\ phase = "join" /\ driver # "running"
    /\ \/ driver = "clean" /\ To("exchange")
       \/ driver # "clean" /\ EndAttempt("final")

\* The request is sent; the notary answers with the attestation and closes.
Attested ==
    /\ phase = "exchange" /\ conn = "open"
    /\ EndAttempt("ok")

\* The connection ends without one, or the attestation is not valid.
NotAttested ==
    /\ phase = "exchange"
    /\ EndAttempt("final")

-----------------------------------------------------------------------------
Decisions ==
    \/ SelectOk \/ SelectFailed \/ SelectDriver
    \/ GraceDriverEnds \/ GraceDriverExpires \/ GraceMpcOver
    \/ Join \/ Attested \/ NotAttested

Next ==
    \/ Connect \/ ConnectFails
    \/ NotaryCuts \/ DriverEnds \/ DriverFails
    \/ FinishPreprocessing \/ ContactRegistry \/ FinishMpc
    \/ PreprocessTimeout \/ MpcSeesLoss \/ MpcFails
    \/ SelectOk \/ SelectFailed \/ SelectDriver
    \/ GraceDriverEnds \/ GraceDriverExpires \/ GraceMpcOver
    \/ Join \/ Attested \/ NotAttested

Spec == Init /\ [][Next]_vars

\* What is ready is polled, a connection is opened or refused, a closed
\* connection ends the driver, and the notary's session timeout cuts every
\* session that lasts.  Nothing makes the MPC-TLS future itself progress.
FairSpec ==
    /\ Spec
    /\ WF_vars(Decisions \/ Connect \/ ConnectFails)
    /\ WF_vars(DriverEnds) /\ WF_vars(NotaryCuts)

-----------------------------------------------------------------------------
(* Properties. *)

\* Only the last attempt has reached the registry: an attempt that did is never
\* followed by another, although the flag is set and the driver ends at any
\* moment (notarize_shape, "nothing has reached the registry").
RegistryReachedOnce == contacted \subseteq {attempts}

\* A run fails for good before preprocessing, and nothing but a cut went wrong.
FailsUnprovoked ==
    /\ phase \in {"select", "graceDriver", "graceMpc"} /\ ~preprocessed
    /\ faults = {} /\ result' = "failed"

\* A cut before preprocessing is retried whichever part of the session sees it
\* first and however it shows: a run that fails for good there had another
\* fault, or could not connect (the test a_cut_before_preprocessing_is_a_stall_
\* whichever_side_observes_it repeats one schedule of this 50 times).
CutIsRetried == [][~FailsUnprovoked]_vars

\* Another attempt begins.
Retries == phase # "connect" /\ phase' = "connect"

\* What is final is not retried.  A final failure of the prover (a rejection, a
\* wrong configuration) never is, although the driver shows the connection closing
\* at about the same time (decide, "A final failure stays final whatever the driver
\* did").  Nor is a driver that failed, wherever notarize_shape looks at it, also
\* after either grace: only where the biased select takes a future that is ready
\* with a stall or a closure is the driver left unseen.
FinalStaysFinal ==
    [][Retries => /\ mpc # "final"
                  /\ driver = "failed" => phase = "select" /\ mpc \in {"stalled", "closure"}]_vars

\* What the properties above rest on.  The flag tells how far the future came;
\* only an attempt whose flag is set has reached the registry, and a session
\* that waits for its driver, or that is to be retried, has not set it; and
\* each way an attempt can look cut has the cut, or a fault, behind it.
SInv ==
    /\ TypeOK
    /\ phase # "done" => result = "pending"
    /\ mpc \in {"preprocessing", "stalled"} => ~preprocessed
    /\ mpc \in {"preprocessed", "registry", "ok"} => preprocessed
    /\ contacted # {} => contacted = {attempts} /\ preprocessed
    /\ phase = "connect" => contacted = {} /\ attempts <= MaxRetries
    /\ phase = "graceDriver" => mpc = "lossy" /\ ~preprocessed
    /\ phase = "graceMpc" => driver # "running"
    /\ driver = "failed" => "driver" \in faults
    /\ mpc = "final" => "final" \in faults
    /\ mpc = "lossy" => conn = "closed" \/ faults # {}
=============================================================================
