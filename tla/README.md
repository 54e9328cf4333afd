# PPREV in TLA+

A verification development for the PPREV prototype: an escrow contract, the notary that signs the
statements it accepts, the prover that obtains those signatures, and the registry whose records
they are about. The modules are TLA+, checked
with TLC on small instances and, where it matters most, proved with TLAPS for every value of the
constants. `PROJECT.json` maps each definition to the lines it models.

## The system

A property owner registers a listing with collateral; an applicant applies with a deposit; the
owner engages one application, which locks the listing for a time; the engagement is then settled
by the owner, or it expires. Register, Apply and Settle each need an attestation: a party runs a
TLSNotary session with a registry, proves a predicate over the hidden record, and a notary signs
one statement that binds the result to one transaction. The contract checks the signature, its
nonce and its age.

| Part | State | Operations | Interacts with |
|---|---|---|---|
| escrow contract (`contracts/src/PPREV.sol`) | listings, applications, engagements, consumed nonces, credits, balance | registerPolicy, setNotaryVerifier, register, applyFor, engage, settle, expire, reclaim, cancel, withdraw | pays recipients, whose code may call it again; asks the notary verifier |
| notary verifier contract (`EcdsaNotaryVerifier.sol`) | one key | verify | called by the contract |
| policy verifier (`pprev-notary`: `register.rs`, `phases.rs`, `bin/pprev-notary.rs`) | policies, keys, one lock | sign for Register, Apply, Settle | clients over TCP; the nonce record |
| nonce record (`nonces.rs`) | a file and the set read from it | open, contains, record | the file system |
| presentation checks (`presentation.rs`) | none | check_presentation, check_shape, check_times | called by the policy verifier |
| notary session (`pprev-notary/src/session.rs`) | one MPC-TLS session | notarize | the prover, over one connection |
| prover session (`pprev-prover/src/session.rs`) | one attempt, a retry counter | notarize_shape, with_retries | the notary, the registry, a driver task |
| prover runs (`main.rs`, `register.rs`, `phases.rs`, `chain.rs`) | `payload.json` and `record.json` of an output directory | register, apply, engage, settle, the submits | the registry, the notary, the chain; each other through files |
| mock registry (`mock-registry`) and login (`login.rs`) | tokens, the log of responses, connections | start, read, route, login, record, drop | provers over TCP |
| record layouts (`layout.rs`, `record.rs`) | none | load, validate, render, shape | registry, prover, notary and circuit each derive ranges from them |
| circuits and their inputs (`circuits/src`, `circuit.rs`, `groth16.rs`) | none | witness, public inputs, verification | prover and policy verifier |
| calendar (`calendar.rs`, `date.circom`, `mock.rs`) | none | days to dates, engagement day | Settle, in three places |
| emulated link (`netem.rs`) | two bounded queues | pump, serve | stands between prover and notary |
| baseline verifiers, experiments, scripts | none that lasts | measurements | |

What is hard here: payouts that hand control to other contracts in the middle of a call; rounds of
engagements over one listing, with records of earlier rounds still there; time windows that meet at
one instant; signatures that are delayed, repeated or sent by somebody else; crashes between
recording a nonce and signing with it, with writes that reach the disk late or in part; a
session whose end reaches two concurrent parts of the prover, and of the notary, in any order;
commands that are killed between sending a transaction and writing down what became of it; and
data that nobody but the prover sees, of which registry, prover, circuit and notary each compute
positions, dates and numbers on their own. `PROJECT.json` lists
these as hazards, each at its line.

What makes each part correct:

- *contract*: it holds what it owes at every instant, also inside a payout; nobody's wealth changes
  but by a settled or an expired engagement of theirs; at most one engagement of a listing is open;
  a lock always ends, and everything can leave;
- *policy verifier and nonce record*: no nonce is signed twice, over crashes; what is signed was
  checked; every request is answered;
- *prover session*: what has reached the registry is not tried again; a lost connection before that
  is retried; every run ends;
- *notary session*: it ends within its time whatever the prover does, its attested time is one the
  policy verifier will take, and the log says attested only where all of the attestation was handed to
  the socket;
- *prover runs*: files say what is on the chain and no more, no payload pays twice, and what is
  needed to settle is on disk before anything depends on it;
- *registry*: a record goes to the account that logged in, and every request is answered;
- *layouts, circuits, calendar*: all readers agree on where a value is and what it means, so that
  what is signed is true of the registry's record;
- *emulated link*: it neither loses nor reorders, keeps its bounds, is no faster than it should be,
  and its reader and writer do not wait for each other for ever.

## Modules

| Module | What it is |
|---|---|
| `PPREV` | the contract, one action per external function |
| `MCPPREV` | its constants for TLC |
| `PPREVProofs` | lock discipline, consistent records, no stale settlement; solvency and agreed transfers only; for `AttestedPPREV`, that it implements `PPREV`, and a recent signature for each record |
| `NotarySigner` | the abstract notary: a set of signed statements, one per nonce |
| `NonceStore` | the file of used nonces: lines, a torn tail, how much is synced |
| `PolicyVerifier` | the signing service over `NonceStore`; implements `NotarySigner` |
| `MCPolicyVerifier` | its constants for TLC |
| `PolicyVerifierProofs` | no nonce signed twice, restart remembers, refinement, signed times |
| `AttestedPPREV` | the contract composed with one `NotarySigner` per verifier contract |
| `MCAttestedPPREV` | its constants for TLC |
| `ProverSession` | notarize_shape and with_retries, and the notary as they see it |
| `ProverSessionProofs` | one attempt reaches the registry; what is and is not retried; for `Notarisation`, both refinements and the last attempt |
| `NetemLink` | one connection of the emulated link: two pumps, each a reader and a writer |
| `MCNetemLink` | its constants for TLC |
| `NetemLinkProofs` | order, bound and rate of the link |
| `NotarySession` | the notary's sessions with their two timeouts, driver and log |
| `NotarySessionProofs` | times of an attestation, what the log says of it, the driver |
| `Notarisation` | `ProverSession` and `NotarySession` at the two ends of a connection |
| `ProverRun` | the prover's commands, their files and the transactions they send |
| `ProverRunProofs` | what is in the files, and what the commands leave on the chain |
| `MCProverRun` | its constants for TLC |
| `Registry` | the registry's connections, login and records |
| `MCRegistry` | its constants for TLC |
| `RegistryProofs` | answers, owners of tokens and records, the log |
| `Layout` | layout files, rendering, and the ranges derived from a layout |
| `Evidence` | over `Layout`: from a record to a signature, through commitments and circuits |
| `EvidenceProofs` | layouts and evidence for every layout, record and claim; the day arithmetic, the circuit's dates and the rule of Settle for every day |
| `MCEvidence` | layouts, records and claims for TLC |
| `Calendar` | the three computations of dates, along a walk through a reference calendar |
| `MCCalendar` | its constants for TLC |

### The contract: `PPREV`

A call that fails one of its conditions reverts, which is no step. A call that passes makes all its
assignments in one action and pushes its payouts, in the contract's order, onto `stack`. The first
payout is then delivered (`PayoutDelivered`: the recipient has the money and its code runs, and may
call anything), or fails and is credited (`PayoutCredited`); `RecipientReturns` ends the recipient's
code. So any call can come between two payouts of another, to a depth of `MaxStack` suspended
payouts. PAYOUT_GAS is not modelled: a recipient may do more here than the 30,000 gas allow.
`withdraw` sends with all gas and reverts, to no effect, when its call fails; the recipient's code
then runs as after a payout.

Hashes and signatures are symbolic: a commitment is the tuple it commits to, a signature the
statement and the verifier whose key made it. In `PPREV` every statement is signed for whoever
asks; so what is shown of the escrow does not rest on the notary. `AttestedPPREV` restricts the
signatures to those issued.

Amounts are naturals: 256-bit overflow cannot occur while the total of ether stays below 2^256 and
shares are at most 10,000 basis points. `wallet` is what an address owns outside the contract; it
bounds what may be paid in and lets `OnlyAgreedTransfers` speak of wealth.

### The notary: `NonceStore`, `PolicyVerifier`, `NotarySigner`

The file is a sequence of terminated lines, the digits after the last newline, and the number of
lines that `sync_data` has made durable. `record` is a digit at a time, then the newline, then the
sync with the insertion into `seen`: `writeln!` on a file is unbuffered and may stop anywhere. A
step can fail (`recordFails`), the process can end (`kill`: the page cache survives) and the machine
can go down (`powerLoss`: what is not synced survives up to any point). A nonce has two digits
in the runs, and the two nonces share digits, so that a torn line can spell another nonce.

`PolicyVerifier` has handlers that wait for one lock. The holder checks (`Accept`, `Refuse`),
records and signs. Requests are records of what the checks compare; a presentation is genuine or
not, a proof is for one statement and one session. Restarting runs `open`, which may fail.

Assumptions taken about the outside: one notary process per file; `sync_data` makes the file's
bytes so far durable, and the file's directory entry is durable from its first sync on; bytes that
were not synced may be lost from the end only.

### The prover: `ProverSession`

An attempt has a future (`mpc`) and a driver task; `notarize_shape` is a phase: the biased select,
the wait for the driver (`graceDriver`), the wait for the future (`graceMpc`), the join of the
driver, the exchange of request and attestation. Errors are the classes of `failure_of`. A cut may
come at any time and shows in the driver and in the future in either order; the future may also
hang for ever. `faults` records what went wrong beside a cut, which is what `CutIsRetried` needs.

### The emulated link: `NetemLink`

A byte is its position in the stream of its direction, so a chunk is a range and order and loss
show in the numbers. Reader and writer of a pump share the queue, the semaphore `room` and the one
stored notification `ready`; both run in one task, so an action is what runs between two awaits.
The reader holds what it has read (`readTo` beyond `pushed`) while it waits for room. Either end may
send, half-close and reset at any time; an error ends both directions, as `try_join!` does. Time to
put a byte on the link is PER_BYTE, 0 for no bandwidth limit; a zero bandwidth, which `validate`
refuses, has no PER_BYTE. A write is one step: bytes of a `write_all` that fails are not counted by
the code either. MAX_QUEUE is the 1 GiB of `validate`, small in the runs.

### The notary's session: `NotarySession`

A session is a task whose stage is what it awaits; the driver is a second task, which owns the
socket until it is joined. The prover goes on, stalls for ever or leaves, at any stage. Both
timeouts fire at their deadline, before the clock goes on; what is ready at the same instant may
still win. `Return` is the end of `notarize`, which drops the guard of the driver: the guard aborts
the driver unless `join` has emptied it (`dropDriver`). The prover's clock is within TOLERANCE of
the notary's at the handshake: tlsn refuses the connection otherwise.

Handing the attestation to the socket and its reading by the prover are different steps. `write_all`
and `close` return when the socket has taken the bytes, so `Write` and `Close` do not ask what has become of
the prover: `sent` is what the socket has taken, a part or all, and `Receive`, the prover's own
step, may come after the session and the notary have ended, or never. The log can therefore differ
from what the prover has in both directions. A session is logged as attested although its prover stalled or
left and never reads the attestation (`session.rs:216`), and one that is cut or fails in the close is
logged so although the prover reads it. `LogTellsWhatWasSent` says that there is no more to it than
that: logged as attested is all handed over, and whoever holds an attestation is logged as attested but
for the second case. Over TCP the close does not wait, so that case needs another stream than the binary's;
`notarize` takes any. In the same way the prover's request can be read after the prover has gone (`Attest`).

`leftAt` is history: the stage from which `notarize` returned, with the stages of MPC-TLS taken as
one. `OnlyTheJoinLeavesADriver` is stated on it: a driver that runs after its session is one of a session
that was cut in "join". `AttestedInTime` bounds the attested time by the session
timeout and the tolerance; the default `max_session_secs`, 120, is the session timeout itself, so a
session of full length by a prover with a slow clock can be refused for up to the tolerance.

### Prover and notary together: `Notarisation`

Every attempt of the prover is a session of one notary. The connection that the prover sees is the
socket that a task of the notary holds, so `NotaryCuts` is no longer a step of its own: a connection
closes because of one of the notary's timeouts or errors, because it is done, or because it stops.
A prover whose attempt is over drops its guard, and its notary finds it gone (`Hangup`). Once all of
an attestation was sent, the connection is open to the prover until it has read it (`Reads`) or the read
fails, whatever has become of the notary. A stage of the notary
goes on only with what the future has come to, and the future only with the notary's stage; that one
half of MPC-TLS completes a step only when the other has begun it is tlsn's. The prover of this
composition asks for MPC-TLS and is not killed; other provers are `NotarySession`'s.

`ImplementsProver` is the refinement: with the notary's clock and timers in the place of the
assumption that the notary cuts what lasts, all steps and all fairness of `ProverSession` hold.
There is one thing it needs of the prover, which `ProverSession` does not: a notary cut while it joins its
driver leaves the driver and the connection behind, so nothing but the prover's own end of
`run_mpc` (`FinishLocally`, local once the notary has verified) ends the attempt. Without fairness of that
step TLC finds a prover that waits for ever.

### The prover's commands: `ProverRun`

A command is a process with a program counter: attest, sign, write `payload.json`, send, wait for the
receipt, write `record.json`. Commands meet in files and on the chain only. A later command is
pointed at any file that is there; nothing but the contract relates the three files that `settle`
reads. A run can err, be killed (with the file it writes cut short), lose the notary's reply or the
node's answer; a transaction that was sent outlives its run. `eta`, `r` and the salt are random in
the code and are the number of the run here. The contract is what a run meets of it: without
times and amounts, but it may refuse any attested call as stale; others reclaim, expire
and cancel.

A run whose receipt was lost leaves a listing or an application on the chain that no later command
can pick up, since `record.json` has no event; only the opening is kept (`OpeningKept`), and only
with an output directory of its own (`own`): a second apply into a shared directory overwrites it.

### The registry: `Registry`

Each connection is a task: read in pieces until the request is whole, route, log, write, close. The
token table and the log are shared, each with a lock of its own, so routing and logging are two
steps. A token is 32 random bytes, here a number that only its owner presents. Fixtures have
a length, because whether they all render is decided at start, for every account.

### Layouts: `Layout`

A response is a sequence of bytes, put together from literals, keys and padded values as the code
does; names of keys are one byte and the fixed lines of the head another. `shapeOf` is what a reader
derives from an empty record. Layout files that are refused and values that do not fit are
there too. `ReadersAgree` has a part for each reader: by range, by quotes, by stride, by key. The padding byte is taken not to be a quote, which `validate` does not test: with
such a file `QuotesStay` would fail, and no layout of the repository has one.

### Evidence: `Evidence`

One exchange with a registry: a layout and a record, the response, an attestation over the ranges
the prover chose (the layout's or others), a proof for any claim for which the circuit has a
witness, and the policy verifier's decision. Field arithmetic is modulo a small prime R, comparators
wrap as circomlib's do, words have two limbs of two bytes and dates one digit (the real dates are
`Calendar`'s). A commitment is the bytes it hides. The mock notary's predicates stand beside the
circuits'. `SignedIsTrue` has a part for each phase, and one for the mock. `EvidenceAssumption` says what the
configuration of the repository has and the code does not test: the policy names valid layouts of the
right kind, of which the records do not pad with a digit (an income of `12` in four characters would read as
`1200`); one path prefix serves one kind of record in one padding; a title is asked for by its identifier.
The field is large enough for a word less one byte.

### Dates: `Calendar`

The specification is a walk from day to day that knows only the lengths of the months. Beside it
stand `civil_from_days` with `engagement_day`, the circuit's `CalendarDate` with its comparators and
the mock notary's `days_from_civil`. A day has 24 units in the run, for TLC's integers.

## Runs

| Run | Instance | Shows |
|---|---|---|
| `escrow` | 3 addresses, 1 listing (another is beyond the limit of its share), 2 applications and engagements, 4 nonces, time to 4, 2 nested payouts | solvency, records, locks, the pending index, no stale settlement, no transfer that was not agreed |
| `escrow_liveness` | 2 addresses, 2 rounds, 2 verifiers, fair exits | locks end, everything leaves |
| `attested` | 2 verifiers, 3 signatures, 2 applications | each record on the chain rests on its own signature, and that one is recent |
| `signing_service` | 2 clients, 4 requests good and bad, 3 crashes, fair handlers | refinement of `NotarySigner` (no nonce signed twice), nothing signed is forgotten, times, answers |
| `torn_record` | 1 client | violation: see Findings |
| `notarisation` | 1 retry, timeouts 1 and 2, fair | what is retried; the notary signs for no attempt that is tried again; it is the notary `ProverSession` assumes; every run ends with nothing left open |
| `notary_session` | 1 session, timeouts 2 and 4, tolerance 1, fair | times, what was sent and what is logged, what becomes of the driver; every session is logged |
| `prover_runs` | 6 commands from register to a repeated settle, 1 fault, directories of their own and a shared one, fair | files, openings, one payment per payload; every command ends |
| `registry` | 3 connections, 2 users, requests below, at and above the limit, 4 sets of fixtures, fair | records by account, the log, requests in pieces; connections end, requests are answered |
| `evidence` | layouts of 1 to 3 slots or fields, lengths of 2 and 3 digits, bad files; 3 phases, 6 ways to commit, amounts at the bounds and their aliases | every reader finds every value, nothing is revealed; what is signed is true, what is true can be signed |
| `calendar` | every day of 1701 to 2100, and around the years 0 and 10000 | the three computations agree with the calendar |
| `link` | chunks of 2, queue of 2, 3 bytes one way, delay 1 and 1 per byte, fair | order, bound, rate; everything sent arrives |

The bounds. Two engagements over one listing are what a stale engagement needs; with
MAX_EXPIRATIONS = 2 the second expiry exhausts. Collateral 3 and a share of 5,000 basis points
round. Time to 4 with windows of 1 has both sides of every boundary in both rounds. Two nested
payouts let a recipient act inside an action made inside a payout. Several listings at a time are
left to the proofs, which hold for any number. Three crashes let a
torn line be written, restarted on and extended. One retry gives an attempt that is followed and
one that is the last, and a session that the notary has not ended when the next begins. Three bytes with chunks of at most 2 and room for 2 make the reader wait for room, also for
a part of a chunk; queues of 1 and 4 are asked for and refused. The clock of the link stops at
MaxTime unless a writer sleeps, so no chunk is late for ever. Data flows one way in the run, a
half-close or a reset comes from either end. One notary session suffices, since sessions share
nothing but the clock; timeouts of 2
and 4 leave time before, between and after each. Six commands are a listing, two applications (or one
sent twice), an engagement and two settlements, so an engagement can be met with the file of the other
application, and a run overwrites a file of another in the shared directory. Three connections let a
user's request be routed between another's login and
answer; requests of 1 to 3 bytes with a limit and chunks of 2 come in pieces and meet the limit from
both sides. A layout of 45-byte accounts has a body whose length takes three digits. R = 16777259
exceeds 256^3, so that a word less one byte fits the field as 31 bytes fit the real one, and twice
the comparators' range, as the circuits assert; claims of R and more alias smaller ones. 400 years are the period of the calendar. Nonces are symmetric in `escrow`,
nonces and verifiers in `attested`, whose properties are of states and single steps; no run with a
liveness property uses symmetry. Deadlock is not checked: all
bounds are in the guards, so the instances stop by design, and a notarisation ends.

Fairness.

- `PPREV!FairSpec`: time passes, payouts in progress finish, and the parties use the exits open to
  them: anyone may call expire, depositors reclaim, owners cancel, creditors withdraw. It states
  that these exits suffice, not that the contract makes anyone act.
- `PolicyVerifier!FairSpec`: a handler that can take the lock does (one short critical section),
  and the holder goes on. Going down answers nobody, so a waiting request is dropped with it.
- `ProverSession!FairSpec`: tokio polls what is ready, a connection is opened or refused, a closed
  connection ends the driver, and the notary's session timeout cuts what lasts
  (`session.rs:105` of the notary); `Notarisation!CFairSpec` has the notary's timers instead, from
  which `ImplementsProver` gets this, and in which what was sent arrives or its read fails. The future gets none, but for the local rest of it. A connection that goes silent without
  closing is outside this assumption: the prover has no timeout on the join or on the last read.
- `NetemLink!FairSpec`: the runtime polls whichever of reader and writer can go on, a failed
  operation returns, time passes, and each end goes on reading what arrives. Nobody has to send or close.
- `NotarySession!FairSpec`: the clock goes on, timers fire, the task logs when it has returned, and the
  driver ends when the prover closes or leaves. Nothing is assumed of the prover.
- `ProverRun!FairSpec`: a command goes on and the node takes up what it was sent, to include or to fail
  it. Nobody has to start a command. A transaction that stays pending for ever is outside this
  assumption: the wait for the receipt has no timeout.
- `Registry!FairSpec`: tasks are scheduled, and a user who stays writes the request to its end. A user who
  stays and writes nothing more is outside this assumption: the registry has no timeout.

## Proofs

TLAPS checks every leaf with Z3, Zenon and LS4. The assumptions are the ASSUMEs of the modules:
constants have their types, the contract's constructor checks hold, nonces are of the right length.

- `PPREVProofs`, the records. The inductive invariant `IInv` is types, assigned records, the history of
  engagements, the lock discipline, records that match states, and the index of pending
  applications. `SettlesOpenEngagement` is why the history is in it: settle does not look at the
  engagement's status, and an expired engagement is excluded only because its window lies in the
  past (S(h)) and a settled one because its listing is settled (S(c)). Types need it too, since
  payouts are computed from records that must be there. Theorems: `TypeCorrect`,
  `LockDiscipline`, `RecordsConsistent`, `RecordsMatch`, `SettleOnlyOpen`, `TerminalFinal`.
- `PPREVProofs`, the money. The balance and an address's wealth are sums over all records and over the
  payouts in progress. A sum is a fold; that it changes by what its one changed summand changes
  (`TotalChange` and the lemmas beside it) is by induction over the number of summands, which is not
  the library's induction theorem but the least element of the set of numbers for which the fact
  fails. Then each action is an equation between sums. `Solvency` holds at every instant, also
  inside a payout, and `PayoutsCovered` says that no payout meets an empty contract;
  `AgreedTransfersOnly` bounds what a step does to the wealth of each address: nothing, a settlement's
  share, or an expiration's slash. They need `IInv`: an application is held for its depositor while it is
  pending or while the one engagement that refers to it is open, so a record must not be referred
  to twice.
- `PolicyVerifierProofs`. `IInv` says that each signed nonce ends a synced line (`SignedOnDisk`),
  is in memory while the notary runs, that the nonce being recorded is a prefix of it at the end of
  the file, and is unsigned. A torn line may have digits before the nonce: then the file does not
  load, and "a record that loads holds what was signed" is still true. This is why the
  invariant speaks of how lines end. `SignedTimesAreSupported` adds that the request at hand, once it
  is accepted, stays supported until it is signed. Theorems: `TypeCorrect`, `NoNonceSignedTwice`,
  `RestartRemembersSigned`, `SignedTimesAreSupported`, `Refinement`.
- `PPREVProofs`, the notaries. A step of the contract with notaries is a step of `PPREV`
  (`ContractRefinement`), so all of the above holds of it. `AInv` adds that what is on the chain is covered by
  signatures whose nonces are used up: each listing and each settlement by one, and the applications of an
  address for one listing and c_B by at least as many. Counting is what it takes there, since
  an application does not say which signature it came from; `SignaturesOpenOnce` follows, and
  `ActsOnRecentEvidence` is a property of single steps.
- `ProverSessionProofs`. `SInv` ties the flag `preprocessed` to the future and to the attempt that
  reached the registry, and each apparent cut to a cut or a fault. Theorems:
  `TypeCorrect`, `RegistryReachedByOneAttempt`, `FinalFailureEnds`, and `CutAloneIsRetried` under the
  assumption that a closed connection ends the driver within CUT_GRACE (`PromptDriver`). The second part
  is about `Notarisation`: `CInv` says that the connection the prover sees is the one the
  notary has, and that the notary is early, at most in the handshake, with every attempt but the last.
  So the composition implements both ends (`ProverRefinement`, `NotaryRefinement`: safety only, the
  fairness in `ImplementsProver` is checked by TLC), and `LastAttemptAttested`.
- `NetemLinkProofs`. `LInv` says that the chunks from the writer's to the newest adjoin from
  `delivered` to `pushed` (`Adjoining`), that the empty chunk is the last (`EndIsLast`), that `room`
  and what is pushed but not delivered add up to the bound (`RoomCounts`), and that each chunk is
  scheduled after the bytes up to it (`Scheduled`). `InOrder` alone says nothing of the queue, hence
  the chain. Theorems: `TypeCorrect`, `NothingLostOrReordered`, `QueueKeepsBound`, `NoFasterThanTheLink`.
- `NotarySessionProofs`. `IInv` is types, that a running session is within its deadlines
  (`WithinDeadline`, from the guard of Tick), that the times of a session are in the order of its stages
  (`TimesOrdered`), and that what is signed was signed in time and handed to the socket in the order of
  the exchange (`SignedInTime`). `DriverOwned` says that an idle session has no driver yet and one in the
  exchange none any more. Theorems:
  `TypeCorrect`, `AttestationTimes`, `LogIsRight`, `DriversAreDropped`.
- `ProverRunProofs`. The property about files relates a file to a transaction, and a command is killed between
  the two. `IInv` has one part for each hand-over: a run and its own transaction (`RunsOK`), a file
  and the transaction it reports (`FilesOK`), a transaction and the records it made (`ChainOK`), and a
  statement that has left its run and the payload.json that holds it (`KeptOK`). An identifier
  must be that of a run for the next command to be well typed: there are as many records as included
  transactions of their kind, which `Counted` keeps. Theorems: `FilesAlwaysHold`, `EffectsStayOwn`.
- `RegistryProofs`. `RInv` relates each connection to the tables (`ConnOK`): how much was read by its
  stage, that a token is sent only by a user who holds the password of the account it was
  issued for, and that a response is to what was asked. Tokens are only added, so a step of one
  connection keeps this for the others. A routed record renders because the connection exists
  only if `with_phases` held, and an income because its account is the token's. `Counted` says for
  every record that it was logged as often as it was routed: two tasks may give the same one, so the log
  is compared by counting. The assumptions: connections are finitely many, requests have lengths, a
  name has one length, and a password that a user holds is that of the account the user holds it
  for. Theorems: `RegistryInvariance`, `RegistryServesRight`.
- `EvidenceProofs`, the layouts. The property compares two renderings: the response, and the empty
  record from which every reader takes its ranges. `LayoutInv` says that once there is a response it
  renders a record that fits the loaded layout, and that the readers' shape is of that layout. Both
  renderings append the same pieces in the same order, and pieces that stand for the same value have
  the same width (`Alike`), so what precedes a piece is as long in both, and it stands at the same place
  (`At`, `Spot`). The list of owners and the fields of a record repeat a step an unknown number of
  times; these are inductions over the number of items, made with the least element of a set
  of naturals as above, over what `before` has written. That the head's length is the same is the
  equality of the two bodies' lengths, whatever `digits` makes of it. Where a quote stands, and that a key
  occurs once, is carried along the same steps. Assumed of the constants: layout files and records have
  the types the code gives them, and JSON names are no bytes of values (names are one symbol each
  in the model). Theorems: `ReadersCorrect`, `RevealsCorrect`.
- `EvidenceProofs`, the signatures. `EInv` adds to `LayoutInv` where the session's state comes from: an
  attestation is of the response at hand, with the request line the prover sent, and its commitments
  hold what the response holds at some sequence of ranges (the invariant allows any, the steps those of
  `plans`); a proof is of a claim whose
  circuit was satisfied by the openings; a signature is for that claim. It is inductive because once there
  is a response the registry is done, and the other steps fill one variable each. `SignedIsTrue` is not: it
  says nothing of a proof before it is signed. From `EInv` the argument for soundness
  goes in three steps. (1) What `check_shape` compares (length, revealed ranges, revealed bytes, path)
  determines the layout (`SameLayout`): the widths follow from where the revealed keys start, the number of
  owners from the length, the fields of a record from the revealed names. (2) So the one commitment to
  each range of the policy's layout opens to what the registry wrote there (`Opened`, `Passed`), and a
  proof whose public inputs are those hashes was made with these values, whatever else the prover committed
  to. (3) The circuits' arithmetic is exact on them: big-endian values of equal
  length below R are equal only for equal bytes (`PackUnique`), the two limbs of a word determine it
  (`PropertyWord`), the comparators mean `<` and `>=` within their sizes (`LessThanMeans`,
  `GreaterEqMeans`), the number a text of digits stands for is below its bound, and the padding is no digit, so
  a number fills its field (`DecimalFills`). The converse runs the same facts backwards: the ranges
  of a layout are pairwise different (`HiddenRanges`), so the prover's own commitments are found once each
  (`OwnCommitments`), and each limb and comparison holds of the record's own word and numbers (`OwnWord`).
  What is assumed is `CircuitAssumption` (the sizes the generators and templates assert, `main_circom`,
  `main_circom_phi_a`, `main_circom_phi_s`) and `EvidenceAssumption` (claims have the statement's types,
  a word less one byte is below the field order, one path serves one kind of record in one padding).
  Theorems: `SignedCorrect`, `EntitledCorrect`.
- `EvidenceProofs`, the calendar. The arithmetic is taken apart as the code puts it together: a day is an era and a day
  of it, that is a year and a day of it, that is a month and a day of it, and at each level the next
  day either stays within or goes to the first of the next (`CivilFollows`). By it a walk that
  begins on a right date stays right (`DateCorrect`), however far; that walks begin on one is the
  theorem's hypothesis: it holds of day 0 (`CivilBegins`), and the run checks it of its own walks. `CircuitCorrect` has
  the circuit's comparators accept exactly the dates of the calendar. The mock notary's day count undoes the
  conversion (`DayNumberInverts`) and dates written as numbers grow from day to day, so the
  circuit, which compares numbers, and the mock, which compares days, draw the same line
  (`SettleDatesCorrect`, under the same hypothesis).

Only proved, and in no run: the type invariants of these modules, `TerminalIsFinal` and `SignedOnce`
(which `ImplementsSigner` contains).

Only model-checked: the liveness properties and the fairness in `ImplementsProver` (fairness and
ENABLED are outside the prover). Every invariant that a run checks is also stated by a theorem.

## Findings

- `torn_record`. `nonces.rs:61` writes digits and newline separately and does not look at the end
  of the file. A write that fails part-way leaves a torn line; the next nonce is appended to it, and
  recorded and signed as usual. The file is then not "one nonce per line as 64 hex digits", and
  the next `open` fails: the notary keeps its promise never to sign twice, and cannot restart.

Three comments say a little more than the code does. The models show where, without a run of its own:

- `decide` says a failed driver "is final, whatever the prover saw" (`pprev-prover/src/session.rs:374`).
  When the future is ready with a closure or its own timeout at the same poll, the select takes it and
  the driver is not looked at: the attempt is retried. `FinalStaysFinal` shows (and
  `FinalFailureEnds` proves) that this is the only way. Nothing has reached the registry then
  (`RegistryReachedOnce`), so a retry is spent and no more.
- The guard of the notary's driver "aborts it if the session ends early, so that the
  peer sees the connection close" (`pprev-notary/src/session.rs:21`). `join` takes the handle out of the
  guard before it waits: a session cut during that wait drops a bare handle, which detaches the
  driver. With a prover that stalled the connection stays open for as long as the notary runs.
  `OnlyTheJoinLeavesADriver` shows that this is the only way.
- The comment on `queue_bytes` (`netem.rs:29`) bounds what is "read from the sender, not yet
  delivered". The reader reads a chunk before it waits for room, so up to a CHUNK more is read; the
  queue itself keeps the bound (`QueueBounded`).

## Not modelled

ECDSA, Groth16, SHA-256, Poseidon and keccak (symbolic); the bytes of EIP-712 and of the contract's
encodings; TLS and MPC-TLS, but for their ends and errors; certificates; calls of snarkjs; decoding
of requests, argument parsing, measurement records; gas; the accept loop of the emulated link,
whose connections share only a log; the commands notarize, e1, probe and netem, which measure;
the tampering modes of the experiments; the integrated baseline verifiers, which are stateless and
there for a gas comparison; scripts and data. `PROJECT.json` gives each part its status.

## Plan

Done: the contract, the notary with its refinement, their composition, the prover's session and
the notary's and their composition, the commands, the registry, layouts, circuits, dates and the emulated link. Left, in
this order:

1. An abstract escrow (who owns what, by agreed transfers only) that `PPREV` implements.
2. Of the calendar in `Evidence`, dates of ten characters instead of one digit.
