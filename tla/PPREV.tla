-------------------------------- MODULE PPREV --------------------------------
(***************************************************************************)
(* The on-chain enforcement layer, contracts/src/PPREV.sol: a contract     *)
(* that escrows a listing owner's collateral and applicants' deposits and  *)
(* moves them by seven algorithms (register, applyFor, engage, settle,     *)
(* expire, reclaim, cancel) and withdraw.                                  *)
(*                                                                         *)
(* Each external call of the contract is one action.  Its guard is the     *)
(* conjunction of the acceptance conditions, in the contract's order (a    *)
(* call that fails one reverts, which is a stuttering step), and its       *)
(* effects are all the assignments the call makes before it pays anybody.  *)
(* The payouts that follow are steps of their own, because each of them    *)
(* hands control to the recipient's code, which may call the contract      *)
(* again before the payout returns.  What the suspended calls still have   *)
(* to do is the variable stack.                                            *)
(*                                                                         *)
(* A signature is a symbolic term.  This module grants every caller a      *)
(* signature on every statement, so that what is shown of the escrow does  *)
(* not depend on the notary; AttestedPPREV restricts the signatures to     *)
(* those a notary has issued.                                              *)
(***************************************************************************)
EXTENDS Naturals, Sequences, FiniteSets

CONSTANTS
    MaxAddress,        \* addresses are 1..MaxAddress; 0 is address(0)
    Funds,             \* what each address owns at the start
    OPERATOR,          \* the deployment operator
    DELTA,             \* freshness window
    TAU_LOCK,          \* lock window
    MAX_EXPIRATIONS,   \* expirations that cancel a listing
    RHO,               \* survival ratio of the collateral, in basis points
    Verifier,          \* notary verifiers (each holds one vk_notary)
    PolicyId,          \* policy identifiers other than 0
    Bundle,            \* policy bundles the operator may submit
    TxData,            \* public transaction parameters
    Salt,              \* commitment randomness r
    CB,                \* applicants' commitments c_B
    Nonce,             \* attestation nonces eta
    Amount,            \* values a payable call may carry
    MaxListings,       \* bound on the listings registered
    MaxApplications,   \* bound on the applications made
    MaxEngagements,    \* bound on the engagements opened
    MaxTime,           \* bound on block.timestamp
    MaxStack           \* bound on suspended payouts when a call is made

BPS == 10000

ASSUME ParametersAssumption ==
    /\ MaxAddress \in Nat /\ OPERATOR \in 1..MaxAddress
    /\ DELTA \in Nat \ {0} /\ TAU_LOCK \in Nat \ {0}
    /\ MAX_EXPIRATIONS \in Nat \ {0} /\ RHO \in 1..(BPS - 1)
    /\ Verifier # {}

ASSUME InputsAssumption ==
    /\ PolicyId \subseteq Nat \ {0}
    /\ Amount \subseteq Nat /\ Funds \in Nat
    /\ \A d \in TxData : d.settlementShare \in Nat
    /\ Bundle \subseteq [policyIdA : Nat, policyIdS : Nat, reqEscrow : Nat,
                         minCollateral : Nat, maxCollateral : Nat]

ASSUME BoundsAssumption ==
    /\ MaxListings \in Nat /\ MaxApplications \in Nat /\ MaxEngagements \in Nat
    /\ MaxTime \in Nat /\ MaxStack \in Nat

VARIABLES
    now,               \* block.timestamp
    balance,           \* address(this).balance
    notaryVerifier, policyRegistry,
    listings, txState, registered, consumed,
    applications, pendingApp, engagements, credit,
    nextTxId, nextAppId, nextEngId,
    stack,             \* payouts in progress, the innermost first
    wallet             \* what each address owns outside the contract

adminVars   == <<notaryVerifier, policyRegistry>>
listingVars == <<listings, txState, registered, nextTxId>>
appVars     == <<applications, pendingApp, nextAppId>>
engVars     == <<engagements, nextEngId>>
fundVars    == <<balance, credit, stack, wallet>>
vars == <<now, adminVars, listingVars, consumed, appVars, engVars, fundVars>>

-----------------------------------------------------------------------------
(* Data.  0 marks an absent record or address, as in the contract. *)

Address == 1..MaxAddress
Time    == 0..MaxTime
TxId    == 1..MaxListings
AppId   == 1..MaxApplications
EngId   == 1..MaxEngagements

TxState   == {"None", "Active", "Locked", "Settled", "Expired", "Cancelled"}
AppStatus == {"None", "Pending", "Engaged", "Reclaimed"}
EngStatus == {"None", "Open", "Settled", "Expired"}

\* keccak256 binds its preimage: a commitment is the tuple it commits to.
commitment(txData, policyIdR, r) == <<txData, policyIdR, r>>
Commitment   == TxData \X PolicyId \X Salt
NoCommitment == <<>>

NoPolicy == [exists |-> FALSE, policyIdA |-> 0, policyIdS |-> 0, reqEscrow |-> 0,
             minCollateral |-> 0, maxCollateral |-> 0]
NoListing == [cTx |-> NoCommitment, policyIdR |-> 0, owner |-> 0,
              collateral |-> 0, expirations |-> 0]
NoCB == "none"
NoApplication == [txId |-> 0, depositor |-> 0, status |-> "None", deposit |-> 0, cB |-> NoCB]
NoEngagement == [appId |-> 0, expiresAt |-> 0, status |-> "None"]

Policy == [exists : BOOLEAN, policyIdA : Nat, policyIdS : Nat, reqEscrow : Nat,
           minCollateral : Nat, maxCollateral : Nat]
Listing == [cTx : Commitment \cup {NoCommitment}, policyIdR : PolicyId \cup {0},
            owner : Address \cup {0}, collateral : Nat, expirations : Nat]
Application == [txId : TxId \cup {0}, depositor : Address \cup {0}, status : AppStatus,
                deposit : Nat, cB : CB \cup {NoCB}]
Engagement == [appId : AppId \cup {0}, expiresAt : Time, status : EngStatus]

(* A payout whose amount has been handed over keeps its place in the stack, *)
(* with amount 0, while the recipient's code runs.                          *)
Payout == [to : Address, amount : Nat]

\* A signature on statement x under the key that verifier v holds.
Sign(v, x) == [x |-> x, key |-> v]

-----------------------------------------------------------------------------
(* Conditions and effects the algorithms share. *)

\* Mutant of isOpen: the state of the listing is not looked at.
isOpenInAnyState(txId) == txState[txId] # "None" /\ listings[txId].expirations < MAX_EXPIRATIONS

isOpen(txId) ==
    /\ txState[txId] \in {"Active", "Expired"}
    /\ listings[txId].expirations < MAX_EXPIRATIONS

\* The statements x_R, x_A, x_S, each under the tag of its phase (its EIP-712
\* type hash), rebuilt from the caller, the arguments and the records.
xR(sender, cTx, txData, policyIdR, eta, tAtt) ==
    [txData |-> txData, cTx |-> cTx, eta |-> eta, tAtt |-> tAtt,
     phase |-> "R", policyId |-> policyIdR, submitter |-> sender]

xA(sender, txId, txData, cB, eta, tAtt) ==
    LET l == listings[txId] IN
    [phase |-> "A", txId |-> txId, cTx |-> l.cTx, txData |-> txData, cB |-> cB,
     policyId |-> policyRegistry[l.policyIdR].policyIdA,
     submitter |-> sender, eta |-> eta, tAtt |-> tAtt]

xS(sender, engId, txData, eta, tAtt) ==
    LET e == engagements[engId]
        a == applications[e.appId]
        l == listings[a.txId]
    IN
    [phase |-> "S", engId |-> engId, txId |-> a.txId, cTx |-> l.cTx, txData |-> txData,
     cB |-> a.cB, expiresAt |-> e.expiresAt,
     policyId |-> policyRegistry[l.policyIdR].policyIdS,
     submitter |-> sender, eta |-> eta, tAtt |-> tAtt]

verifyNotarySignature(x, sigma) == sigma = Sign(notaryVerifier, x)

\* Mutant of requireUnconsumed: a nonce is never refused.
acceptAnyNonce(eta) == eta \in Nonce

requireUnconsumed(eta) == eta \notin consumed

\* Mutant of requireFresh: an attestation does not age.
requireNotFuture(tAtt) == tAtt <= now

requireFresh(tAtt) == tAtt <= now /\ now - tAtt <= DELTA

shareWithinBps(txData) == txData.settlementShare <= BPS

\* Mutants of lockWindowElapsed: the last second of the window counts as
\* elapsed; the expiration limit is enforced here instead of in the state.
lockWindowReached(engId) == now >= engagements[engId].expiresAt
lockWindowElapsedBelowLimit(engId) ==
    /\ now > engagements[engId].expiresAt
    /\ listings[applications[engagements[engId].appId].txId].expirations + 1 < MAX_EXPIRATIONS

lockWindowElapsed(engId) == now > engagements[engId].expiresAt

\* Mutant of exhausts: one expiration too many.
exhaustsLate(l) == l.expirations = MAX_EXPIRATIONS

exhausts(l) == l.expirations + 1 = MAX_EXPIRATIONS

\* Mutant of clearPending: the index entry is left behind.
keepPending(txId, b) == pendingApp' = pendingApp

clearPending(txId, b) == pendingApp' = [pendingApp EXCEPT ![txId][b] = 0]

\* The contract takes a call at the top level of a transaction, or while a
\* payout's recipient runs.
Callable == stack # <<>> => Head(stack).amount = 0 /\ Len(stack) <= MaxStack

pay(to, amount) == IF amount = 0 THEN <<>> ELSE <<[to |-> to, amount |-> amount]>>

\* msg.value enters the contract with a payable call.
Receive(sender, value) ==
    /\ value <= wallet[sender]
    /\ balance' = balance + value
    /\ wallet' = [wallet EXCEPT ![sender] = @ - value]

Transfer(to, amount) ==
    /\ balance' = balance - amount
    /\ wallet' = [wallet EXCEPT ![to] = @ + amount]

\* The payouts, made in this order, are what is left of the call.
Pay(payouts) == stack' = payouts \o stack

-----------------------------------------------------------------------------
(* Administration. *)

registerPolicy(sender, policyIdR, b) ==
    /\ Callable
    /\ sender = OPERATOR
    /\ policyIdR # 0 /\ b.policyIdA # 0 /\ b.policyIdS # 0
    /\ policyIdR # b.policyIdA /\ policyIdR # b.policyIdS /\ b.policyIdA # b.policyIdS
    /\ b.minCollateral <= b.maxCollateral
    /\ ~policyRegistry[policyIdR].exists
    /\ policyRegistry' = [policyRegistry EXCEPT ![policyIdR] =
           [exists |-> TRUE, policyIdA |-> b.policyIdA, policyIdS |-> b.policyIdS,
            reqEscrow |-> b.reqEscrow, minCollateral |-> b.minCollateral,
            maxCollateral |-> b.maxCollateral]]
    /\ UNCHANGED <<now, notaryVerifier, listingVars, consumed, appVars, engVars, fundVars>>

setNotaryVerifier(sender, verifier) ==
    /\ Callable
    /\ sender = OPERATOR
    /\ notaryVerifier' = verifier
    /\ UNCHANGED <<now, policyRegistry, listingVars, consumed, appVars, engVars, fundVars>>

-----------------------------------------------------------------------------
(* Attested algorithms. *)

register(sender, value, cTx, txData, policyIdR, r, sigma, eta, tAtt) ==
    LET p == policyRegistry[policyIdR] IN
    /\ Callable /\ nextTxId <= MaxListings
    /\ p.exists                                                     \* R(a)
    /\ commitment(txData, policyIdR, r) = cTx                       \* R(b)
    /\ verifyNotarySignature(xR(sender, cTx, txData, policyIdR, eta, tAtt), sigma)  \* R(c)
    /\ requireUnconsumed(eta)                                       \* R(d)
    /\ requireFresh(tAtt)                                           \* R(e)
    /\ cTx \notin registered                                        \* R(f)
    /\ p.minCollateral <= value /\ value <= p.maxCollateral         \* R(g)
    /\ shareWithinBps(txData)                                       \* R(h)
    /\ nextTxId' = nextTxId + 1
    /\ listings' = [listings EXCEPT ![nextTxId] =
           [cTx |-> cTx, policyIdR |-> policyIdR, owner |-> sender,
            collateral |-> value, expirations |-> 0]]
    /\ txState' = [txState EXCEPT ![nextTxId] = "Active"]
    /\ registered' = registered \cup {cTx}
    /\ consumed' = consumed \cup {eta}
    /\ Receive(sender, value)
    /\ UNCHANGED <<now, adminVars, appVars, engVars, credit, stack>>

applyFor(sender, value, txId, txData, r, cB, sigma, eta, tAtt) ==
    LET l == listings[txId]
        p == policyRegistry[l.policyIdR]
    IN
    /\ Callable /\ nextAppId <= MaxApplications
    /\ isOpen(txId)                                                 \* A(a)
    /\ sender # l.owner                                             \* A(b)
    /\ commitment(txData, l.policyIdR, r) = l.cTx                   \* A(c)
    /\ verifyNotarySignature(xA(sender, txId, txData, cB, eta, tAtt), sigma)        \* A(d)
    /\ requireUnconsumed(eta)                                       \* A(e)
    /\ requireFresh(tAtt)                                           \* A(f)
    /\ pendingApp[txId][sender] = 0                                 \* A(g)
    /\ value >= p.reqEscrow                                         \* A(h)
    /\ nextAppId' = nextAppId + 1
    /\ applications' = [applications EXCEPT ![nextAppId] =
           [txId |-> txId, depositor |-> sender, status |-> "Pending",
            deposit |-> value, cB |-> cB]]
    /\ pendingApp' = [pendingApp EXCEPT ![txId][sender] = nextAppId]
    /\ consumed' = consumed \cup {eta}
    /\ Receive(sender, value)
    /\ UNCHANGED <<now, adminVars, listingVars, engVars, credit, stack>>

settle(sender, engId, txData, r, sigma, eta, tAtt) ==
    LET e == engagements[engId]
        a == applications[e.appId]
        txId == a.txId
        l == listings[txId]
        ownerShare == (a.deposit * txData.settlementShare) \div BPS
    IN
    /\ Callable
    /\ e.status # "None"                                            \* S(a)
    /\ sender = l.owner                                             \* S(b)
    /\ txState[txId] = "Locked"                                     \* S(c)
    /\ commitment(txData, l.policyIdR, r) = l.cTx                   \* S(d)
    /\ verifyNotarySignature(xS(sender, engId, txData, eta, tAtt), sigma)           \* S(e)
    /\ requireUnconsumed(eta)                                       \* S(f)
    /\ requireFresh(tAtt)                                           \* S(g)
    /\ now <= e.expiresAt                                           \* S(h)
    /\ consumed' = consumed \cup {eta}
    /\ engagements' = [engagements EXCEPT ![engId].status = "Settled"]
    /\ txState' = [txState EXCEPT ![txId] = "Settled"]
    /\ listings' = [listings EXCEPT ![txId].collateral = 0]
    /\ Pay(pay(l.owner, ownerShare + l.collateral) \o pay(a.depositor, a.deposit - ownerShare))
    /\ UNCHANGED <<now, adminVars, registered, nextTxId, appVars, nextEngId,
                   balance, credit, wallet>>

-----------------------------------------------------------------------------
(* Algorithms without an attestation. *)

engage(sender, txId, appId) ==
    LET a == applications[appId] IN
    /\ Callable /\ nextEngId <= MaxEngagements /\ now + TAU_LOCK < MaxTime
    /\ sender = listings[txId].owner
    /\ a.status = "Pending"
    /\ a.txId = txId
    /\ isOpen(txId)
    /\ nextEngId' = nextEngId + 1
    /\ engagements' = [engagements EXCEPT ![nextEngId] =
           [appId |-> appId, expiresAt |-> now + TAU_LOCK, status |-> "Open"]]
    /\ applications' = [applications EXCEPT ![appId].status = "Engaged"]
    /\ clearPending(txId, a.depositor)
    /\ txState' = [txState EXCEPT ![txId] = "Locked"]
    /\ UNCHANGED <<now, adminVars, listings, registered, nextTxId, consumed, nextAppId, fundVars>>

expire(engId) ==
    LET e == engagements[engId]
        a == applications[e.appId]
        txId == a.txId
        l == listings[txId]
        surviving == (l.collateral * RHO) \div BPS
        compensation == l.collateral - surviving
        exhausted == exhausts(l)
    IN
    /\ Callable
    /\ e.status = "Open"                                            \* E(a)
    /\ txState[txId] = "Locked"                                     \* E(b)
    /\ lockWindowElapsed(engId)                                     \* E(c)
    /\ engagements' = [engagements EXCEPT ![engId].status = "Expired"]
    /\ txState' = [txState EXCEPT ![txId] = IF exhausted THEN "Cancelled" ELSE "Expired"]
    /\ listings' = [listings EXCEPT ![txId] =
           [l EXCEPT !.expirations = l.expirations + 1,
                     !.collateral = IF exhausted THEN 0 ELSE surviving]]
    /\ Pay(pay(a.depositor, a.deposit + compensation)
             \o pay(l.owner, IF exhausted THEN surviving ELSE 0))
    /\ UNCHANGED <<now, adminVars, registered, nextTxId, consumed, appVars, nextEngId,
                   balance, credit, wallet>>

\* Mutant of reclaim: an engaged application can be reclaimed too.
reclaimEngaged(sender, appId) ==
    LET a == applications[appId] IN
    /\ Callable
    /\ sender = a.depositor
    /\ a.status # "Reclaimed"
    /\ applications' = [applications EXCEPT ![appId].status = "Reclaimed"]
    /\ clearPending(a.txId, sender)
    /\ Pay(pay(sender, a.deposit))
    /\ UNCHANGED <<now, adminVars, listingVars, consumed, nextAppId, engVars,
                   balance, credit, wallet>>

reclaim(sender, appId) ==
    LET a == applications[appId] IN
    /\ Callable
    /\ sender = a.depositor
    /\ a.status = "Pending"
    /\ applications' = [applications EXCEPT ![appId].status = "Reclaimed"]
    /\ clearPending(a.txId, sender)
    /\ Pay(pay(sender, a.deposit))
    /\ UNCHANGED <<now, adminVars, listingVars, consumed, nextAppId, engVars,
                   balance, credit, wallet>>

cancel(sender, txId) ==
    LET l == listings[txId] IN
    /\ Callable
    /\ sender = l.owner
    /\ txState[txId] \in {"Active", "Expired"}
    /\ txState' = [txState EXCEPT ![txId] = "Cancelled"]
    /\ listings' = [listings EXCEPT ![txId].collateral = 0]
    /\ Pay(pay(sender, l.collateral))
    /\ UNCHANGED <<now, adminVars, registered, nextTxId, consumed, appVars, engVars,
                   balance, credit, wallet>>

\* Mutant of withdraw: the credit is not cleared before the transfer.
withdrawKeepingCredit(sender) ==
    /\ Callable
    /\ credit[sender] # 0
    /\ credit[sender] <= balance
    /\ Transfer(sender, credit[sender])
    /\ stack' = <<[to |-> sender, amount |-> 0]>> \o stack
    /\ UNCHANGED <<now, adminVars, listingVars, consumed, appVars, engVars, credit>>

\* The transfer is part of the call: if it fails the whole call reverts.
withdraw(sender) ==
    /\ Callable
    /\ credit[sender] # 0
    /\ credit[sender] <= balance
    /\ credit' = [credit EXCEPT ![sender] = 0]
    /\ Transfer(sender, credit[sender])
    /\ stack' = <<[to |-> sender, amount |-> 0]>> \o stack
    /\ UNCHANGED <<now, adminVars, listingVars, consumed, appVars, engVars>>

-----------------------------------------------------------------------------
(* Payouts.  The EVM undoes whatever a failed call did, so a recipient that *)
(* fails leaves no trace but the credit, whatever it called before failing. *)

PayoutDelivered ==
    /\ stack # <<>> /\ Head(stack).amount \in 1..balance
    /\ Transfer(Head(stack).to, Head(stack).amount)
    /\ stack' = <<[Head(stack) EXCEPT !.amount = 0]>> \o Tail(stack)
    /\ UNCHANGED <<now, adminVars, listingVars, consumed, appVars, engVars, credit>>

\* Mutant of PayoutCredited: a payout that fails is forgotten.
PayoutLost ==
    /\ stack # <<>> /\ Head(stack).amount > 0
    /\ stack' = Tail(stack)
    /\ UNCHANGED <<now, adminVars, listingVars, consumed, appVars, engVars, balance, credit, wallet>>

PayoutCredited ==
    /\ stack # <<>> /\ Head(stack).amount > 0
    /\ credit' = [credit EXCEPT ![Head(stack).to] = @ + Head(stack).amount]
    /\ stack' = Tail(stack)
    /\ UNCHANGED <<now, adminVars, listingVars, consumed, appVars, engVars, balance, wallet>>

RecipientReturns ==
    /\ stack # <<>> /\ Head(stack).amount = 0
    /\ stack' = Tail(stack)
    /\ UNCHANGED <<now, adminVars, listingVars, consumed, appVars, engVars, balance, credit, wallet>>

\* A later block.  block.timestamp is constant within a transaction.
Tick ==
    /\ stack = <<>> /\ now < MaxTime
    /\ now' = now + 1
    /\ UNCHANGED <<adminVars, listingVars, consumed, appVars, engVars, fundVars>>

-----------------------------------------------------------------------------
Init ==
    /\ now = 0
    /\ balance = 0
    /\ notaryVerifier \in Verifier
    /\ policyRegistry = [p \in PolicyId |-> NoPolicy]
    /\ listings = [t \in TxId |-> NoListing]
    /\ txState = [t \in TxId |-> "None"]
    /\ registered = {}
    /\ consumed = {}
    /\ applications = [a \in AppId |-> NoApplication]
    /\ pendingApp = [t \in TxId |-> [b \in Address |-> 0]]
    /\ engagements = [e \in EngId |-> NoEngagement]
    /\ credit = [b \in Address |-> 0]
    /\ nextTxId = 1 /\ nextAppId = 1 /\ nextEngId = 1
    /\ stack = <<>>
    /\ wallet = [b \in Address |-> Funds]

Administer ==
    \E sender \in Address :
        \/ \E policyIdR \in PolicyId, b \in Bundle : registerPolicy(sender, policyIdR, b)
        \/ \E v \in Verifier : setNotaryVerifier(sender, v)

Register ==
    \E sender \in Address, value \in Amount, txData \in TxData, policyIdR \in PolicyId,
       r \in Salt, cTx \in Commitment, eta \in Nonce, tAtt \in Time, v \in Verifier :
        register(sender, value, cTx, txData, policyIdR, r,
                 Sign(v, xR(sender, cTx, txData, policyIdR, eta, tAtt)), eta, tAtt)

Apply ==
    \E sender \in Address, value \in Amount, txId \in TxId, txData \in TxData, r \in Salt,
       cB \in CB, eta \in Nonce, tAtt \in Time, v \in Verifier :
        applyFor(sender, value, txId, txData, r, cB,
                 Sign(v, xA(sender, txId, txData, cB, eta, tAtt)), eta, tAtt)

Settle ==
    \E sender \in Address, engId \in EngId, txData \in TxData, r \in Salt, eta \in Nonce,
       tAtt \in Time, v \in Verifier :
        settle(sender, engId, txData, r,
               Sign(v, xS(sender, engId, txData, eta, tAtt)), eta, tAtt)

Engage   == \E sender \in Address, txId \in TxId, appId \in AppId : engage(sender, txId, appId)
Expire   == \E engId \in EngId : expire(engId)
Reclaim  == \E sender \in Address, appId \in AppId : reclaim(sender, appId)
Cancel   == \E sender \in Address, txId \in TxId : cancel(sender, txId)
Withdraw == \E sender \in Address : withdraw(sender)
Payouts  == PayoutDelivered \/ PayoutCredited \/ RecipientReturns

Next ==
    \/ Administer \/ Register \/ Apply \/ Settle
    \/ Engage \/ Expire \/ Reclaim \/ Cancel \/ Withdraw
    \/ Payouts \/ Tick

Spec == Init /\ [][Next]_vars
\* Time passes, payouts run to their end, and the exits are used: anyone may
\* expire, an owner cancels, a depositor reclaims, a creditor withdraws.
FairSpec ==
    /\ Spec
    /\ WF_vars(Tick) /\ WF_vars(Payouts) /\ WF_vars(Withdraw)
    /\ WF_vars(Expire) /\ WF_vars(Reclaim) /\ WF_vars(Cancel)

-----------------------------------------------------------------------------
(* Properties. *)

\* Every variable keeps its type; a payout is owed to a real address.
TypeOK ==
    /\ now \in Time /\ balance \in Nat
    /\ notaryVerifier \in Verifier
    /\ policyRegistry \in [PolicyId -> Policy]
    /\ listings \in [TxId -> Listing]
    /\ txState \in [TxId -> TxState]
    /\ registered \subseteq Commitment
    /\ consumed \subseteq Nonce
    /\ applications \in [AppId -> Application]
    /\ pendingApp \in [TxId -> [Address -> AppId \cup {0}]]
    /\ engagements \in [EngId -> Engagement]
    /\ credit \in [Address -> Nat]
    /\ nextTxId \in 1..(MaxListings + 1)
    /\ nextAppId \in 1..(MaxApplications + 1)
    /\ nextEngId \in 1..(MaxEngagements + 1)
    /\ stack \in Seq(Payout)
    /\ wallet \in [Address -> Nat]

\* f[1] + ... + f[n]
Total(f, n) ==
    LET t[i \in 0..n] == IF i = 0 THEN 0 ELSE t[i - 1] + f[i] IN t[n]

appOf(e) == applications[engagements[e].appId]
txOf(e)  == appOf(e).txId

EscrowedCollateral ==
    Total([t \in TxId |-> IF txState[t] \in {"Active", "Locked", "Expired"}
                          THEN listings[t].collateral ELSE 0], MaxListings)
PendingDeposits ==
    Total([a \in AppId |-> IF applications[a].status = "Pending"
                           THEN applications[a].deposit ELSE 0], MaxApplications)
LockedDeposits ==
    Total([e \in EngId |-> IF engagements[e].status = "Open"
                           THEN appOf(e).deposit ELSE 0], MaxEngagements)
PayoutsInProgress == Total([i \in 1..Len(stack) |-> stack[i].amount], Len(stack))

\* The contract holds exactly what it owes, also in the middle of a payout
\* that re-enters it (invariant_balanceEqualsObligations of the test suite
\* looks between transactions only).
BalanceEqualsObligations ==
    balance = EscrowedCollateral + PendingDeposits + LockedDeposits
                + Total(credit, MaxAddress) + PayoutsInProgress

\* A listing is locked exactly while one engagement of it is open, so an
\* open engagement is always the one in progress (the comment at E(a)).
LockedIffOneOpen ==
    /\ \A e \in EngId : engagements[e].status = "Open" => txState[txOf(e)] = "Locked"
    /\ \A t \in TxId : txState[t] = "Locked" =>
           \E e \in EngId : engagements[e].status = "Open" /\ txOf(e) = t
    /\ \A e, f \in EngId :
           engagements[e].status = "Open" /\ engagements[f].status = "Open" /\ txOf(e) = txOf(f)
               => e = f

\* settle does not look whether the engagement is open: an engagement of an
\* earlier round of a listing that is locked again passes S(a) to S(g).  It
\* is never settled all the same.
SettlesOpenEngagement ==
    [][\A e \in EngId : engagements'[e].status = "Settled"
           => engagements[e].status \in {"Open", "Settled"}]_vars

\* Identifiers are handed out in order, and what an assigned record refers
\* to is assigned: the listing of an application, the application of an
\* engagement, the owner, depositor and commitment a payout is computed from.
RecordsAssigned ==
    /\ \A t \in TxId : /\ txState[t] # "None" <=> t < nextTxId
                       /\ txState[t] # "None" =>
                              /\ listings[t].owner \in Address
                              /\ listings[t].policyIdR \in PolicyId
                              /\ listings[t].cTx \in Commitment
                              /\ listings[t].cTx[1].settlementShare <= BPS
    /\ \A a \in AppId : /\ applications[a].status # "None" <=> a < nextAppId
                        /\ applications[a].status # "None" =>
                               /\ applications[a].depositor \in Address
                               /\ applications[a].txId \in TxId
                               /\ txState[applications[a].txId] # "None"
    /\ \A e \in EngId : /\ engagements[e].status # "None" <=> e < nextEngId
                        /\ engagements[e].status # "None" =>
                               /\ engagements[e].appId \in AppId
                               /\ appOf(e).status = "Engaged"

\* An application is engaged once, and an engagement that is over left its
\* mark: an expired one a window in the past, a settled one a settled listing.
EngagementHistory ==
    /\ \A e, f \in EngId :
           /\ engagements[e].status # "None" /\ engagements[f].status # "None"
           /\ engagements[e].appId = engagements[f].appId
           => e = f
    /\ \A e \in EngId : engagements[e].status = "Expired" => engagements[e].expiresAt < now
    /\ \A e \in EngId : engagements[e].status = "Settled" => txState[txOf(e)] = "Settled"

\* A listing that is not there yet or is terminal holds no collateral; one
\* that can be engaged again has an expiration to spare.
RecordsMatchState ==
    \A t \in TxId :
        /\ txState[t] \in {"None", "Settled", "Cancelled"} => listings[t].collateral = 0
        /\ txState[t] \in {"Active", "Locked", "Expired"} =>
               listings[t].expirations < MAX_EXPIRATIONS

\* Settled and cancelled are final, whatever a payout's recipient calls.
TerminalIsFinal ==
    [][\A t \in TxId : txState[t] \in {"Settled", "Cancelled"} => txState'[t] = txState[t]]_vars

\* The index pendingApp names exactly the pending applications, so A(g)
\* never lets a second one in and never locks an applicant out.
PendingIndexExact ==
    /\ \A t \in TxId, b \in Address :
           LET p == pendingApp[t][b] IN
           p # 0 => /\ applications[p].status = "Pending"
                    /\ applications[p].txId = t /\ applications[p].depositor = b
    /\ \A a \in AppId : applications[a].status = "Pending" =>
           pendingApp[applications[a].txId][applications[a].depositor] = a

\* The inductive invariant behind the theorems of PPREVProofs.
IInv ==
    /\ TypeOK
    /\ RecordsAssigned
    /\ EngagementHistory
    /\ LockedIffOneOpen
    /\ RecordsMatchState
    /\ PendingIndexExact

\* What address b owns, in its wallet or through the contract.
Wealth(b) ==
    wallet[b] + credit[b]
      + Total([t \in TxId |-> IF listings[t].owner = b THEN listings[t].collateral ELSE 0],
              MaxListings)
      + Total([a \in AppId |-> IF /\ applications[a].depositor = b
                                  /\ \/ applications[a].status = "Pending"
                                     \/ \E e \in EngId : /\ engagements[e].appId = a
                                                         /\ engagements[e].status = "Open"
                               THEN applications[a].deposit ELSE 0], MaxApplications)
      + Total([i \in 1..Len(stack) |-> IF stack[i].to = b THEN stack[i].amount ELSE 0],
              Len(stack))

Closes(e, status) == engagements[e].status = "Open" /\ engagements'[e].status = status

\* b's share in what a step does: nothing, or a closing engagement of b's.
AgreedTransfer(b) ==
    \/ Wealth(b)' = Wealth(b)
    \/ \E e \in EngId :
         LET l == listings[txOf(e)]
             share == (appOf(e).deposit * l.cTx[1].settlementShare) \div BPS
             lost == l.collateral - ((l.collateral * RHO) \div BPS)
         IN
         \/ Closes(e, "Settled") /\ b = l.owner /\ Wealth(b)' = Wealth(b) + share
         \/ Closes(e, "Settled") /\ b = appOf(e).depositor /\ Wealth(b)' + share = Wealth(b)
         \/ Closes(e, "Expired") /\ b = l.owner /\ Wealth(b)' + lost = Wealth(b)
         \/ Closes(e, "Expired") /\ b = appOf(e).depositor /\ Wealth(b)' = Wealth(b) + lost

\* Nobody's wealth changes but by a closing engagement of theirs: settle
\* moves to the owner the share of the deposit the listing was registered
\* with, expire moves to the applicant the collateral that does not survive.
OnlyAgreedTransfers == [][\A b \in Address : AgreedTransfer(b)]_vars

\* A lock ends: nobody can hold a listing locked beyond its window.
LockEnds == \A t \in TxId : txState[t] = "Locked" ~> txState[t] # "Locked"

\* No path strands funds: with the exits used, everything leaves the
\* contract, credited payouts included (afterInvariant of the test suite).
EverythingLeaves == <>[](balance = 0)
=============================================================================
