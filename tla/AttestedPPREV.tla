--------------------------- MODULE AttestedPPREV ---------------------------
(***************************************************************************)
(* The contract together with the notaries whose signatures it accepts and *)
(* the users who ask for them (offchain/crates/pprev-prover: register.rs,  *)
(* phases.rs). A user names a statement, the notary signs it with the time *)
(* of the session, and the transaction is sent later, or never, or again,  *)
(* or by someone else who has seen it. A notary signs as NotarySigner      *)
(* says: no nonce twice. Each verifier contract holds the key of one       *)
(* notary.                                                                 *)
(***************************************************************************)
EXTENDS PPREV

CONSTANT MaxSignatures     \* bound on the statements signed

VARIABLE signed            \* signed[v]: the statements signed under v's key

Notary(v) == INSTANCE NotarySigner WITH Statement <- {}, signed <- signed[v]

\* Everything that anybody may hold: a signature is public once sent.
Signatures == UNION {{Sign(v, x) : x \in signed[v]} : v \in Verifier}

AInit == Init /\ signed = [v \in Verifier |-> {}]

-----------------------------------------------------------------------------
(* A session ends now, and the statement its user asked for is signed.  The *)
(* notary reads no chain: a user may name a listing or an engagement that   *)
(* is not there yet, or no longer as named.                                 *)

NotarySigns(v, x) ==
    /\ Cardinality(Signatures) < MaxSignatures
    /\ signed' = [signed EXCEPT ![v] = @ \cup {x}]
    /\ Notary(v)!Sign(x)
    /\ UNCHANGED vars

runRegister ==
    \E v \in Verifier, sender \in Address, txData \in TxData, policyIdR \in PolicyId,
       r \in Salt, eta \in Nonce :
        NotarySigns(v, xR(sender, commitment(txData, policyIdR, r), txData, policyIdR, eta, now))

runApply ==
    \E v \in Verifier :
    \E x \in [phase : {"A"}, txId : TxId, cTx : Commitment, txData : TxData, cB : CB,
              policyId : {b.policyIdA : b \in Bundle},
              submitter : Address, eta : Nonce, tAtt : {now}] :
        NotarySigns(v, x)

runSettle ==
    \E v \in Verifier :
    \E x \in [phase : {"S"}, engId : EngId, txId : TxId, cTx : Commitment, txData : TxData,
              cB : CB, expiresAt : Time, policyId : {b.policyIdS : b \in Bundle},
              submitter : Address, eta : Nonce, tAtt : {now}] :
        NotarySigns(v, x)

-----------------------------------------------------------------------------
(* Transactions that carry a signature; anyone may send any of them. *)

submitRegister ==
    \E sigma \in Signatures, sender \in Address, value \in Amount, r \in Salt :
        LET x == sigma.x IN
        /\ x.phase = "R"
        /\ register(sender, value, x.cTx, x.txData, x.policyId, r, sigma, x.eta, x.tAtt)
        /\ UNCHANGED signed

submitApply ==
    \E sigma \in Signatures, sender \in Address, value \in Amount, txId \in TxId, r \in Salt :
        LET x == sigma.x IN
        /\ x.phase = "A"
        /\ applyFor(sender, value, txId, x.txData, r, x.cB, sigma, x.eta, x.tAtt)
        /\ UNCHANGED signed

submitSettle ==
    \E sigma \in Signatures, sender \in Address, engId \in EngId, r \in Salt :
        LET x == sigma.x IN
        /\ x.phase = "S"
        /\ settle(sender, engId, x.txData, r, sigma, x.eta, x.tAtt)
        /\ UNCHANGED signed

\* Everything that needs no signature, as in PPREV.
Unattested ==
    /\ \/ Administer \/ Engage \/ Expire \/ Reclaim \/ Cancel \/ Withdraw
       \/ Payouts \/ Tick
    /\ UNCHANGED signed

ANext ==
    \/ runRegister \/ runApply \/ runSettle
    \/ submitRegister \/ submitApply \/ submitSettle
    \/ Unattested

avars == <<vars, signed>>
ASpec == AInit /\ [][ANext]_avars

-----------------------------------------------------------------------------
(* Properties. *)

SignedFor(t, b, cB) ==
    {s \in Signatures : s.x.phase = "A" /\ s.x.txId = t /\ s.x.submitter = b /\ s.x.cB = cB}
AppliedFor(t, b, cB) ==
    {a \in AppId : applications[a].txId = t /\ applications[a].depositor = b
                     /\ applications[a].cB = cB}

\* Every listing, application and settlement on the chain rests on a signature
\* of its own, asked for by the address that acted: a replayed, borrowed or
\* overtaken signature opens nothing (PPREV.sol, R(c)-R(d), A(d)-A(e), S(e)-S(f)).
OneSignatureEach ==
    /\ \A t \in TxId : txState[t] # "None" =>
           \E s \in Signatures : /\ s.x.phase = "R" /\ s.x.cTx = listings[t].cTx
                                 /\ s.x.submitter = listings[t].owner
    /\ \A t \in TxId, b \in Address, cB \in CB :
           Cardinality(AppliedFor(t, b, cB)) <= Cardinality(SignedFor(t, b, cB))
    /\ \A e \in EngId : engagements[e].status = "Settled" =>
           \E s \in Signatures : /\ s.x.phase = "S" /\ s.x.engId = e
                                 /\ s.x.submitter = listings[txOf(e)].owner
                                 /\ s.x.cB = appOf(e).cB
                                 /\ s.x.expiresAt = engagements[e].expiresAt

\* The chain acts on recent evidence only: whoever sends it, and however long it
\* was held back, a step that registers, applies or settles uses up the nonce of
\* a signature made under the present key at most DELTA ago (_requireFresh,
\* _requireUnconsumed, _verifyNotarySignature).
EvidenceIsRecent ==
    [][ (nextTxId' # nextTxId \/ nextAppId' # nextAppId
           \/ \E e \in EngId : engagements'[e].status = "Settled" /\ engagements[e].status # "Settled")
        => \E s \in Signatures :
               /\ s.x.eta \in consumed' \ consumed
               /\ s.key = notaryVerifier
               /\ now - s.x.tAtt \in 0..DELTA ]_avars
=============================================================================
