----------------------------- MODULE PPREVProofs -----------------------------
(***************************************************************************)
(* What holds of PPREV for every number of addresses, listings,            *)
(* applications and engagements, in four parts.                            *)
(*                                                                         *)
(* First what a sum does when one summand changes, by induction from the   *)
(* least element of a set of naturals.  Then one lemma per action shows    *)
(* that it keeps the inductive invariant IInv of the records, from which   *)
(* the theorems about states and times follow.  Third what each action     *)
(* does to each sum over the records: the contract holds what it owes, and *)
(* moves nobody's wealth but as agreed.  Last the contract and its         *)
(* notaries together: a behaviour of AttestedPPREV is one of PPREV, so all  *)
(* that is proved before holds there; and what is on the chain rests on    *)
(* signatures of its own, however late, often or by whomever they are sent.*)
(***************************************************************************)
EXTENDS AttestedPPREV, WellFoundedInduction, SequenceTheorems, FiniteSetTheorems, TLAPS

-----------------------------------------------------------------------------
(* Induction over a set of naturals.                                       *)

\* A set of naturals that is not empty has a least element.
LEMMA LeastNatural ==
    ASSUME NEW T, T \subseteq Nat, T # {}
    PROVE  \E x \in T : \A y \in T : ~(y < x)
<1>1. \E x \in T : \A y \in T : ~(<<y, x>> \in OpToRel(<, Nat))
  BY NatLessThanWellFounded, WFMin, Zenon
<1> QED BY <1>1 DEF OpToRel

\* A set with 0 and with the successors of its members has all naturals.
LEMMA Induction ==
    ASSUME NEW S, 0 \in S, \A n \in Nat : n \in S => n + 1 \in S
    PROVE  \A n \in Nat : n \in S
<1> DEFINE T == {n \in Nat : n \notin S}
<1>1. CASE T = {}
  BY <1>1
<1>2. CASE T # {}
  <2>1. PICK x \in T : \A y \in T : ~(y < x)
    <3>1. T \subseteq Nat
      OBVIOUS
    <3> HIDE DEF T
    <3> QED BY <1>2, <3>1, LeastNatural
  <2>2. x # 0 /\ x - 1 \in Nat /\ x - 1 < x
    OBVIOUS
  <2>3. x - 1 \in S
    BY <2>1, <2>2
  <2> QED BY <2>2, <2>3
<1> QED BY <1>1, <1>2

-----------------------------------------------------------------------------
(* Total, from its recursive definition.                                   *)

\* g holds the totals of f up to each place.
Running(g, f, n) == g = [i \in 0..n |-> IF i = 0 THEN 0 ELSE g[i - 1] + f[i]]

\* The recursion that defines Total has a solution,
LEMMA RunningExists ==
    ASSUME NEW f
    PROVE  \A n \in Nat : \E g : Running(g, f, n)
<1> DEFINE S == {n \in Nat : \E g : Running(g, f, n)}
<1>1. 0 \in S
  <2>1. Running([i \in 0..0 |-> 0], f, 0)
    BY DEF Running
  <2> QED BY <2>1
<1>2. ASSUME NEW n \in Nat, n \in S
      PROVE  n + 1 \in S
  <2>1. PICK g : Running(g, f, n)
    BY <1>2
  <2> DEFINE h == [i \in 0..(n + 1) |-> IF i = n + 1 THEN g[n] + f[n + 1] ELSE g[i]]
  <2>2. \A i \in 0..n : g[i] = IF i = 0 THEN 0 ELSE g[i - 1] + f[i]
    BY <2>1 DEF Running
  <2>3. \A i \in 0..(n + 1) : h[i] = IF i = 0 THEN 0 ELSE h[i - 1] + f[i]
    BY <2>2
  <2>4. Running(h, f, n + 1)
    BY <2>3 DEF Running
  <2> QED BY <2>4
<1>3. \A n \in Nat : n \in S
  <2> HIDE DEF S
  <2> QED BY <1>1, <1>2, Induction
<1> QED BY <1>3

\* and two solutions agree as far as both go.
LEMMA RunningUnique ==
    ASSUME NEW f, NEW m \in Nat, NEW n \in Nat, NEW g, NEW h, Running(g, f, m), Running(h, f, n)
    PROVE  \A i \in Nat : i <= m /\ i <= n => g[i] = h[i]
<1> DEFINE S == {i \in Nat : i <= m /\ i <= n => g[i] = h[i]}
<1>1. /\ \A i \in 0..m : g[i] = IF i = 0 THEN 0 ELSE g[i - 1] + f[i]
      /\ \A i \in 0..n : h[i] = IF i = 0 THEN 0 ELSE h[i - 1] + f[i]
  BY DEF Running
<1>2. 0 \in S
  BY <1>1
<1>3. ASSUME NEW i \in Nat, i \in S
      PROVE  i + 1 \in S
  BY <1>1, <1>3
<1>4. \A i \in Nat : i \in S
  <2> HIDE DEF S
  <2> QED BY <1>2, <1>3, Induction
<1> QED BY <1>4

\* Total is the last of the running totals.
LEMMA TotalIsRunning ==
    ASSUME NEW f, NEW n \in Nat
    PROVE  \E g : Running(g, f, n) /\ Total(f, n) = g[n]
<1> DEFINE t == CHOOSE g : g = [i \in 0..n |-> IF i = 0 THEN 0 ELSE g[i - 1] + f[i]]
<1>1. \E g : g = [i \in 0..n |-> IF i = 0 THEN 0 ELSE g[i - 1] + f[i]]
  BY RunningExists DEF Running
<1>2. t = [i \in 0..n |-> IF i = 0 THEN 0 ELSE t[i - 1] + f[i]]
  BY <1>1
<1>3. Total(f, n) = t[n]
  BY DEF Total
<1> HIDE DEF t
<1>4. Running(t, f, n)
  BY <1>2 DEF Running
<1> QED BY <1>3, <1>4

\* What Total computes, one summand at a time.
LEMMA TotalStep ==
    ASSUME NEW f
    PROVE  /\ Total(f, 0) = 0
           /\ \A n \in Nat : Total(f, n + 1) = Total(f, n) + f[n + 1]
<1>1. Total(f, 0) = 0
  <2>1. PICK g : Running(g, f, 0) /\ Total(f, 0) = g[0]
    BY TotalIsRunning
  <2> QED BY <2>1 DEF Running
<1>2. ASSUME NEW n \in Nat
      PROVE  Total(f, n + 1) = Total(f, n) + f[n + 1]
  <2>1. PICK g : Running(g, f, n) /\ Total(f, n) = g[n]
    BY TotalIsRunning
  <2>2. n + 1 \in Nat
    OBVIOUS
  <2>3. PICK h : Running(h, f, n + 1) /\ Total(f, n + 1) = h[n + 1]
    BY <2>2, TotalIsRunning
  <2>4. g[n] = h[n]
    BY <2>1, <2>2, <2>3, RunningUnique
  <2>5. h[n + 1] = h[n] + f[n + 1]
    BY <2>3 DEF Running
  <2> QED BY <2>1, <2>3, <2>4, <2>5
<1> QED BY <1>1, <1>2

\* A sum of naturals is a natural, and at least each of its summands.
LEMMA TotalNat ==
    ASSUME NEW n \in Nat, NEW f, \A i \in 1..n : f[i] \in Nat
    PROVE  Total(f, n) \in Nat /\ \A i \in 1..n : f[i] <= Total(f, n)
<1> DEFINE S == {m \in Nat : m <= n =>
                    Total(f, m) \in Nat /\ \A i \in 1..m : f[i] <= Total(f, m)}
<1>1. 0 \in S
  BY TotalStep
<1>2. ASSUME NEW m \in Nat, m \in S
      PROVE  m + 1 \in S
  <2> SUFFICES ASSUME m + 1 <= n
               PROVE  /\ Total(f, m + 1) \in Nat
                      /\ \A i \in 1..(m + 1) : f[i] <= Total(f, m + 1)
    OBVIOUS
  <2>1. Total(f, m + 1) = Total(f, m) + f[m + 1]
    BY TotalStep
  <2>2. /\ Total(f, m) \in Nat /\ f[m + 1] \in Nat
        /\ \A i \in 1..m : f[i] \in Nat /\ f[i] <= Total(f, m)
    BY <1>2
  <2> QED BY <2>1, <2>2
<1>3. \A m \in Nat : m \in S
  <2> HIDE DEF S
  <2> QED BY <1>1, <1>2, Induction
<1> QED BY <1>3

\* Sums of the same summands are equal.
LEMMA TotalSame ==
    ASSUME NEW n \in Nat, NEW f, NEW g, \A i \in 1..n : f[i] = g[i]
    PROVE  Total(f, n) = Total(g, n)
<1> DEFINE S == {m \in Nat : m <= n => Total(f, m) = Total(g, m)}
<1>1. 0 \in S
  BY TotalStep
<1>2. ASSUME NEW m \in Nat, m \in S
      PROVE  m + 1 \in S
  <2>1. /\ Total(f, m + 1) = Total(f, m) + f[m + 1]
        /\ Total(g, m + 1) = Total(g, m) + g[m + 1]
    BY TotalStep
  <2> QED BY <1>2, <2>1
<1>3. \A m \in Nat : m \in S
  <2> HIDE DEF S
  <2> QED BY <1>1, <1>2, Induction
<1> QED BY <1>3

\* A sum of nothing is nothing.
LEMMA TotalZero ==
    ASSUME NEW n \in Nat, NEW f, \A i \in 1..n : f[i] = 0
    PROVE  Total(f, n) = 0
<1> DEFINE S == {m \in Nat : m <= n => Total(f, m) = 0}
<1>1. 0 \in S
  BY TotalStep
<1>2. ASSUME NEW m \in Nat, m \in S
      PROVE  m + 1 \in S
  <2>1. Total(f, m + 1) = Total(f, m) + f[m + 1]
    BY TotalStep
  <2> QED BY <1>2, <2>1
<1>3. \A m \in Nat : m \in S
  <2> HIDE DEF S
  <2> QED BY <1>1, <1>2, Induction
<1> QED BY <1>3

\* One summand changes, and the sum by as much.
LEMMA TotalChange ==
    ASSUME NEW n \in Nat, NEW f, NEW g, NEW k \in 1..n,
           \A i \in 1..n : f[i] \in Nat /\ g[i] \in Nat,
           \A i \in 1..n : i # k => g[i] = f[i]
    PROVE  Total(g, n) + f[k] = Total(f, n) + g[k]
<1> DEFINE S == {m \in Nat : m <= n =>
                    IF m < k THEN Total(g, m) = Total(f, m)
                    ELSE Total(g, m) + f[k] = Total(f, m) + g[k]}
<1>1. 0 \in S
  BY TotalStep
<1>2. ASSUME NEW m \in Nat, m \in S
      PROVE  m + 1 \in S
  <2> SUFFICES ASSUME m + 1 <= n
               PROVE  IF m + 1 < k THEN Total(g, m + 1) = Total(f, m + 1)
                      ELSE Total(g, m + 1) + f[k] = Total(f, m + 1) + g[k]
    OBVIOUS
  <2>1. /\ Total(f, m + 1) = Total(f, m) + f[m + 1]
        /\ Total(g, m + 1) = Total(g, m) + g[m + 1]
    BY TotalStep
  <2>2. Total(f, m) \in Nat /\ Total(g, m) \in Nat
    <3>1. \A i \in 1..m : f[i] \in Nat /\ g[i] \in Nat
      OBVIOUS
    <3> QED BY <3>1, TotalNat
  <2>3. f[m + 1] \in Nat /\ g[m + 1] \in Nat /\ f[k] \in Nat /\ g[k] \in Nat
    OBVIOUS
  <2>4. m + 1 # k => g[m + 1] = f[m + 1]
    OBVIOUS
  <2>5. IF m < k THEN Total(g, m) = Total(f, m) ELSE Total(g, m) + f[k] = Total(f, m) + g[k]
    BY <1>2
  <2>6. CASE m + 1 < k
    BY <2>1, <2>4, <2>5, <2>6
  <2>7. CASE m + 1 = k
    BY <2>1, <2>2, <2>3, <2>5, <2>7
  <2>8. CASE m + 1 > k
    BY <2>1, <2>2, <2>3, <2>4, <2>5, <2>8
  <2> QED BY <2>6, <2>7, <2>8
<1>3. \A m \in Nat : m \in S
  <2> HIDE DEF S
  <2> QED BY <1>1, <1>2, Induction
<1> QED BY <1>3

\* A summand is put in front of the others.
LEMMA TotalFront ==
    ASSUME NEW n \in Nat, NEW f, NEW g, g[1] \in Nat,
           \A i \in 1..n : f[i] \in Nat /\ g[i + 1] = f[i]
    PROVE  Total(g, n + 1) = g[1] + Total(f, n)
<1> DEFINE S == {m \in Nat : m <= n => Total(g, m + 1) = g[1] + Total(f, m)}
<1>1. 0 \in S
  <2>1. Total(g, 0 + 1) = Total(g, 0) + g[0 + 1] /\ Total(g, 0) = 0 /\ Total(f, 0) = 0
    BY TotalStep
  <2> QED BY <2>1
<1>2. ASSUME NEW m \in Nat, m \in S
      PROVE  m + 1 \in S
  <2> SUFFICES ASSUME m + 1 <= n
               PROVE  Total(g, (m + 1) + 1) = g[1] + Total(f, m + 1)
    OBVIOUS
  <2>1. /\ Total(f, m + 1) = Total(f, m) + f[m + 1]
        /\ Total(g, (m + 1) + 1) = Total(g, m + 1) + g[(m + 1) + 1]
    BY TotalStep
  <2>2. Total(f, m) \in Nat
    <3>1. \A i \in 1..m : f[i] \in Nat
      OBVIOUS
    <3> QED BY <3>1, TotalNat
  <2>3. f[m + 1] \in Nat /\ g[(m + 1) + 1] = f[m + 1]
    OBVIOUS
  <2> QED BY <1>2, <2>1, <2>2, <2>3
<1>3. \A m \in Nat : m \in S
  <2> HIDE DEF S
  <2> QED BY <1>1, <1>2, Induction
<1> QED BY <1>3
-----------------------------------------------------------------------------
(* The records.                                                            *)

\* A share of at most BPS basis points of an amount is at most the amount:
\* ownerShare in settle and surviving in expire never exceed what they divide.
LEMMA ShareBound ==
    ASSUME NEW d \in Nat, NEW s \in Nat, s <= BPS
    PROVE  (d * s) \div BPS \in Nat /\ (d * s) \div BPS <= d
<1> DEFINE m == d * s
           q == m \div BPS
<1>1. m \in Nat
  OBVIOUS
<1>2. m <= d * BPS
  <2>1. BPS \in Nat
    BY DEF BPS
  <2>2. PICK k \in Nat : BPS = s + k
    <3>1. BPS - s \in Nat /\ BPS = s + (BPS - s)
      BY <2>1
    <3> QED BY <3>1
  <2>3. d * BPS = d * s + d * k
    BY <2>2
  <2>4. d * k \in Nat
    BY <2>2
  <2> QED BY <1>1, <2>3, <2>4
<1>3. q \in Nat /\ q * 10000 <= m
  BY <1>1 DEF BPS
<1>4. q <= d
  <2> HIDE DEF m, q
  <2>1. m <= d * 10000
    BY <1>2 DEF BPS
  <2> QED BY <1>1, <1>3, <2>1
<1> QED BY <1>3, <1>4

USE ParametersAssumption, InputsAssumption, BoundsAssumption

\* Every initial state satisfies the invariant.
LEMMA InitIInv == Init => IInv
<1> SUFFICES ASSUME Init PROVE IInv
  OBVIOUS
<1> USE DEF Init
<1>1. TypeOK
  <2>1. policyRegistry \in [PolicyId -> Policy]
    BY DEF NoPolicy, Policy
  <2>2. listings \in [TxId -> Listing] /\ txState \in [TxId -> TxState]
    BY DEF NoListing, Listing, TxState
  <2>3. applications \in [AppId -> Application]
    BY DEF NoApplication, Application, AppStatus
  <2>4. engagements \in [EngId -> Engagement]
    BY DEF NoEngagement, Engagement, EngStatus, Time
  <2> QED BY <2>1, <2>2, <2>3, <2>4 DEF TypeOK, Time
<1>2. RecordsAssigned
  BY DEF RecordsAssigned, TxId, AppId, EngId, NoApplication, NoEngagement
<1>3. EngagementHistory /\ LockedIffOneOpen /\ RecordsMatchState /\ PendingIndexExact
  BY DEF EngagementHistory, LockedIffOneOpen, RecordsMatchState, PendingIndexExact,
         NoListing, NoApplication, NoEngagement, AppId
<1> QED BY <1>1, <1>2, <1>3 DEF IInv

\* A payout is well typed, so putting the payouts of a call on the stack
\* keeps the stack well typed.
LEMMA PayType ==
    ASSUME NEW to \in Address, NEW amount \in Nat
    PROVE  pay(to, amount) \in Seq(Payout)
<1>1. <<>> \in Seq(Payout)
  OBVIOUS
<1>2. [to |-> to, amount |-> amount] \in Payout
  BY DEF Payout
<1>3. <<[to |-> to, amount |-> amount]>> \in Seq(Payout)
  BY <1>2
<1> QED BY <1>1, <1>3 DEF pay

\* Two payouts of a call join the stack, as in settle and expire.
LEMMA PayStackType ==
    ASSUME NEW p \in Seq(Payout), NEW q \in Seq(Payout), stack \in Seq(Payout), Pay(p \o q)
    PROVE  stack' \in Seq(Payout)
  BY DEF Pay

\* A new status keeps the applications well typed (engage, reclaim).
LEMMA AppStatusType ==
    ASSUME NEW f \in [AppId -> Application], NEW a \in AppId, NEW st \in AppStatus
    PROVE  [f EXCEPT ![a].status = st] \in [AppId -> Application]
<1>1. [f[a] EXCEPT !.status = st] \in Application
  <2>1. f[a] \in Application
    OBVIOUS
  <2> QED BY <2>1 DEF Application
<1> QED BY <1>1

\* Paid-out collateral keeps the listings well typed (settle, cancel).
LEMMA NoCollateralType ==
    ASSUME NEW f \in [TxId -> Listing], NEW t \in TxId
    PROVE  [f EXCEPT ![t].collateral = 0] \in [TxId -> Listing]
<1>1. [f[t] EXCEPT !.collateral = 0] \in Listing
  <2>1. f[t] \in Listing
    OBVIOUS
  <2> QED BY <2>1 DEF Listing
<1> QED BY <1>1

\* registerPolicy keeps the invariant.
LEMMA RegisterPolicyStep ==
    ASSUME IInv, NEW sender \in Address, NEW policyIdR \in PolicyId, NEW b \in Bundle,
           registerPolicy(sender, policyIdR, b)
    PROVE  IInv'
<1> USE DEF registerPolicy, listingVars, appVars, engVars, fundVars
<1>1. TypeOK'
  BY DEF IInv, TypeOK, Policy
<1>2. RecordsAssigned' /\ EngagementHistory' /\ LockedIffOneOpen' /\ RecordsMatchState'
        /\ PendingIndexExact'
  BY DEF IInv, RecordsAssigned, EngagementHistory, LockedIffOneOpen, RecordsMatchState,
         PendingIndexExact, appOf, txOf
<1> QED BY <1>1, <1>2 DEF IInv

\* register keeps the invariant.
LEMMA RegisterStep ==
    ASSUME IInv, NEW sender \in Address, NEW value \in Amount, NEW cTx \in Commitment,
           NEW txData \in TxData, NEW policyIdR \in PolicyId, NEW r \in Salt, NEW sigma,
           NEW eta \in Nonce, NEW tAtt \in Time,
           register(sender, value, cTx, txData, policyIdR, r, sigma, eta, tAtt)
    PROVE  IInv'
<1> USE DEF register, appVars, engVars, adminVars
<1>1. TypeOK'
  <2>1. nextTxId \in TxId /\ nextTxId + 1 \in 1..(MaxListings + 1)
    BY DEF IInv, TypeOK, TxId
  <2>2. listings' \in [TxId -> Listing] /\ txState' \in [TxId -> TxState]
    BY <2>1 DEF IInv, TypeOK, Listing, TxState
  <2>3. balance' \in Nat /\ wallet' \in [Address -> Nat]
    BY DEF IInv, TypeOK, Receive
  <2> QED BY <2>1, <2>2, <2>3 DEF IInv, TypeOK
<1>2. nextTxId \in TxId /\ txState[nextTxId] = "None"
  BY DEF IInv, TypeOK, TxId, RecordsAssigned
<1>3. cTx[1].settlementShare <= BPS
  BY DEF commitment, shareWithinBps
<1>4. RecordsAssigned'
  BY <1>2, <1>3 DEF IInv, TypeOK, RecordsAssigned, appOf, TxId
<1>5. EngagementHistory' /\ LockedIffOneOpen'
  BY <1>2 DEF IInv, TypeOK, EngagementHistory, LockedIffOneOpen, RecordsAssigned, appOf, txOf
<1>6. RecordsMatchState' /\ PendingIndexExact'
  BY <1>2 DEF IInv, TypeOK, RecordsMatchState, PendingIndexExact
<1> QED BY <1>1, <1>4, <1>5, <1>6 DEF IInv

\* applyFor keeps the invariant.
LEMMA ApplyStep ==
    ASSUME IInv, NEW sender \in Address, NEW value \in Amount, NEW txId \in TxId,
           NEW txData, NEW r, NEW cB \in CB, NEW sigma, NEW eta \in Nonce, NEW tAtt \in Time,
           applyFor(sender, value, txId, txData, r, cB, sigma, eta, tAtt)
    PROVE  IInv'
<1> USE DEF applyFor, listingVars, engVars, adminVars
<1>1. nextAppId \in AppId /\ applications[nextAppId].status = "None"
  BY DEF IInv, TypeOK, AppId, RecordsAssigned
<1>2. TypeOK'
  <2>1. nextAppId + 1 \in 1..(MaxApplications + 1)
    BY <1>1 DEF AppId
  <2>2. applications' \in [AppId -> Application]
    BY <1>1 DEF IInv, TypeOK, Application, AppStatus
  <2>3. pendingApp' \in [TxId -> [Address -> AppId \cup {0}]]
    BY <1>1 DEF IInv, TypeOK
  <2>4. balance' \in Nat /\ wallet' \in [Address -> Nat]
    BY DEF IInv, TypeOK, Receive
  <2> QED BY <2>1, <2>2, <2>3, <2>4 DEF IInv, TypeOK
<1>3. \A e \in EngId : engagements[e].status # "None" => engagements[e].appId # nextAppId
  BY <1>1 DEF IInv, RecordsAssigned, appOf
<1>4. /\ \A a \in AppId : a # nextAppId => applications'[a] = applications[a]
      /\ applications'[nextAppId].status = "Pending"
      /\ applications'[nextAppId].txId = txId /\ applications'[nextAppId].depositor = sender
  BY <1>1 DEF IInv, TypeOK
<1>5. \A e \in EngId : engagements[e].status # "None" =>
          engagements[e].appId \in AppId /\ appOf(e)' = appOf(e) /\ txOf(e)' = txOf(e)
  BY <1>3, <1>4 DEF IInv, RecordsAssigned, appOf, txOf
<1>6. RecordsAssigned'
  <2>1. \A a \in AppId : /\ applications'[a].status # "None" <=> a < nextAppId'
                         /\ applications'[a].status # "None" =>
                               /\ applications'[a].depositor \in Address
                               /\ applications'[a].txId \in TxId
                               /\ txState[applications'[a].txId] # "None"
    <3>1. ASSUME NEW a \in AppId, a # nextAppId
          PROVE  /\ applications'[a] = applications[a]
                 /\ applications[a].status # "None" <=> a < nextAppId
                 /\ a < nextAppId' <=> a < nextAppId
      BY <1>1, <1>4, <3>1 DEF IInv, RecordsAssigned, AppId
    <3>2. nextAppId < nextAppId' /\ txId \in TxId /\ txState[txId] # "None"
      BY <1>1 DEF AppId, isOpen
    <3> QED BY <1>4, <3>1, <3>2 DEF IInv, RecordsAssigned
  <2> QED BY <2>1, <1>5 DEF IInv, RecordsAssigned
<1>7. EngagementHistory' /\ LockedIffOneOpen'
  <2>1. \A e \in EngId : engagements[e].status \in {"Open", "Expired", "Settled"} =>
            txOf(e)' = txOf(e)
    BY <1>5
  <2> QED BY <2>1 DEF IInv, EngagementHistory, LockedIffOneOpen
<1>8. RecordsMatchState'
  BY DEF IInv, RecordsMatchState
<1>9. PendingIndexExact'
  <2>1. \A t \in TxId, b \in Address : pendingApp[t][b] # nextAppId
    BY <1>1 DEF IInv, PendingIndexExact, AppId
  <2>2. \A t \in TxId, b \in Address :
            pendingApp'[t][b] = IF t = txId /\ b = sender THEN nextAppId ELSE pendingApp[t][b]
    BY DEF IInv, TypeOK
  <2>3. \A t \in TxId, b \in Address :
            pendingApp[t][b] # 0 => pendingApp[t][b] \in AppId
    BY DEF IInv, TypeOK
  <2>4. \A a \in AppId : applications[a].status = "Pending" =>
            /\ applications[a].txId \in TxId /\ applications[a].depositor \in Address
            /\ a # nextAppId /\ a # 0
            /\ ~(applications[a].txId = txId /\ applications[a].depositor = sender)
    BY <1>1 DEF IInv, RecordsAssigned, PendingIndexExact, AppId
  <2> QED BY <1>1, <1>4, <2>1, <2>2, <2>3, <2>4 DEF IInv, PendingIndexExact
<1> QED BY <1>2, <1>6, <1>7, <1>8, <1>9 DEF IInv

\* A settling engagement is open: an expired one is past its window, and the
\* listing of a settled one is not locked.
LEMMA SettleOpen ==
    ASSUME IInv, NEW sender, NEW engId \in EngId, NEW txData, NEW r, NEW sigma, NEW eta, NEW tAtt,
           settle(sender, engId, txData, r, sigma, eta, tAtt)
    PROVE  engagements[engId].status = "Open"
<1>1. engagements[engId].status \in EngStatus \ {"None"} /\ txState[txOf(engId)] = "Locked"
  <2>1. engagements[engId].status \in EngStatus
    BY DEF IInv, TypeOK, Engagement
  <2> QED BY <2>1, ZenonT(20) DEF settle, txOf, appOf
<1>2. engagements[engId].status # "Settled"
  BY <1>1 DEF IInv, EngagementHistory
<1>3. engagements[engId].status # "Expired"
  <2>1. now \in Nat /\ engagements[engId].expiresAt \in Nat
    BY DEF IInv, TypeOK, Engagement, Time
  <2>2. now <= engagements[engId].expiresAt
    BY ZenonT(20) DEF settle
  <2> QED BY <2>1, <2>2 DEF IInv, EngagementHistory
<1> QED BY <1>1, <1>2, <1>3 DEF EngStatus

\* What closing the open engagement of a locked listing does to the parts of
\* the invariant that settle and expire have in common.
LEMMA CloseStep ==
    ASSUME IInv, TypeOK', NEW engId \in EngId, engagements[engId].status = "Open",
           NEW s \in {"Settled", "Expired"}, NEW u \in {"Settled", "Expired", "Cancelled"},
           s = "Settled" => u = "Settled",
           s = "Expired" => engagements[engId].expiresAt < now,
           engagements' = [engagements EXCEPT ![engId].status = s],
           txState' = [txState EXCEPT ![txOf(engId)] = u],
           \A t \in TxId : /\ listings'[t].owner = listings[t].owner
                           /\ listings'[t].policyIdR = listings[t].policyIdR
                           /\ listings'[t].cTx = listings[t].cTx,
           UNCHANGED <<now, nextTxId, nextEngId, appVars>>
    PROVE  RecordsAssigned' /\ EngagementHistory' /\ LockedIffOneOpen' /\ PendingIndexExact'
<1> USE DEF appVars
<1>1. txOf(engId) \in TxId /\ txState[txOf(engId)] = "Locked"
  BY DEF IInv, LockedIffOneOpen, RecordsAssigned, appOf, txOf
<1>2. \A e \in EngId : e # engId => engagements'[e] = engagements[e]
  BY DEF IInv, TypeOK
<1>3. engagements'[engId] = [engagements[engId] EXCEPT !.status = s]
  BY DEF IInv, TypeOK
<1>4. \A e \in EngId : /\ engagements'[e].appId = engagements[e].appId
                       /\ engagements'[e].expiresAt = engagements[e].expiresAt
                       /\ engagements'[e].status # "None" <=> engagements[e].status # "None"
  <2>1. engagements[engId] \in Engagement
    BY DEF IInv, TypeOK
  <2>2. /\ engagements'[engId].appId = engagements[engId].appId
        /\ engagements'[engId].expiresAt = engagements[engId].expiresAt
        /\ engagements'[engId].status = s
    BY <1>3, <2>1 DEF Engagement
  <2> QED BY <1>2, <2>2
<1>5. engagements'[engId].status = s
  BY <1>3 DEF IInv, TypeOK, Engagement
<1>6. \A e \in EngId : appOf(e)' = appOf(e) /\ txOf(e)' = txOf(e)
  BY <1>4 DEF appOf, txOf
<1>7. \A t \in TxId : txState'[t] = IF t = txOf(engId) THEN u ELSE txState[t]
  BY DEF IInv, TypeOK
<1>8. RecordsAssigned'
  BY <1>1, <1>4, <1>6, <1>7 DEF IInv, RecordsAssigned
<1>9. EngagementHistory'
  <2>1. \A e \in EngId : engagements'[e].status = "Settled" => txState'[txOf(e)'] = "Settled"
    <3> SUFFICES ASSUME NEW e \in EngId, engagements'[e].status = "Settled"
                 PROVE  txState'[txOf(e)] = "Settled"
      BY <1>6
    <3>1. CASE e = engId
      BY <3>1, <1>1, <1>5, <1>7
    <3>2. CASE e # engId
      <4>1. engagements[e].status = "Settled"
        BY <3>2, <1>2
      <4>2. txState[txOf(e)] = "Settled" /\ txOf(e) \in TxId
        BY <4>1 DEF IInv, EngagementHistory, RecordsAssigned, appOf, txOf
      <4> QED BY <4>2, <1>1, <1>7
    <3> QED BY <3>1, <3>2
  <2>2. \A e \in EngId : engagements'[e].status = "Expired" => engagements'[e].expiresAt < now
    BY <1>2, <1>4, <1>5 DEF IInv, EngagementHistory
  <2>3. \A e, f \in EngId :
           /\ engagements'[e].status # "None" /\ engagements'[f].status # "None"
           /\ engagements'[e].appId = engagements'[f].appId
           => e = f
    BY <1>4 DEF IInv, EngagementHistory
  <2> QED BY <2>1, <2>2, <2>3 DEF EngagementHistory
<1>10. LockedIffOneOpen'
  <2>1. \A e \in EngId : engagements'[e].status = "Open" =>
            e # engId /\ engagements[e].status = "Open" /\ txOf(e) # txOf(engId) /\ txOf(e) \in TxId
    BY <1>2, <1>5 DEF IInv, LockedIffOneOpen, RecordsAssigned, appOf, txOf
  <2>2. \A t \in TxId : txState'[t] = "Locked" =>
            \E e \in EngId : engagements'[e].status = "Open" /\ txOf(e) = t
    <3> SUFFICES ASSUME NEW t \in TxId, txState'[t] = "Locked"
                 PROVE  \E e \in EngId : engagements'[e].status = "Open" /\ txOf(e) = t
      OBVIOUS
    <3>1. t # txOf(engId) /\ txState[t] = "Locked"
      BY <1>7
    <3>2. PICK e \in EngId : engagements[e].status = "Open" /\ txOf(e) = t
      BY <3>1 DEF IInv, LockedIffOneOpen
    <3>3. engagements'[e] = engagements[e]
      BY <3>1, <3>2, <1>2
    <3> QED BY <3>2, <3>3
  <2> QED BY <2>1, <2>2, <1>6, <1>7 DEF IInv, LockedIffOneOpen
<1>11. PendingIndexExact'
  BY DEF IInv, PendingIndexExact
<1> QED BY <1>8, <1>9, <1>10, <1>11

\* The records settle and expire reach from an open engagement.
LEMMA OpenRecords ==
    ASSUME IInv, NEW engId \in EngId, engagements[engId].status = "Open"
    PROVE  /\ appOf(engId).depositor \in Address /\ appOf(engId).deposit \in Nat
           /\ txOf(engId) \in TxId /\ txState[txOf(engId)] = "Locked"
           /\ listings[txOf(engId)] \in Listing
           /\ listings[txOf(engId)].owner \in Address
           /\ listings[txOf(engId)].collateral \in Nat
           /\ listings[txOf(engId)].expirations \in Nat
           /\ listings[txOf(engId)].expirations < MAX_EXPIRATIONS
           /\ listings[txOf(engId)].cTx[1].settlementShare <= BPS
           /\ listings[txOf(engId)].cTx[1] \in TxData
<1>1. engagements[engId].appId \in AppId /\ appOf(engId).status = "Engaged"
  BY DEF IInv, RecordsAssigned
<1>2. appOf(engId) \in Application
  BY <1>1 DEF IInv, TypeOK, appOf
<1>3. txOf(engId) \in TxId /\ txState[txOf(engId)] = "Locked" /\ appOf(engId).depositor \in Address
  BY <1>1 DEF IInv, RecordsAssigned, LockedIffOneOpen, appOf, txOf
<1>4. listings[txOf(engId)] \in Listing
  BY <1>3 DEF IInv, TypeOK
<1>5. /\ listings[txOf(engId)].cTx \in Commitment
      /\ listings[txOf(engId)].owner \in Address
      /\ listings[txOf(engId)].cTx[1].settlementShare <= BPS
  BY <1>3 DEF IInv, RecordsAssigned
<1>6. listings[txOf(engId)].expirations < MAX_EXPIRATIONS
  BY <1>3 DEF IInv, RecordsMatchState
<1> QED BY <1>2, <1>3, <1>4, <1>5, <1>6 DEF Application, Listing, Commitment

LEMMA SetCollateral ==
    ASSUME NEW f \in [TxId -> Listing], NEW t, NEW n \in Nat
    PROVE  [f EXCEPT ![t].collateral = n] \in [TxId -> Listing]
BY DEF Listing

\* settle keeps the invariant.
LEMMA SettleStep ==
    ASSUME IInv, NEW sender, NEW engId \in EngId, NEW txData, NEW r, NEW sigma,
           NEW eta \in Nonce, NEW tAtt,
           settle(sender, engId, txData, r, sigma, eta, tAtt)
    PROVE  IInv'
<1> DEFINE a == appOf(engId)
           txId == txOf(engId)
           l == listings[txId]
           ownerShare == (a.deposit * txData.settlementShare) \div BPS
<1>1. engagements[engId].status = "Open"
  BY SettleOpen
<1>2. /\ a.depositor \in Address /\ a.deposit \in Nat
      /\ txId \in TxId /\ txState[txId] = "Locked"
      /\ l \in Listing /\ l.owner \in Address /\ l.collateral \in Nat
      /\ l.cTx[1].settlementShare <= BPS /\ l.cTx[1] \in TxData
  BY <1>1, OpenRecords
<1>3. /\ commitment(txData, l.policyIdR, r) = l.cTx
      /\ consumed' = consumed \cup {eta}
      /\ engagements' = [engagements EXCEPT ![engId].status = "Settled"]
      /\ txState' = [txState EXCEPT ![txId] = "Settled"]
      /\ listings' = [listings EXCEPT ![txId].collateral = 0]
      /\ Pay(pay(l.owner, ownerShare + l.collateral) \o pay(a.depositor, a.deposit - ownerShare))
      /\ UNCHANGED <<now, adminVars, registered, nextTxId, appVars, nextEngId,
                     balance, credit, wallet>>
  BY ZenonT(20) DEF settle, appOf, txOf
<1>4. txData \in TxData /\ txData.settlementShare \in Nat /\ txData.settlementShare <= BPS
  BY <1>2, <1>3 DEF commitment
<1>5. ownerShare \in Nat /\ a.deposit - ownerShare \in Nat /\ ownerShare + l.collateral \in Nat
  <2>1. ownerShare \in Nat /\ ownerShare <= a.deposit
    BY <1>2, <1>4, ShareBound
  <2> HIDE DEF ownerShare
  <2> QED BY <2>1, <1>2
<1>6. stack' \in Seq(Payout)
  <2>1. stack \in Seq(Payout)
    BY DEF IInv, TypeOK
  <2> HIDE DEF ownerShare
  <2>2. /\ pay(l.owner, ownerShare + l.collateral) \in Seq(Payout)
        /\ pay(a.depositor, a.deposit - ownerShare) \in Seq(Payout)
    BY <1>2, <1>5, PayType
  <2> QED BY <1>3, <2>1, <2>2, PayStackType
<1> HIDE DEF a, txId, l, ownerShare
<1>7. TypeOK'
  <2>1. engagements' \in [EngId -> Engagement]
    BY <1>3 DEF IInv, TypeOK, Engagement, EngStatus
  <2>2. txState' \in [TxId -> TxState]
    BY <1>3 DEF IInv, TypeOK, TxState
  <2>3. listings' \in [TxId -> Listing]
    <3>1. listings \in [TxId -> Listing]
      BY DEF IInv, TypeOK
    <3>2. listings' = [listings EXCEPT ![txId].collateral = 0]
      BY <1>3
    <3> QED BY <3>1, <3>2, SetCollateral, Zenon
  <2> QED BY <1>3, <1>6, <2>1, <2>2, <2>3 DEF IInv, TypeOK, adminVars, appVars
<1>8. RecordsAssigned' /\ EngagementHistory' /\ LockedIffOneOpen' /\ PendingIndexExact'
  <2>1. \A t \in TxId : /\ listings'[t].owner = listings[t].owner
                        /\ listings'[t].policyIdR = listings[t].policyIdR
                        /\ listings'[t].cTx = listings[t].cTx
    BY <1>3, ZenonT(20) DEF IInv, TypeOK, Listing
  <2> QED BY <1>1, <1>3, <1>7, <2>1, CloseStep DEF txId, appVars
<1>9. RecordsMatchState'
  BY <1>2, <1>3 DEF IInv, TypeOK, Listing, RecordsMatchState
<1> QED BY <1>7, <1>8, <1>9 DEF IInv

\* expire keeps the invariant.
LEMMA ExpireStep ==
    ASSUME IInv, NEW engId \in EngId, expire(engId)
    PROVE  IInv'
<1> DEFINE a == appOf(engId)
           txId == txOf(engId)
           l == listings[txId]
           surviving == (l.collateral * RHO) \div BPS
           exhausted == exhausts(l)
<1>1. engagements[engId].status = "Open" /\ now > engagements[engId].expiresAt
  BY ZenonT(20) DEF expire, lockWindowElapsed
<1>2. /\ a.depositor \in Address /\ a.deposit \in Nat
      /\ txId \in TxId /\ txState[txId] = "Locked"
      /\ l \in Listing /\ l.owner \in Address /\ l.collateral \in Nat
      /\ l.expirations \in Nat /\ l.expirations < MAX_EXPIRATIONS
  BY <1>1, OpenRecords
<1>3. /\ engagements' = [engagements EXCEPT ![engId].status = "Expired"]
      /\ txState' = [txState EXCEPT ![txId] = IF exhausted THEN "Cancelled" ELSE "Expired"]
      /\ listings' = [listings EXCEPT ![txId] =
             [l EXCEPT !.expirations = l.expirations + 1,
                       !.collateral = IF exhausted THEN 0 ELSE surviving]]
      /\ Pay(pay(a.depositor, a.deposit + (l.collateral - surviving))
               \o pay(l.owner, IF exhausted THEN surviving ELSE 0))
      /\ UNCHANGED <<now, adminVars, registered, nextTxId, consumed, appVars, nextEngId,
                     balance, credit, wallet>>
  BY ZenonT(20) DEF expire, appOf, txOf
<1>4. surviving \in Nat /\ surviving <= l.collateral
  <2>1. RHO \in Nat /\ RHO <= BPS
    BY DEF BPS
  <2> HIDE DEF l
  <2> QED BY <1>2, <2>1, ShareBound
<1> HIDE DEF surviving
<1>5. stack' \in Seq(Payout)
  <2>1. stack \in Seq(Payout)
    BY DEF IInv, TypeOK
  <2>2. /\ a.deposit + (l.collateral - surviving) \in Nat
        /\ (IF exhausted THEN surviving ELSE 0) \in Nat
    BY <1>2, <1>4
  <2>3. /\ pay(a.depositor, a.deposit + (l.collateral - surviving)) \in Seq(Payout)
        /\ pay(l.owner, IF exhausted THEN surviving ELSE 0) \in Seq(Payout)
    BY <1>2, <2>2, PayType
  <2> QED BY <1>3, <2>1, <2>3, PayStackType
<1> HIDE DEF a, txId
<1> DEFINE m == [l EXCEPT !.expirations = l.expirations + 1,
                          !.collateral = IF exhausted THEN 0 ELSE surviving]
<1>6. m \in Listing /\ listings' = [listings EXCEPT ![txId] = m]
  <2>1. m \in Listing
    <3>1. ASSUME NEW k \in Nat, NEW c \in Nat, NEW x \in Listing
          PROVE  [x EXCEPT !.expirations = k, !.collateral = c] \in Listing
      BY DEF Listing
    <3>2. l.expirations + 1 \in Nat /\ (IF exhausted THEN 0 ELSE surviving) \in Nat
      BY <1>2, <1>4
    <3> HIDE DEF l, exhausted
    <3> QED BY <1>2, <3>1, <3>2, ZenonT(20)
  <2> QED BY <1>3, <2>1
<1>7. /\ m.expirations = l.expirations + 1 /\ (exhausted => m.collateral = 0)
       /\ m.owner = l.owner /\ m.policyIdR = l.policyIdR /\ m.cTx = l.cTx
  BY <1>2 DEF Listing
<1> HIDE DEF m
<1>8. \A t \in TxId : listings'[t] = IF t = txId THEN m ELSE listings[t]
  BY <1>6 DEF IInv, TypeOK
<1>9. TypeOK'
  <2>1. engagements' \in [EngId -> Engagement]
    BY <1>3 DEF IInv, TypeOK, Engagement, EngStatus
  <2>2. txState' \in [TxId -> TxState]
    BY <1>3 DEF IInv, TypeOK, TxState
  <2>3. listings' \in [TxId -> Listing]
    BY <1>6 DEF IInv, TypeOK
  <2> QED BY <1>3, <1>5, <2>1, <2>2, <2>3 DEF IInv, TypeOK, adminVars, appVars
<1>10. RecordsAssigned' /\ EngagementHistory' /\ LockedIffOneOpen' /\ PendingIndexExact'
  <2>1. \A t \in TxId : /\ listings'[t].owner = listings[t].owner
                        /\ listings'[t].policyIdR = listings[t].policyIdR
                        /\ listings'[t].cTx = listings[t].cTx
    BY <1>7, <1>8
  <2>2. engagements[engId].expiresAt < now
    BY <1>1 DEF IInv, TypeOK, Engagement, Time
  <2> QED BY <1>1, <1>3, <1>9, <2>1, <2>2, CloseStep DEF txId, appVars
<1>11. RecordsMatchState'
  <2>1. \A t \in TxId : txState'[t] =
            IF t = txId THEN IF exhausted THEN "Cancelled" ELSE "Expired" ELSE txState[t]
    BY <1>3 DEF IInv, TypeOK
  <2>2. /\ listings'[txId].expirations = l.expirations + 1
        /\ exhausted => listings'[txId].collateral = 0
    BY <1>2, <1>7, <1>8
  <2>3. ~exhausted => l.expirations + 1 < MAX_EXPIRATIONS
    BY <1>2 DEF exhausts
  <2> QED BY <1>8, <2>1, <2>2, <2>3 DEF IInv, RecordsMatchState
<1> QED BY <1>9, <1>10, <1>11 DEF IInv

\* engage keeps the invariant.
LEMMA EngageStep ==
    ASSUME IInv, NEW sender \in Address, NEW txId \in TxId, NEW appId \in AppId,
           engage(sender, txId, appId)
    PROVE  IInv'
<1>0. /\ nextEngId <= MaxEngagements /\ now + TAU_LOCK < MaxTime
      /\ nextEngId' = nextEngId + 1
      /\ engagements' = [engagements EXCEPT ![nextEngId] =
             [appId |-> appId, expiresAt |-> now + TAU_LOCK, status |-> "Open"]]
      /\ applications' = [applications EXCEPT ![appId].status = "Engaged"]
      /\ pendingApp' = [pendingApp EXCEPT ![txId][applications[appId].depositor] = 0]
      /\ txState' = [txState EXCEPT ![txId] = "Locked"]
      /\ UNCHANGED <<now, adminVars, listings, registered, nextTxId, consumed, nextAppId, fundVars>>
  BY DEF engage, clearPending
<1>1. PICK n \in EngId : n = nextEngId /\ engagements[n].status = "None"
  <2>1. nextEngId \in EngId /\ ~(nextEngId < nextEngId)
    BY <1>0 DEF IInv, TypeOK, EngId
  <2> QED BY <2>1 DEF IInv, RecordsAssigned
<1>2. /\ applications[appId].status = "Pending" /\ applications[appId].txId = txId
      /\ applications[appId].depositor \in Address
      /\ txState[txId] \in {"Active", "Expired"}
      /\ listings[txId].expirations < MAX_EXPIRATIONS
  BY DEF engage, IInv, RecordsAssigned, isOpen
<1>3. TypeOK'
  <2>1. nextEngId + 1 \in 1..(MaxEngagements + 1)
    BY <1>0, <1>1 DEF EngId
  <2>2. engagements' \in [EngId -> Engagement]
    <3>1. now + TAU_LOCK \in Time
      <4>1. now \in Nat
        BY DEF IInv, TypeOK, Time
      <4>2. now + TAU_LOCK \in Nat /\ now + TAU_LOCK < MaxTime
        BY <1>0, <4>1
      <4> QED BY <4>2 DEF Time
    <3> QED BY <1>0, <1>1, <3>1 DEF IInv, TypeOK, Engagement, EngStatus
  <2>3. applications' \in [AppId -> Application]
    BY <1>0, AppStatusType DEF IInv, TypeOK, AppStatus
  <2>4. pendingApp' \in [TxId -> [Address -> AppId \cup {0}]]
    BY <1>0, <1>2 DEF IInv, TypeOK
  <2>5. txState' \in [TxId -> TxState]
    BY <1>0 DEF IInv, TypeOK, TxState
  <2> QED BY <1>0, <2>1, <2>2, <2>3, <2>4, <2>5 DEF IInv, TypeOK, adminVars, fundVars
<1>4. /\ \A e \in EngId : e # n => engagements'[e] = engagements[e]
      /\ engagements'[n].appId = appId /\ engagements'[n].status = "Open"
  BY <1>0, <1>1 DEF IInv, TypeOK
<1>5. /\ \A a \in AppId : a # appId => applications'[a] = applications[a]
      /\ \A a \in AppId : /\ applications'[a].txId = applications[a].txId
                          /\ applications'[a].depositor = applications[a].depositor
      /\ applications'[appId].status = "Engaged"
  BY <1>0 DEF IInv, TypeOK, Application
<1>6. \A t \in TxId : txState'[t] = IF t = txId THEN "Locked" ELSE txState[t]
  BY <1>0 DEF IInv, TypeOK
<1>7. \A e \in EngId : engagements[e].status # "None" =>
          /\ engagements[e].appId \in AppId /\ engagements[e].appId # appId
          /\ e # n /\ appOf(e)' = appOf(e) /\ txOf(e)' = txOf(e)
          /\ txOf(e) \in TxId
  BY <1>1, <1>2, <1>4, <1>5 DEF IInv, RecordsAssigned, appOf, txOf
<1>8. txOf(n)' = txId /\ appOf(n)' = applications'[appId]
  BY <1>2, <1>4, <1>5 DEF appOf, txOf
<1>9. RecordsAssigned'
  <2>1. \A t \in TxId : txState'[t] # "None" <=> txState[t] # "None"
    BY <1>2, <1>6
  <2>2. \A a \in AppId : /\ applications'[a].status # "None" <=> a < nextAppId
                         /\ applications'[a].status # "None" =>
                               /\ applications'[a].depositor \in Address
                               /\ applications'[a].txId \in TxId
                               /\ txState'[applications'[a].txId] # "None"
    BY <1>0, <1>2, <1>5, <2>1 DEF IInv, RecordsAssigned
  <2>3. \A e \in EngId : /\ engagements'[e].status # "None" <=> e < nextEngId'
                         /\ engagements'[e].status # "None" =>
                               /\ engagements'[e].appId \in AppId
                               /\ appOf(e)'.status = "Engaged"
    <3> SUFFICES ASSUME NEW e \in EngId
                 PROVE  /\ engagements'[e].status # "None" <=> e < nextEngId'
                        /\ engagements'[e].status # "None" =>
                               engagements'[e].appId \in AppId /\ appOf(e)'.status = "Engaged"
      OBVIOUS
    <3>1. CASE e = n
      BY <3>1, <1>0, <1>1, <1>4, <1>5, <1>8 DEF EngId
    <3>2. CASE e # n
      <4>1. e < nextEngId' <=> e < nextEngId
        BY <3>2, <1>0, <1>1 DEF EngId
      <4> QED BY <3>2, <4>1, <1>4, <1>7 DEF IInv, RecordsAssigned
    <3> QED BY <3>1, <3>2
  <2> QED BY <1>0, <2>1, <2>2, <2>3 DEF IInv, RecordsAssigned
<1>10. EngagementHistory'
  <2>1. \A e, f \in EngId :
           /\ engagements'[e].status # "None" /\ engagements'[f].status # "None"
           /\ engagements'[e].appId = engagements'[f].appId
           => e = f
    BY <1>4, <1>7 DEF IInv, EngagementHistory
  <2>2. \A e \in EngId : engagements'[e].status = "Expired" => engagements'[e].expiresAt < now
    BY <1>4 DEF IInv, EngagementHistory
  <2>3. \A e \in EngId : engagements'[e].status = "Settled" => txState'[txOf(e)'] = "Settled"
    <3> SUFFICES ASSUME NEW e \in EngId, engagements'[e].status = "Settled"
                 PROVE  txState'[txOf(e)'] = "Settled"
      OBVIOUS
    <3>1. engagements[e].status = "Settled"
      BY <1>4
    <3>2. txOf(e)' = txOf(e) /\ txOf(e) \in TxId /\ txState[txOf(e)] = "Settled"
      BY <3>1, <1>7 DEF IInv, EngagementHistory
    <3> QED BY <3>2, <1>2, <1>6
  <2> QED BY <1>0, <2>1, <2>2, <2>3 DEF EngagementHistory
<1>11. LockedIffOneOpen'
  <2>1. \A e \in EngId : engagements'[e].status = "Open" /\ e # n =>
            /\ engagements[e].status = "Open" /\ txOf(e)' = txOf(e) /\ txOf(e) \in TxId
            /\ txState[txOf(e)] = "Locked" /\ txOf(e) # txId
    BY <1>2, <1>4, <1>7 DEF IInv, LockedIffOneOpen
  <2>2. \A e \in EngId : engagements'[e].status = "Open" => txState'[txOf(e)'] = "Locked"
    BY <1>6, <1>8, <2>1
  <2>3. \A t \in TxId : txState'[t] = "Locked" =>
            \E e \in EngId : engagements'[e].status = "Open" /\ txOf(e)' = t
    <3> SUFFICES ASSUME NEW t \in TxId, txState'[t] = "Locked"
                 PROVE  \E e \in EngId : engagements'[e].status = "Open" /\ txOf(e)' = t
      OBVIOUS
    <3>1. CASE t = txId
      BY <3>1, <1>1, <1>4, <1>8
    <3>2. CASE t # txId
      <4>1. PICK e \in EngId : engagements[e].status = "Open" /\ txOf(e) = t
        BY <3>2, <1>6 DEF IInv, LockedIffOneOpen
      <4> QED BY <4>1, <1>4, <1>7
    <3> QED BY <3>1, <3>2
  <2>4. \A e, f \in EngId :
           engagements'[e].status = "Open" /\ engagements'[f].status = "Open"
             /\ txOf(e)' = txOf(f)' => e = f
    BY <1>8, <2>1 DEF IInv, LockedIffOneOpen
  <2> QED BY <2>2, <2>3, <2>4 DEF LockedIffOneOpen
<1>12. RecordsMatchState'
  BY <1>0, <1>2, <1>6 DEF IInv, RecordsMatchState
<1>13. PendingIndexExact'
  <2>1. \A t \in TxId, b \in Address : pendingApp'[t][b] =
            IF t = txId /\ b = applications[appId].depositor THEN 0 ELSE pendingApp[t][b]
    BY <1>0, <1>2 DEF IInv, TypeOK
  <2>2. \A t \in TxId, b \in Address : pendingApp[t][b] # 0 => pendingApp[t][b] \in AppId
    BY DEF IInv, TypeOK
  <2>3. \A a \in AppId : applications[a].status = "Pending" =>
            applications[a].txId \in TxId /\ applications[a].depositor \in Address /\ a # 0
    BY DEF IInv, RecordsAssigned, AppId
  <2>4. pendingApp[txId][applications[appId].depositor] = appId
    BY <1>2 DEF IInv, PendingIndexExact
  <2> QED BY <1>2, <1>5, <2>1, <2>2, <2>3, <2>4 DEF IInv, PendingIndexExact
<1> QED BY <1>3, <1>9, <1>10, <1>11, <1>12, <1>13 DEF IInv

\* reclaim keeps the invariant.
LEMMA ReclaimStep ==
    ASSUME IInv, NEW sender \in Address, NEW appId \in AppId, reclaim(sender, appId)
    PROVE  IInv'
<1>0. /\ applications[appId].status = "Pending" /\ sender = applications[appId].depositor
      /\ applications' = [applications EXCEPT ![appId].status = "Reclaimed"]
      /\ pendingApp' = [pendingApp EXCEPT ![applications[appId].txId][sender] = 0]
      /\ Pay(pay(sender, applications[appId].deposit))
      /\ UNCHANGED <<now, adminVars, listingVars, consumed, nextAppId, engVars,
                     balance, credit, wallet>>
  BY DEF reclaim, clearPending
<1>1. /\ applications[appId].status = "Pending" /\ applications[appId].depositor = sender
      /\ applications[appId].txId \in TxId /\ applications[appId].deposit \in Nat
  BY <1>0 DEF IInv, TypeOK, Application, RecordsAssigned
<1>2. TypeOK'
  <2>1. applications' \in [AppId -> Application]
    BY <1>0, AppStatusType DEF IInv, TypeOK, AppStatus
  <2>2. pendingApp' \in [TxId -> [Address -> AppId \cup {0}]]
    BY <1>0, <1>1 DEF IInv, TypeOK
  <2>3. stack' \in Seq(Payout)
    <3>1. pay(sender, applications[appId].deposit) \in Seq(Payout) /\ stack \in Seq(Payout)
      BY <1>1, PayType DEF IInv, TypeOK
    <3> QED BY <1>0, <3>1 DEF Pay
  <2> QED BY <1>0, <2>1, <2>2, <2>3 DEF IInv, TypeOK, adminVars, listingVars, engVars
<1>3. /\ \A a \in AppId : a # appId => applications'[a] = applications[a]
      /\ \A a \in AppId : /\ applications'[a].txId = applications[a].txId
                          /\ applications'[a].depositor = applications[a].depositor
      /\ applications'[appId].status = "Reclaimed"
  BY <1>0 DEF IInv, TypeOK, Application
<1>4. \A e \in EngId : engagements[e].status # "None" =>
          /\ engagements[e].appId \in AppId /\ engagements[e].appId # appId
          /\ appOf(e)' = appOf(e) /\ txOf(e)' = txOf(e)
  BY <1>0, <1>1, <1>3 DEF IInv, RecordsAssigned, appOf, txOf, engVars
<1>5. RecordsAssigned'
  BY <1>0, <1>1, <1>3, <1>4 DEF IInv, RecordsAssigned, listingVars, engVars
<1>6. EngagementHistory' /\ LockedIffOneOpen'
  <2>1. \A e \in EngId : engagements[e].status \in {"Open", "Expired", "Settled"} =>
            txOf(e)' = txOf(e)
    BY <1>4
  <2> QED BY <1>0, <2>1 DEF IInv, EngagementHistory, LockedIffOneOpen, listingVars, engVars
<1>7. RecordsMatchState'
  BY <1>0 DEF IInv, RecordsMatchState, listingVars
<1>8. PendingIndexExact'
  <2>1. \A t \in TxId, b \in Address : pendingApp'[t][b] =
            IF t = applications[appId].txId /\ b = sender THEN 0 ELSE pendingApp[t][b]
    BY <1>0, <1>1 DEF IInv, TypeOK
  <2>2. \A t \in TxId, b \in Address : pendingApp[t][b] # 0 => pendingApp[t][b] \in AppId
    BY DEF IInv, TypeOK
  <2>3. \A a \in AppId : applications[a].status = "Pending" =>
            applications[a].txId \in TxId /\ applications[a].depositor \in Address /\ a # 0
    BY DEF IInv, RecordsAssigned, AppId
  <2>4. pendingApp[applications[appId].txId][sender] = appId
    BY <1>1 DEF IInv, PendingIndexExact
  <2> QED BY <1>1, <1>3, <2>1, <2>2, <2>3, <2>4 DEF IInv, PendingIndexExact
<1> QED BY <1>2, <1>5, <1>6, <1>7, <1>8 DEF IInv

\* cancel keeps the invariant: no engagement of the listing is open.
LEMMA CancelStep ==
    ASSUME IInv, NEW sender \in Address, NEW txId \in TxId, cancel(sender, txId)
    PROVE  IInv'
<1> USE DEF appVars, engVars
<1>0. /\ txState[txId] \in {"Active", "Expired"}
      /\ txState' = [txState EXCEPT ![txId] = "Cancelled"]
      /\ listings' = [listings EXCEPT ![txId].collateral = 0]
      /\ Pay(pay(sender, listings[txId].collateral))
      /\ UNCHANGED <<now, adminVars, registered, nextTxId, consumed, appVars, engVars,
                     balance, credit, wallet>>
  BY DEF cancel
<1>1. TypeOK'
  <2>1. listings' \in [TxId -> Listing] /\ txState' \in [TxId -> TxState]
    BY <1>0, NoCollateralType DEF IInv, TypeOK, TxState
  <2>2. stack' \in Seq(Payout)
    <3>1. listings[txId].collateral \in Nat /\ stack \in Seq(Payout)
      BY DEF IInv, TypeOK, Listing
    <3>2. pay(sender, listings[txId].collateral) \in Seq(Payout)
      BY <3>1, PayType
    <3> QED BY <1>0, <3>1, <3>2 DEF Pay
  <2> QED BY <1>0, <2>1, <2>2 DEF IInv, TypeOK, adminVars
<1>2. \A t \in TxId : /\ txState'[t] = IF t = txId THEN "Cancelled" ELSE txState[t]
                      /\ listings'[t].owner = listings[t].owner
                      /\ listings'[t].policyIdR = listings[t].policyIdR
                      /\ listings'[t].cTx = listings[t].cTx
                      /\ listings'[t].expirations = listings[t].expirations
                      /\ listings'[t].collateral = IF t = txId THEN 0 ELSE listings[t].collateral
  <2>1. listings \in [TxId -> Listing] /\ txState \in [TxId -> TxState]
    BY DEF IInv, TypeOK
  <2> QED BY <1>0, <2>1 DEF Listing
<1>3. \A e \in EngId : appOf(e)' = appOf(e) /\ txOf(e)' = txOf(e)
  BY <1>0 DEF appOf, txOf
<1>4. \A e \in EngId : engagements[e].status # "None" => txOf(e) \in TxId
  BY DEF IInv, RecordsAssigned, appOf, txOf
<1>5. RecordsAssigned'
  BY <1>0, <1>2, <1>3 DEF IInv, RecordsAssigned
<1>6. EngagementHistory' /\ LockedIffOneOpen'
  <2>1. \A e \in EngId : engagements[e].status \in {"Open", "Settled"} => txOf(e) # txId
    BY <1>0 DEF IInv, EngagementHistory, LockedIffOneOpen
  <2> QED BY <1>0, <1>2, <1>3, <1>4, <2>1 DEF IInv, EngagementHistory, LockedIffOneOpen
<1>7. RecordsMatchState' /\ PendingIndexExact'
  BY <1>0, <1>2 DEF IInv, RecordsMatchState, PendingIndexExact
<1> QED BY <1>1, <1>5, <1>6, <1>7 DEF IInv

\* The steps that leave every record alone (setNotaryVerifier, withdraw, the
\* payouts, a later block) need only keep the types.
LEMMA RecordsUntouched ==
    ASSUME IInv, TypeOK', UNCHANGED <<listingVars, appVars, engVars>>, now' \in Nat, now <= now'
    PROVE  IInv'
<1> USE DEF listingVars, appVars, engVars
<1>1. EngagementHistory'
  <2>1. \A e \in EngId : engagements[e].expiresAt \in Nat
    BY DEF IInv, TypeOK, Engagement, Time
  <2>2. now \in Nat
    BY DEF IInv, TypeOK, Time
  <2> QED BY <2>1, <2>2 DEF IInv, EngagementHistory, appOf, txOf
<1>2. RecordsAssigned' /\ LockedIffOneOpen' /\ RecordsMatchState' /\ PendingIndexExact'
  BY DEF IInv, RecordsAssigned, LockedIffOneOpen, RecordsMatchState, PendingIndexExact, appOf, txOf
<1> QED BY <1>1, <1>2 DEF IInv

\* withdraw and the payout steps keep the types.
LEMMA FundsStep ==
    ASSUME IInv, Payouts \/ \E sender \in Address : withdraw(sender)
    PROVE  IInv'
<1> USE DEF adminVars, listingVars, appVars, engVars
<1>1. now \in Nat /\ stack \in Seq(Payout) /\ credit \in [Address -> Nat]
        /\ wallet \in [Address -> Nat] /\ balance \in Nat
  BY DEF IInv, TypeOK, Time
<1>2. stack # <<>> => Head(stack) \in Payout /\ Tail(stack) \in Seq(Payout)
  BY <1>1
<1>3. CASE PayoutDelivered
  <2>1. Head(stack).to \in Address /\ Head(stack).amount \in Nat
          /\ [Head(stack) EXCEPT !.amount = 0] \in Payout
    BY <1>2, <1>3 DEF PayoutDelivered, Payout
  <2>2. stack' \in Seq(Payout)
    BY <1>2, <1>3, <2>1 DEF PayoutDelivered
  <2>3. balance' \in Nat /\ wallet' \in [Address -> Nat]
    <3> DEFINE h == Head(stack)
    <3>1. balance' = balance - h.amount /\ wallet' = [wallet EXCEPT ![h.to] = @ + h.amount]
            /\ h.amount \in 1..balance
      BY <1>3 DEF PayoutDelivered, Transfer
    <3>2. h.to \in Address /\ h.amount \in Nat
      BY <2>1
    <3> HIDE DEF h
    <3> QED BY <1>1, <3>1, <3>2
  <2>4. TypeOK'
    BY <1>3, <2>2, <2>3 DEF PayoutDelivered, IInv, TypeOK
  <2> QED BY <1>1, <1>3, <2>4, RecordsUntouched DEF PayoutDelivered
<1>4. CASE PayoutCredited
  <2>1. Head(stack).to \in Address /\ Head(stack).amount \in Nat
    BY <1>2, <1>4 DEF PayoutCredited, Payout
  <2>2. credit' \in [Address -> Nat]
    BY <1>1, <1>4, <2>1 DEF PayoutCredited
  <2>3. TypeOK'
    BY <1>2, <1>4, <2>2 DEF PayoutCredited, IInv, TypeOK
  <2> QED BY <1>1, <1>4, <2>3, RecordsUntouched DEF PayoutCredited
<1>5. CASE RecipientReturns
  <2>1. TypeOK'
    BY <1>2, <1>5 DEF RecipientReturns, IInv, TypeOK
  <2> QED BY <1>1, <1>5, <2>1, RecordsUntouched DEF RecipientReturns
<1>6. ASSUME NEW sender \in Address, withdraw(sender) PROVE IInv'
  <2>1. credit' \in [Address -> Nat] /\ balance' \in Nat /\ wallet' \in [Address -> Nat]
    BY <1>1, <1>6 DEF withdraw, Transfer
  <2>2. [to |-> sender, amount |-> 0] \in Payout
    BY DEF Payout
  <2>3. stack' \in Seq(Payout)
    BY <1>1, <1>6, <2>2 DEF withdraw
  <2>4. TypeOK'
    BY <1>6, <2>1, <2>3 DEF withdraw, IInv, TypeOK
  <2> QED BY <1>1, <1>6, <2>4, RecordsUntouched DEF withdraw
<1> QED BY <1>3, <1>4, <1>5, <1>6 DEF Payouts

-----------------------------------------------------------------------------
\* IInv is an inductive invariant of the contract.
LEMMA NextIInv == IInv /\ [Next]_vars => IInv'
<1> SUFFICES ASSUME IInv, [Next]_vars PROVE IInv'
  OBVIOUS
<1>1. now \in Nat
  BY DEF IInv, TypeOK, Time
<1>2. CASE Administer
  <2>1. ASSUME NEW sender \in Address, NEW v \in Verifier, setNotaryVerifier(sender, v)
        PROVE  IInv'
    <3>1. TypeOK'
      BY <2>1 DEF setNotaryVerifier, IInv, TypeOK, listingVars, appVars, engVars, fundVars
    <3> QED BY <1>1, <2>1, <3>1, RecordsUntouched DEF setNotaryVerifier
  <2> QED BY <1>2, <2>1, RegisterPolicyStep DEF Administer
<1>3. CASE Register
  BY <1>3, RegisterStep DEF Register
<1>4. CASE Apply
  BY <1>4, ApplyStep DEF Apply
<1>5. CASE Settle
  BY <1>5, SettleStep DEF Settle
<1>6. CASE Engage
  BY <1>6, EngageStep DEF Engage
<1>7. CASE Expire
  BY <1>7, ExpireStep DEF Expire
<1>8. CASE Reclaim
  BY <1>8, ReclaimStep DEF Reclaim
<1>9. CASE Cancel
  BY <1>9, CancelStep DEF Cancel
<1>10. CASE Withdraw \/ Payouts
  BY <1>10, FundsStep DEF Withdraw
<1>11. CASE Tick
  <2>1. now' \in Time /\ now <= now' /\ now' \in Nat
    BY <1>1, <1>11 DEF Tick, Time
  <2>2. TypeOK'
    BY <1>11, <2>1 DEF Tick, IInv, TypeOK, adminVars, listingVars, appVars, engVars, fundVars
  <2> QED BY <1>11, <2>1, <2>2, RecordsUntouched DEF Tick
<1>12. CASE UNCHANGED vars
  <2>1. TypeOK'
    BY <1>12 DEF vars, IInv, TypeOK, adminVars, listingVars, appVars, engVars, fundVars
  <2> QED BY <1>1, <1>12, <2>1, RecordsUntouched DEF vars
<1> QED BY <1>2, <1>3, <1>4, <1>5, <1>6, <1>7, <1>8, <1>9, <1>10, <1>11, <1>12 DEF Next

\* The strengthened invariant holds in every reachable state.
THEOREM Invariance == Spec => []IInv
  BY InitIInv, NextIInv, PTL DEF Spec

\* Type correctness: in particular no payout is computed from an absent
\* record and no subtraction in settle or expire underflows.
THEOREM TypeCorrect == Spec => []TypeOK
<1>1. IInv => TypeOK
  BY DEF IInv
<1> QED BY <1>1, Invariance, PTL

\* A listing is locked exactly while one engagement of it is open, for every
\* number of listings, applications and engagements and any nesting of
\* re-entrant calls.
THEOREM LockDiscipline == Spec => []LockedIffOneOpen
<1>1. IInv => LockedIffOneOpen
  BY DEF IInv
<1> QED BY <1>1, Invariance, PTL

\* The listing records and the pending-application index agree with the states.
THEOREM RecordsConsistent == Spec => [](RecordsMatchState /\ PendingIndexExact)
<1>1. IInv => RecordsMatchState /\ PendingIndexExact
  BY DEF IInv
<1> QED BY <1>1, Invariance, PTL

\* The listing, application and engagement records agree with the listing's state.
THEOREM RecordsMatch == Spec => []RecordsMatchState
<1>1. IInv => RecordsMatchState
  BY DEF IInv
<1> QED BY <1>1, Invariance, PTL

\* One step settles only open engagements and leaves terminal listings alone.
LEMMA StepKeepsFinal ==
    ASSUME IInv, Next
    PROVE  /\ \A e \in EngId : engagements'[e].status = "Settled" =>
                  engagements[e].status \in {"Open", "Settled"}
           /\ \A t \in TxId : txState[t] \in {"Settled", "Cancelled"} => txState'[t] = txState[t]
<1> DEFINE Settles == \A e \in EngId : engagements'[e].status = "Settled" =>
                          engagements[e].status \in {"Open", "Settled"}
           Final == \A t \in TxId : txState[t] \in {"Settled", "Cancelled"} =>
                          txState'[t] = txState[t]
<1>1. engagements \in [EngId -> Engagement] /\ txState \in [TxId -> TxState]
  BY DEF IInv, TypeOK
<1>2. CASE Administer
  <2>1. UNCHANGED <<engagements, txState>>
    BY <1>2 DEF Administer, registerPolicy, setNotaryVerifier, listingVars, engVars
  <2> QED BY <2>1
<1>3. CASE Register
  <2>1. nextTxId \in TxId /\ ~(nextTxId < nextTxId) /\ UNCHANGED engagements
          /\ txState' = [txState EXCEPT ![nextTxId] = "Active"]
    BY <1>3 DEF Register, register, IInv, TypeOK, TxId, engVars
  <2>2. txState[nextTxId] = "None"
    BY <2>1 DEF IInv, RecordsAssigned
  <2> QED BY <1>1, <2>1, <2>2
<1>4. CASE Apply
  <2>1. UNCHANGED <<engagements, txState>>
    BY <1>4 DEF Apply, applyFor, listingVars, engVars
  <2> QED BY <2>1
<1>5. CASE Settle
  <2>1. PICK sender \in Address, engId \in EngId, txData \in TxData, r \in Salt, eta \in Nonce,
             tAtt \in Time, v \in Verifier :
            settle(sender, engId, txData, r, Sign(v, xS(sender, engId, txData, eta, tAtt)),
                   eta, tAtt)
    BY <1>5 DEF Settle
  <2>2. engagements[engId].status = "Open"
    BY <2>1, SettleOpen
  <2>3. /\ engagements' = [engagements EXCEPT ![engId].status = "Settled"]
        /\ txState' = [txState EXCEPT ![txOf(engId)] = "Settled"]
    BY <2>1, ZenonT(20) DEF settle, appOf, txOf
  <2>4. txState[txOf(engId)] = "Locked" /\ txOf(engId) \in TxId
    BY <2>2, OpenRecords
  <2> QED BY <1>1, <2>2, <2>3, <2>4
<1>6. CASE Engage
  <2>1. PICK sender \in Address, txId \in TxId, appId \in AppId : engage(sender, txId, appId)
    BY <1>6 DEF Engage
  <2>2. /\ nextEngId \in EngId
        /\ engagements' = [engagements EXCEPT ![nextEngId] =
               [appId |-> appId, expiresAt |-> now + TAU_LOCK, status |-> "Open"]]
        /\ txState' = [txState EXCEPT ![txId] = "Locked"]
        /\ txState[txId] \in {"Active", "Expired"}
    BY <2>1 DEF engage, isOpen, IInv, TypeOK, EngId
  <2> QED BY <1>1, <2>2
<1>7. CASE Expire
  <2>1. PICK engId \in EngId : expire(engId)
    BY <1>7 DEF Expire
  <2>2. /\ engagements' = [engagements EXCEPT ![engId].status = "Expired"]
        /\ \E u : txState' = [txState EXCEPT ![txOf(engId)] = u]
        /\ txState[txOf(engId)] = "Locked"
    BY <2>1, ZenonT(20) DEF expire, appOf, txOf
  <2>3. Settles
    BY <1>1, <2>2 DEF Engagement
  <2>4. Final
    BY <1>1, <2>2
  <2> QED BY <2>3, <2>4
<1>8. CASE Reclaim
  <2>1. UNCHANGED <<engagements, txState>>
    BY <1>8 DEF Reclaim, reclaim, listingVars, engVars
  <2> QED BY <2>1
<1>9. CASE Cancel
  <2>1. PICK sender \in Address, txId \in TxId : cancel(sender, txId)
    BY <1>9 DEF Cancel
  <2>2. /\ UNCHANGED engagements /\ txState' = [txState EXCEPT ![txId] = "Cancelled"]
        /\ txState[txId] \in {"Active", "Expired"}
    BY <2>1 DEF cancel, engVars
  <2> QED BY <1>1, <2>2
<1>10. CASE Withdraw \/ Payouts \/ Tick
  <2>1. UNCHANGED <<engagements, txState>>
    BY <1>10 DEF Withdraw, withdraw, Payouts, PayoutDelivered, PayoutCredited, RecipientReturns,
                 Tick, listingVars, engVars
  <2> QED BY <2>1
<1> QED BY <1>2, <1>3, <1>4, <1>5, <1>6, <1>7, <1>8, <1>9, <1>10 DEF Next

\* settle never closes an engagement of an earlier round, although its
\* conditions do not mention the engagement's status beyond S(a).
THEOREM SettleOnlyOpen == Spec => SettlesOpenEngagement
<1>1. IInv /\ [Next]_vars =>
          [\A e \in EngId : engagements'[e].status = "Settled" =>
               engagements[e].status \in {"Open", "Settled"}]_vars
  BY StepKeepsFinal
<1> QED BY <1>1, Invariance, PTL DEF Spec, SettlesOpenEngagement

\* Settled and cancelled listings are final.
THEOREM TerminalFinal == Spec => TerminalIsFinal
<1>1. IInv /\ [Next]_vars =>
          [\A t \in TxId : txState[t] \in {"Settled", "Cancelled"} => txState'[t] = txState[t]]_vars
  BY StepKeepsFinal
<1> QED BY <1>1, Invariance, PTL DEF Spec, TerminalIsFinal

-----------------------------------------------------------------------------
(* The sums of PPREV, each as the total of a function of the state.         *)

\* What the payouts of a stack still owe to the addresses of B.
Given(to, amount, B) == IF to \in B THEN amount ELSE 0
OwedBy(p, B) == Given(p.to, p.amount, B)
Owed(s, B)   == Total([i \in 1..Len(s) |-> OwedBy(s[i], B)], Len(s))

Collateral == [t \in TxId |-> IF txState[t] \in {"Active", "Locked", "Expired"}
                              THEN listings[t].collateral ELSE 0]
Pending    == [a \in AppId |-> IF applications[a].status = "Pending"
                               THEN applications[a].deposit ELSE 0]
Locked     == [e \in EngId |-> IF engagements[e].status = "Open"
                               THEN appOf(e).deposit ELSE 0]

\* What is owed is a natural.
LEMMA OwedNat ==
    ASSUME NEW s \in Seq(Payout), NEW B
    PROVE  Owed(s, B) \in Nat
<1>1. Len(s) \in Nat /\ \A i \in 1..Len(s) : s[i] \in Payout
  OBVIOUS
<1>2. \A i \in 1..Len(s) : [j \in 1..Len(s) |-> OwedBy(s[j], B)][i] \in Nat
  BY <1>1 DEF OwedBy, Given, Payout
<1> QED BY <1>1, <1>2, TotalNat DEF Owed

\* A payout in front adds what it owes.
LEMMA OwedCons ==
    ASSUME NEW s \in Seq(Payout), NEW p \in Payout, NEW B
    PROVE  Owed(<<p>> \o s, B) = OwedBy(p, B) + Owed(s, B)
<1> DEFINE n == Len(s)
           q == <<p>> \o s
           f == [i \in 1..n |-> OwedBy(s[i], B)]
           g == [i \in 1..(n + 1) |-> OwedBy(q[i], B)]
<1>1. n \in Nat /\ Len(q) = n + 1 /\ q[1] = p /\ \A i \in 1..n : q[i + 1] = s[i] /\ s[i] \in Payout
  OBVIOUS
<1> HIDE DEF n, q
<1>2. g[1] = OwedBy(p, B) /\ \A i \in 1..n : g[i + 1] = f[i]
  BY <1>1
<1>3. g[1] \in Nat /\ \A i \in 1..n : f[i] \in Nat
  BY <1>1 DEF OwedBy, Given, Payout
<1>4. Owed(q, B) = Total(g, n + 1) /\ Owed(s, B) = Total(f, n)
  BY <1>1 DEF Owed, n
<1> HIDE DEF f, g
<1>5. Total(g, n + 1) = g[1] + Total(f, n)
  BY <1>1, <1>2, <1>3, TotalFront
<1> QED BY <1>2, <1>4, <1>5 DEF q

\* A call's payout adds its amount for its recipient, also if it is 0.
LEMMA OwedPay ==
    ASSUME NEW s \in Seq(Payout), NEW to \in Address, NEW amount \in Nat, NEW B
    PROVE  Owed(pay(to, amount) \o s, B) = Given(to, amount, B) + Owed(s, B)
<1>1. Owed(s, B) \in Nat
  BY OwedNat
<1>2. CASE amount = 0
  <2>1. pay(to, amount) \o s = s
    BY <1>2 DEF pay
  <2>2. Given(to, amount, B) = 0
    BY <1>2 DEF Given
  <2> QED BY <1>1, <2>1, <2>2
<1>3. CASE amount # 0
  <2> DEFINE p == [to |-> to, amount |-> amount]
  <2>1. p \in Payout /\ OwedBy(p, B) = Given(to, amount, B)
    BY DEF Payout, OwedBy
  <2>2. pay(to, amount) = <<p>>
    BY <1>3 DEF pay
  <2> HIDE DEF p
  <2> QED BY <2>1, <2>2, OwedCons
<1> QED BY <1>2, <1>3

\* Two payouts of a call, as in settle and expire.
LEMMA OwedPayTwo ==
    ASSUME NEW s \in Seq(Payout), NEW to1 \in Address, NEW a1 \in Nat,
           NEW to2 \in Address, NEW a2 \in Nat, NEW B
    PROVE  Owed((pay(to1, a1) \o pay(to2, a2)) \o s, B) =
               Given(to1, a1, B) + Given(to2, a2, B) + Owed(s, B)
<1>1. pay(to1, a1) \in Seq(Payout) /\ pay(to2, a2) \in Seq(Payout)
  BY PayType
<1>2. pay(to2, a2) \o s \in Seq(Payout)
  BY <1>1
<1>3. (pay(to1, a1) \o pay(to2, a2)) \o s = pay(to1, a1) \o (pay(to2, a2) \o s)
  <2> DEFINE v == pay(to1, a1)
             w == pay(to2, a2)
  <2>1. v \in Seq(Payout) /\ w \in Seq(Payout)
    BY <1>1
  <2> HIDE DEF v, w
  <2>2. (v \o w) \o s = v \o (w \o s)
    BY <2>1, ConcatAssociative
  <2> QED BY <2>2 DEF v, w
<1>4. Owed(pay(to2, a2) \o s, B) = Given(to2, a2, B) + Owed(s, B)
  BY OwedPay
<1> DEFINE u == pay(to2, a2) \o s
<1>5. Owed(pay(to1, a1) \o u, B) = Given(to1, a1, B) + Owed(u, B)
  <2>1. u \in Seq(Payout)
    BY <1>2
  <2> HIDE DEF u
  <2> QED BY <2>1, OwedPay
<1>6. Owed(s, B) \in Nat /\ Given(to1, a1, B) \in Nat /\ Given(to2, a2, B) \in Nat
  BY OwedNat DEF Given
<1> QED BY <1>3, <1>4, <1>5, <1>6

\* The payout on top is one of the summands.
LEMMA OwedTop ==
    ASSUME NEW s \in Seq(Payout), s # <<>>, NEW B
    PROVE  Owed(s, B) = OwedBy(Head(s), B) + Owed(Tail(s), B)
<1>1. Head(s) \in Payout /\ Tail(s) \in Seq(Payout) /\ s = <<Head(s)>> \o Tail(s)
  OBVIOUS
<1> QED BY <1>1, OwedCons

\* Every summand of every sum is a natural, and so is every sum.
SumsAreNat ==
    /\ \A t \in TxId : Collateral[t] \in Nat
    /\ \A a \in AppId : Pending[a] \in Nat
    /\ \A e \in EngId : Locked[e] \in Nat
    /\ EscrowedCollateral \in Nat /\ PendingDeposits \in Nat /\ LockedDeposits \in Nat
    /\ Total(credit, MaxAddress) \in Nat /\ Owed(stack, Address) \in Nat

\* Every sum the balance is made of is a natural.
LEMMA SumsNat == IInv => SumsAreNat
<1> SUFFICES ASSUME IInv PROVE SumsAreNat
  OBVIOUS
<1>1. \A t \in TxId : Collateral[t] \in Nat
  BY DEF IInv, TypeOK, Listing, Collateral
<1>2. \A a \in AppId : Pending[a] \in Nat
  BY DEF IInv, TypeOK, Application, Pending
<1>3. \A e \in EngId : Locked[e] \in Nat
  BY OpenRecords DEF Locked
<1>4. EscrowedCollateral \in Nat
  BY <1>1, TotalNat DEF EscrowedCollateral, Collateral, TxId
<1>5. PendingDeposits \in Nat
  BY <1>2, TotalNat DEF PendingDeposits, Pending, AppId
<1>6. LockedDeposits \in Nat
  BY <1>3, TotalNat DEF LockedDeposits, Locked, EngId
<1>7. Total(credit, MaxAddress) \in Nat
  BY TotalNat DEF IInv, TypeOK, Address
<1>8. Owed(stack, Address) \in Nat
  BY OwedNat DEF IInv, TypeOK
<1> QED BY <1>1, <1>2, <1>3, <1>4, <1>5, <1>6, <1>7, <1>8 DEF SumsAreNat

\* The same after a step.
LEMMA SumsNatNext == IInv' => SumsAreNat'
  BY SumsNat, PTL

\* The balance equals the sums, with what the stack owes to anybody.
Solvent == balance = EscrowedCollateral + PendingDeposits + LockedDeposits
                       + Total(credit, MaxAddress) + Owed(stack, Address)

\* That is what BalanceEqualsObligations says.
LEMMA Obligations == IInv => (BalanceEqualsObligations <=> Solvent)
<1> SUFFICES ASSUME TypeOK PROVE PayoutsInProgress = Owed(stack, Address)
  BY DEF BalanceEqualsObligations, Solvent, IInv
<1>1. \A i \in 1..Len(stack) : stack[i] \in Payout
  BY DEF TypeOK
<1>2. [i \in 1..Len(stack) |-> stack[i].amount] = [i \in 1..Len(stack) |-> OwedBy(stack[i], Address)]
  BY <1>1 DEF Payout, OwedBy, Given
<1> QED BY <1>2 DEF PayoutsInProgress, Owed

\* Nothing about the listings, applications or engagements changes.
LEMMA SumsUnchanged ==
    ASSUME IInv
    PROVE  /\ UNCHANGED <<listings, txState>> => EscrowedCollateral' = EscrowedCollateral
           /\ UNCHANGED applications => PendingDeposits' = PendingDeposits
           /\ UNCHANGED <<applications, engagements>> => LockedDeposits' = LockedDeposits
<1>1. ASSUME UNCHANGED <<listings, txState>> PROVE Collateral' = Collateral
  BY <1>1 DEF Collateral
<1>2. ASSUME UNCHANGED applications PROVE Pending' = Pending
  BY <1>2 DEF Pending
<1>3. ASSUME UNCHANGED <<applications, engagements>> PROVE Locked' = Locked
  BY <1>3 DEF Locked, appOf
<1>4. /\ EscrowedCollateral = Total(Collateral, MaxListings)
      /\ EscrowedCollateral' = Total(Collateral', MaxListings)
  BY DEF EscrowedCollateral, Collateral
<1>5. /\ PendingDeposits = Total(Pending, MaxApplications)
      /\ PendingDeposits' = Total(Pending', MaxApplications)
  BY DEF PendingDeposits, Pending
<1>6. /\ LockedDeposits = Total(Locked, MaxEngagements)
      /\ LockedDeposits' = Total(Locked', MaxEngagements)
  BY DEF LockedDeposits, Locked
<1> QED BY <1>1, <1>2, <1>3, <1>4, <1>5, <1>6

\* At most listing, application, engagement k changes.
ListingChange(k)     == \A t \in TxId : t # k => /\ listings'[t] = listings[t]
                                                /\ txState'[t] = txState[t]
ApplicationChange(k) == \A a \in AppId : a # k => applications'[a] = applications[a]
EngagementChange(k)  == \A e \in EngId : e # k =>
                            /\ engagements'[e] = engagements[e]
                            /\ engagements[e].status = "Open" => appOf(e)' = appOf(e)

\* One listing changes (register, settle, expire, cancel).
LEMMA OneListing ==
    ASSUME IInv, IInv', NEW k \in TxId, ListingChange(k)
    PROVE  EscrowedCollateral' + Collateral[k] = EscrowedCollateral + Collateral'[k]
<1>1. /\ EscrowedCollateral = Total(Collateral, MaxListings)
      /\ EscrowedCollateral' = Total(Collateral', MaxListings)
  BY DEF EscrowedCollateral, Collateral
<1>2. \A t \in TxId : Collateral[t] \in Nat
  BY SumsNat DEF SumsAreNat
<1>3. \A t \in TxId : Collateral'[t] \in Nat
  BY SumsNatNext DEF SumsAreNat
<1>4. \A t \in TxId : t # k => Collateral'[t] = Collateral[t]
  BY DEF Collateral, ListingChange
<1> HIDE DEF Collateral
<1> DEFINE f == Collateral
           g == Collateral'
<1>5. Total(g, MaxListings) + f[k] = Total(f, MaxListings) + g[k]
  <2> HIDE DEF f, g
  <2>1. \A t \in 1..MaxListings : f[t] \in Nat /\ g[t] \in Nat
    BY <1>2, <1>3 DEF f, g, TxId
  <2>2. \A t \in 1..MaxListings : t # k => g[t] = f[t]
    BY <1>4 DEF f, g, TxId
  <2>3. MaxListings \in Nat /\ k \in 1..MaxListings
    BY DEF TxId
  <2> QED BY <2>1, <2>2, <2>3, TotalChange
<1> QED BY <1>1, <1>5

\* One application changes (applyFor, engage, reclaim).
LEMMA OneApplication ==
    ASSUME IInv, IInv', NEW k \in AppId, ApplicationChange(k)
    PROVE  PendingDeposits' + Pending[k] = PendingDeposits + Pending'[k]
<1>1. /\ PendingDeposits = Total(Pending, MaxApplications)
      /\ PendingDeposits' = Total(Pending', MaxApplications)
  BY DEF PendingDeposits, Pending
<1>2. \A a \in AppId : Pending[a] \in Nat
  BY SumsNat DEF SumsAreNat
<1>3. \A a \in AppId : Pending'[a] \in Nat
  BY SumsNatNext DEF SumsAreNat
<1>4. \A a \in AppId : a # k => Pending'[a] = Pending[a]
  BY DEF Pending, ApplicationChange
<1> DEFINE f == Pending
           g == Pending'
<1>5. Total(g, MaxApplications) + f[k] = Total(f, MaxApplications) + g[k]
  <2> HIDE DEF f, g
  <2>1. \A a \in 1..MaxApplications : f[a] \in Nat /\ g[a] \in Nat
    BY <1>2, <1>3 DEF f, g, AppId
  <2>2. \A a \in 1..MaxApplications : a # k => g[a] = f[a]
    BY <1>4 DEF f, g, AppId
  <2>3. MaxApplications \in Nat /\ k \in 1..MaxApplications
    BY DEF AppId
  <2> QED BY <2>1, <2>2, <2>3, TotalChange
<1> QED BY <1>1, <1>5

\* The deposits of the open engagements stay, but for engagement k's (engage,
\* settle, expire).
LEMMA OneEngagement ==
    ASSUME IInv, IInv', NEW k \in EngId, EngagementChange(k)
    PROVE  LockedDeposits' + Locked[k] = LockedDeposits + Locked'[k]
<1>1. /\ LockedDeposits = Total(Locked, MaxEngagements)
      /\ LockedDeposits' = Total(Locked', MaxEngagements)
  BY DEF LockedDeposits, Locked
<1>2. \A e \in EngId : Locked[e] \in Nat
  BY SumsNat DEF SumsAreNat
<1>3. \A e \in EngId : Locked'[e] \in Nat
  BY SumsNatNext DEF SumsAreNat
<1>4. \A e \in EngId : e # k => Locked'[e] = Locked[e]
  BY DEF Locked, EngagementChange
<1> DEFINE f == Locked
           g == Locked'
<1>5. Total(g, MaxEngagements) + f[k] = Total(f, MaxEngagements) + g[k]
  <2> HIDE DEF f, g
  <2>1. \A e \in 1..MaxEngagements : f[e] \in Nat /\ g[e] \in Nat
    BY <1>2, <1>3 DEF f, g, EngId
  <2>2. \A e \in 1..MaxEngagements : e # k => g[e] = f[e]
    BY <1>4 DEF f, g, EngId
  <2>3. MaxEngagements \in Nat /\ k \in 1..MaxEngagements
    BY DEF EngId
  <2> QED BY <2>1, <2>2, <2>3, TotalChange
<1> QED BY <1>1, <1>5

\* An application that is pending is not the application of any engagement,
\* nor is one that has not been made.
LEMMA OtherApplications ==
    ASSUME IInv, NEW k \in AppId, applications[k].status # "Engaged", ApplicationChange(k)
    PROVE  \A e \in EngId : engagements[e].status # "None" =>
               /\ engagements[e].appId \in AppId /\ engagements[e].appId # k
               /\ engagements'[e] = engagements[e] => appOf(e)' = appOf(e)
  BY DEF IInv, RecordsAssigned, appOf, ApplicationChange

\* One creditor's balance changes (withdraw, a payout that fails).
LEMMA OneCredit ==
    ASSUME IInv, IInv', NEW b \in Address, NEW x \in Nat, credit' = [credit EXCEPT ![b] = x]
    PROVE  Total(credit', MaxAddress) + credit[b] = Total(credit, MaxAddress) + x
<1> DEFINE f == credit
           g == credit'
<1>1. f[b] \in Nat /\ g[b] = x
  BY DEF IInv, TypeOK
<1>2. \A i \in 1..MaxAddress : f[i] \in Nat /\ g[i] \in Nat
  BY DEF IInv, TypeOK, Address
<1>3. \A i \in 1..MaxAddress : i # b => g[i] = f[i]
  BY DEF IInv, TypeOK, Address
<1>4. Total(g, MaxAddress) + f[b] = Total(f, MaxAddress) + g[b]
  <2>1. b \in 1..MaxAddress
    BY DEF Address
  <2> HIDE DEF f, g
  <2> QED BY <1>2, <1>3, <2>1, TotalChange
<1> QED BY <1>1, <1>4

-----------------------------------------------------------------------------
(* Each action keeps the balance equal to the obligations.                  *)

\* The collateral of a new listing is received with it.
LEMMA RegisterSolvent ==
    ASSUME IInv, IInv', Solvent, NEW sender \in Address, NEW value \in Amount,
           NEW cTx, NEW txData, NEW policyIdR, NEW r, NEW sigma, NEW eta, NEW tAtt,
           register(sender, value, cTx, txData, policyIdR, r, sigma, eta, tAtt)
    PROVE  Solvent'
<1>1. nextTxId \in TxId /\ txState[nextTxId] = "None" /\ value \in Nat
  <2>1. nextTxId <= MaxListings /\ value \in Nat
    BY DEF register
  <2>2. nextTxId \in TxId /\ ~(nextTxId < nextTxId)
    BY <2>1 DEF IInv, TypeOK, TxId
  <2> QED BY <2>1, <2>2 DEF IInv, RecordsAssigned
<1>2. /\ listings' = [listings EXCEPT ![nextTxId] =
             [cTx |-> cTx, policyIdR |-> policyIdR, owner |-> sender,
              collateral |-> value, expirations |-> 0]]
      /\ txState' = [txState EXCEPT ![nextTxId] = "Active"]
      /\ balance' = balance + value
      /\ UNCHANGED <<applications, engagements, credit, stack>>
  BY DEF register, Receive, appVars, engVars
<1>3. ListingChange(nextTxId) /\ Collateral[nextTxId] = 0 /\ Collateral'[nextTxId] = value
  BY <1>1, <1>2 DEF IInv, TypeOK, ListingChange, Collateral
<1>4. EscrowedCollateral' + Collateral[nextTxId] = EscrowedCollateral + Collateral'[nextTxId]
  BY <1>1, <1>3, OneListing
<1>5. PendingDeposits' = PendingDeposits /\ LockedDeposits' = LockedDeposits
  BY <1>2, SumsUnchanged
<1> QED BY <1>1, <1>2, <1>3, <1>4, <1>5, SumsNat, SumsNatNext DEF Solvent, SumsAreNat

\* No open engagement has the application that changes (applyFor, reclaim).
LEMMA LockedElsewhere ==
    ASSUME IInv, IInv', NEW k \in AppId, applications[k].status # "Engaged", ApplicationChange(k),
           UNCHANGED engagements
    PROVE  LockedDeposits' = LockedDeposits
<1>1. \A e \in EngId : engagements[e].status = "Open" => appOf(e)' = appOf(e)
  BY OtherApplications
<1>2. Locked' = Locked
  BY <1>1 DEF Locked
<1> QED BY <1>2 DEF LockedDeposits, Locked

\* A deposit is received with its application.
LEMMA ApplySolvent ==
    ASSUME IInv, IInv', Solvent, NEW sender \in Address, NEW value \in Amount, NEW txId, NEW txData,
           NEW r, NEW cB, NEW sigma, NEW eta, NEW tAtt,
           applyFor(sender, value, txId, txData, r, cB, sigma, eta, tAtt)
    PROVE  Solvent'
<1>1. nextAppId \in AppId /\ applications[nextAppId].status = "None" /\ value \in Nat
  <2>1. nextAppId <= MaxApplications /\ value \in Nat
    BY DEF applyFor
  <2>2. nextAppId \in AppId /\ ~(nextAppId < nextAppId)
    BY <2>1 DEF IInv, TypeOK, AppId
  <2> QED BY <2>1, <2>2 DEF IInv, RecordsAssigned
<1>2. /\ applications' = [applications EXCEPT ![nextAppId] =
             [txId |-> txId, depositor |-> sender, status |-> "Pending",
              deposit |-> value, cB |-> cB]]
      /\ balance' = balance + value
      /\ UNCHANGED <<listings, txState, engagements, credit, stack>>
  BY DEF applyFor, Receive, listingVars, engVars
<1>3. ApplicationChange(nextAppId) /\ Pending[nextAppId] = 0 /\ Pending'[nextAppId] = value
  BY <1>1, <1>2 DEF IInv, TypeOK, ApplicationChange, Pending
<1>4. PendingDeposits' + Pending[nextAppId] = PendingDeposits + Pending'[nextAppId]
  BY <1>1, <1>3, OneApplication
<1>5. LockedDeposits' = LockedDeposits
  BY <1>1, <1>2, <1>3, LockedElsewhere
<1>6. EscrowedCollateral' = EscrowedCollateral
  BY <1>2, SumsUnchanged
<1> QED BY <1>1, <1>2, <1>3, <1>4, <1>5, <1>6, SumsNat, SumsNatNext DEF Solvent, SumsAreNat

\* A pending deposit becomes a locked one.
LEMMA EngageSolvent ==
    ASSUME IInv, IInv', Solvent, NEW sender, NEW txId \in TxId, NEW appId \in AppId,
           engage(sender, txId, appId)
    PROVE  Solvent'
<1>1. nextEngId \in EngId /\ engagements[nextEngId].status = "None"
  <2>1. nextEngId \in EngId /\ ~(nextEngId < nextEngId)
    BY DEF engage, IInv, TypeOK, EngId
  <2> QED BY <2>1 DEF IInv, RecordsAssigned
<1>2. /\ applications[appId].status = "Pending" /\ txState[txId] \in {"Active", "Expired"}
      /\ engagements' = [engagements EXCEPT ![nextEngId] =
             [appId |-> appId, expiresAt |-> now + TAU_LOCK, status |-> "Open"]]
      /\ applications' = [applications EXCEPT ![appId].status = "Engaged"]
      /\ txState' = [txState EXCEPT ![txId] = "Locked"]
      /\ UNCHANGED <<listings, balance, credit, stack>>
  BY DEF engage, isOpen, fundVars
<1>3. ApplicationChange(appId) /\ applications'[appId].deposit = applications[appId].deposit
        /\ Pending[appId] = applications[appId].deposit /\ Pending'[appId] = 0
  BY <1>2 DEF IInv, TypeOK, Application, ApplicationChange, Pending
<1>4. PendingDeposits' + Pending[appId] = PendingDeposits + Pending'[appId]
  BY <1>3, OneApplication
<1>5. /\ \A e \in EngId : e # nextEngId => engagements'[e] = engagements[e]
      /\ engagements'[nextEngId].appId = appId /\ engagements'[nextEngId].status = "Open"
  BY <1>1, <1>2 DEF IInv, TypeOK
<1>6. EngagementChange(nextEngId)
  BY <1>2, <1>3, <1>5, OtherApplications DEF EngagementChange
<1>7. Locked[nextEngId] = 0 /\ Locked'[nextEngId] = applications[appId].deposit
  BY <1>1, <1>3, <1>5 DEF Locked, appOf
<1>8. LockedDeposits' + Locked[nextEngId] = LockedDeposits + Locked'[nextEngId]
  BY <1>1, <1>6, OneEngagement
<1>9. EscrowedCollateral' + Collateral[txId] = EscrowedCollateral + Collateral'[txId]
        /\ Collateral'[txId] = Collateral[txId]
  <2>1. ListingChange(txId) /\ Collateral'[txId] = Collateral[txId]
    BY <1>2 DEF IInv, TypeOK, ListingChange, Collateral
  <2> QED BY <2>1, OneListing
<1> QED BY <1>2, <1>3, <1>4, <1>7, <1>8, <1>9, SumsNat, SumsNatNext DEF Solvent, SumsAreNat

\* The deposit of an engagement that closes, and the collateral its listing
\* gives up, are what the call pays out.
LEMMA CloseSolvent ==
    ASSUME IInv, IInv', Solvent, NEW engId \in EngId, engagements[engId].status = "Open",
           NEW s \in {"Settled", "Expired"},
           engagements' = [engagements EXCEPT ![engId].status = s],
           ListingChange(txOf(engId)),
           NEW to1 \in Address, NEW a1 \in Nat, NEW to2 \in Address, NEW a2 \in Nat,
           Pay(pay(to1, a1) \o pay(to2, a2)),
           a1 + a2 + Collateral'[txOf(engId)] = appOf(engId).deposit + Collateral[txOf(engId)],
           UNCHANGED <<applications, balance, credit>>
    PROVE  Solvent'
<1>1. txOf(engId) \in TxId /\ appOf(engId).deposit \in Nat
  BY OpenRecords
<1>2. /\ \A e \in EngId : e # engId => engagements'[e] = engagements[e]
      /\ engagements'[engId].status = s
      /\ \A e \in EngId : engagements'[e].appId = engagements[e].appId
  BY DEF IInv, TypeOK, Engagement
<1>3. EngagementChange(engId)
  BY <1>2 DEF EngagementChange, appOf
<1>4. Locked[engId] = appOf(engId).deposit /\ Locked'[engId] = 0
  BY <1>2 DEF Locked
<1>5. LockedDeposits' + Locked[engId] = LockedDeposits + Locked'[engId]
  BY <1>3, OneEngagement
<1>6. EscrowedCollateral' + Collateral[txOf(engId)] = EscrowedCollateral + Collateral'[txOf(engId)]
  BY <1>1, OneListing
<1>7. PendingDeposits' = PendingDeposits
  BY SumsUnchanged
<1>8. Owed(stack', Address) = a1 + a2 + Owed(stack, Address)
  <2>1. stack' = (pay(to1, a1) \o pay(to2, a2)) \o stack /\ stack \in Seq(Payout)
    BY DEF Pay, IInv, TypeOK
  <2>2. Given(to1, a1, Address) = a1 /\ Given(to2, a2, Address) = a2
    BY DEF Given
  <2>3. stack \in Seq(Payout)
    BY <2>1
  <2> DEFINE B == Address
  <2> HIDE DEF B
  <2>4. Owed((pay(to1, a1) \o pay(to2, a2)) \o stack, B)
          = Given(to1, a1, B) + Given(to2, a2, B) + Owed(stack, B)
    BY <2>3, OwedPayTwo, SMTT(30)
  <2> QED BY <2>1, <2>2, <2>4 DEF B
<1>9. Collateral[txOf(engId)] \in Nat /\ Collateral'[txOf(engId)] \in Nat
  BY <1>1, SumsNat, SumsNatNext DEF SumsAreNat
<1> HIDE DEF Collateral
<1> QED BY <1>1, <1>4, <1>5, <1>6, <1>7, <1>8, <1>9, SumsNat, SumsNatNext DEF Solvent, SumsAreNat

\* A payment out of one record only moves what is owed to the stack.
LEMMA PaidOut ==
    ASSUME IInv, IInv', NEW to \in Address, NEW amount \in Nat, Pay(pay(to, amount))
    PROVE  Owed(stack', Address) = amount + Owed(stack, Address)
<1>1. stack' = pay(to, amount) \o stack /\ stack \in Seq(Payout)
  BY DEF Pay, IInv, TypeOK
<1>2. Given(to, amount, Address) = amount
  BY DEF Given
<1> QED BY <1>1, <1>2, OwedPay

\* The deposit of a reclaimed application is paid out.
LEMMA ReclaimSolvent ==
    ASSUME IInv, IInv', Solvent, NEW sender \in Address, NEW appId \in AppId, reclaim(sender, appId)
    PROVE  Solvent'
<1>1. /\ applications[appId].status = "Pending"
      /\ applications' = [applications EXCEPT ![appId].status = "Reclaimed"]
      /\ Pay(pay(sender, applications[appId].deposit))
      /\ UNCHANGED <<listings, txState, engagements, balance, credit>>
  BY DEF reclaim, listingVars, engVars
<1>2. ApplicationChange(appId) /\ applications[appId].deposit \in Nat
        /\ Pending[appId] = applications[appId].deposit /\ Pending'[appId] = 0
  BY <1>1 DEF IInv, TypeOK, Application, ApplicationChange, Pending
<1>3. PendingDeposits' + Pending[appId] = PendingDeposits + Pending'[appId]
  BY <1>2, OneApplication
<1>4. LockedDeposits' = LockedDeposits
  BY <1>1, <1>2, LockedElsewhere
<1>5. EscrowedCollateral' = EscrowedCollateral
  BY <1>1, SumsUnchanged
<1>6. Owed(stack', Address) = applications[appId].deposit + Owed(stack, Address)
  BY <1>1, <1>2, PaidOut
<1> QED BY <1>1, <1>2, <1>3, <1>4, <1>5, <1>6, SumsNat, SumsNatNext DEF Solvent, SumsAreNat

\* The collateral of a cancelled listing is paid out.
LEMMA CancelSolvent ==
    ASSUME IInv, IInv', Solvent, NEW sender \in Address, NEW txId \in TxId, cancel(sender, txId)
    PROVE  Solvent'
<1>1. /\ txState[txId] \in {"Active", "Expired"}
      /\ txState' = [txState EXCEPT ![txId] = "Cancelled"]
      /\ listings' = [listings EXCEPT ![txId].collateral = 0]
      /\ Pay(pay(sender, listings[txId].collateral))
      /\ UNCHANGED <<applications, engagements, balance, credit>>
  BY DEF cancel, appVars, engVars
<1>2. ListingChange(txId) /\ listings[txId].collateral \in Nat
        /\ Collateral[txId] = listings[txId].collateral /\ Collateral'[txId] = 0
  BY <1>1 DEF IInv, TypeOK, Listing, ListingChange, Collateral
<1>3. EscrowedCollateral' + Collateral[txId] = EscrowedCollateral + Collateral'[txId]
  BY <1>2, OneListing
<1>4. PendingDeposits' = PendingDeposits /\ LockedDeposits' = LockedDeposits
  BY <1>1, SumsUnchanged
<1>5. Owed(stack', Address) = listings[txId].collateral + Owed(stack, Address)
  BY <1>1, <1>2, PaidOut
<1> QED BY <1>1, <1>2, <1>3, <1>4, <1>5, SumsNat, SumsNatNext DEF Solvent, SumsAreNat

\* settle divides the deposit between the parties and returns the collateral.
LEMMA SettleSolvent ==
    ASSUME IInv, IInv', Solvent, NEW sender, NEW engId \in EngId, NEW txData, NEW r, NEW sigma,
           NEW eta \in Nonce, NEW tAtt,
           settle(sender, engId, txData, r, sigma, eta, tAtt)
    PROVE  Solvent'
<1> DEFINE a == appOf(engId)
           txId == txOf(engId)
           l == listings[txId]
           ownerShare == (a.deposit * txData.settlementShare) \div BPS
<1>1. engagements[engId].status = "Open"
  BY SettleOpen
<1>2. /\ a.depositor \in Address /\ a.deposit \in Nat
      /\ txId \in TxId /\ txState[txId] = "Locked"
      /\ l \in Listing /\ l.owner \in Address /\ l.collateral \in Nat
      /\ l.cTx[1].settlementShare <= BPS /\ l.cTx[1] \in TxData
  BY <1>1, OpenRecords
<1>3. /\ commitment(txData, l.policyIdR, r) = l.cTx
      /\ engagements' = [engagements EXCEPT ![engId].status = "Settled"]
      /\ txState' = [txState EXCEPT ![txId] = "Settled"]
      /\ listings' = [listings EXCEPT ![txId].collateral = 0]
      /\ Pay(pay(l.owner, ownerShare + l.collateral) \o pay(a.depositor, a.deposit - ownerShare))
      /\ UNCHANGED <<applications, balance, credit>>
  BY ZenonT(20) DEF settle, appOf, txOf, appVars
<1>4. txData \in TxData /\ txData.settlementShare \in Nat /\ txData.settlementShare <= BPS
  BY <1>2, <1>3 DEF commitment
<1>5. ownerShare \in Nat /\ ownerShare <= a.deposit
  BY <1>2, <1>4, ShareBound
<1> HIDE DEF ownerShare
<1>6. ownerShare + l.collateral \in Nat /\ a.deposit - ownerShare \in Nat
        /\ (ownerShare + l.collateral) + (a.deposit - ownerShare) = a.deposit + l.collateral
  BY <1>2, <1>5
<1>7. Collateral[txId] = l.collateral /\ Collateral'[txId] = 0 /\ ListingChange(txId)
  <2> HIDE DEF txId
  <2> QED BY <1>2, <1>3 DEF IInv, TypeOK, ListingChange, Collateral
<1>8. (ownerShare + l.collateral) + (a.deposit - ownerShare) + Collateral'[txId]
         = a.deposit + Collateral[txId]
  <2> HIDE DEF a, l, txId, Collateral
  <2> QED BY <1>2, <1>5, <1>6, <1>7
<1> DEFINE a1 == ownerShare + l.collateral
           a2 == a.deposit - ownerShare
<1> HIDE DEF a1, a2
<1>9. a1 \in Nat /\ a2 \in Nat /\ a1 + a2 + Collateral'[txId] = a.deposit + Collateral[txId]
        /\ Pay(pay(l.owner, a1) \o pay(a.depositor, a2))
  BY <1>3, <1>6, <1>8 DEF a1, a2
<1> QED BY <1>1, <1>2, <1>3, <1>7, <1>9, CloseSolvent, ZenonT(20)

\* expire returns the deposit with the compensation, and what survives of the
\* collateral stays or goes to the owner.
LEMMA ExpireSolvent ==
    ASSUME IInv, IInv', Solvent, NEW engId \in EngId, expire(engId)
    PROVE  Solvent'
<1> DEFINE a == appOf(engId)
           txId == txOf(engId)
           l == listings[txId]
           surviving == (l.collateral * RHO) \div BPS
           exhausted == exhausts(l)
           a1 == a.deposit + (l.collateral - surviving)
           a2 == IF exhausted THEN surviving ELSE 0
<1>1. engagements[engId].status = "Open"
  BY ZenonT(20) DEF expire
<1>2. /\ a.depositor \in Address /\ a.deposit \in Nat
      /\ txId \in TxId /\ txState[txId] = "Locked"
      /\ l \in Listing /\ l.owner \in Address /\ l.collateral \in Nat
  BY <1>1, OpenRecords
<1>3. /\ engagements' = [engagements EXCEPT ![engId].status = "Expired"]
      /\ txState' = [txState EXCEPT ![txId] = IF exhausted THEN "Cancelled" ELSE "Expired"]
      /\ listings' = [listings EXCEPT ![txId] =
             [l EXCEPT !.expirations = l.expirations + 1,
                       !.collateral = IF exhausted THEN 0 ELSE surviving]]
      /\ Pay(pay(a.depositor, a1) \o pay(l.owner, a2))
      /\ UNCHANGED <<applications, balance, credit>>
  BY ZenonT(20) DEF expire, appOf, txOf, appVars
<1>4. surviving \in Nat /\ surviving <= l.collateral
  <2>1. RHO \in Nat /\ RHO <= BPS
    BY DEF BPS
  <2> HIDE DEF l
  <2> QED BY <1>2, <2>1, ShareBound
<1> HIDE DEF surviving
<1>5. a1 \in Nat /\ a2 \in Nat
  BY <1>2, <1>4
<1>6. ListingChange(txId)
  BY <1>3 DEF IInv, TypeOK, ListingChange
<1>7. Collateral[txId] = l.collateral /\ Collateral'[txId] = IF exhausted THEN 0 ELSE surviving
  <2>1. /\ txState'[txId] = IF exhausted THEN "Cancelled" ELSE "Expired"
        /\ listings'[txId] = [l EXCEPT !.expirations = l.expirations + 1,
                                       !.collateral = IF exhausted THEN 0 ELSE surviving]
    BY <1>2, <1>3 DEF IInv, TypeOK
  <2>2. listings'[txId].collateral = IF exhausted THEN 0 ELSE surviving
    BY <1>2, <2>1 DEF Listing
  <2> QED BY <1>2, <2>1, <2>2 DEF Collateral
<1>8. a1 + a2 + Collateral'[txId] = a.deposit + Collateral[txId]
  <2> HIDE DEF a, l, txId, Collateral, exhausted
  <2> QED BY <1>2, <1>4, <1>7
<1> HIDE DEF a1, a2
<1> QED BY <1>1, <1>2, <1>3, <1>5, <1>6, <1>8, CloseSolvent, ZenonT(20)

\* Funds move between a payout in progress, a credit and the outside.
LEMMA FundsMoved ==
    ASSUME IInv, IInv', Solvent, UNCHANGED <<listings, txState, applications, engagements>>,
           NEW x \in Nat,
           \/ /\ balance' = balance - x /\ Total(credit', MaxAddress) = Total(credit, MaxAddress)
              /\ Owed(stack', Address) + x = Owed(stack, Address)
           \/ /\ balance' = balance /\ Total(credit', MaxAddress) = Total(credit, MaxAddress) + x
              /\ Owed(stack', Address) + x = Owed(stack, Address)
           \/ /\ balance' = balance - x /\ Total(credit', MaxAddress) + x = Total(credit, MaxAddress)
              /\ Owed(stack', Address) = Owed(stack, Address)
    PROVE  Solvent'
<1> DEFINE c == Total(credit, MaxAddress)
           d == Total(credit', MaxAddress)
           o == Owed(stack, Address)
           p == Owed(stack', Address)
           rest == EscrowedCollateral + PendingDeposits + LockedDeposits
<1>1. /\ EscrowedCollateral' = EscrowedCollateral /\ PendingDeposits' = PendingDeposits
      /\ LockedDeposits' = LockedDeposits
  BY SumsUnchanged
<1>2. /\ EscrowedCollateral \in Nat /\ PendingDeposits \in Nat /\ LockedDeposits \in Nat
      /\ c \in Nat /\ o \in Nat /\ d \in Nat /\ p \in Nat
  BY SumsNat, SumsNatNext DEF SumsAreNat
<1>3. rest \in Nat /\ balance = rest + c + o
  BY <1>2 DEF Solvent
<1>4. balance' \in Nat /\ balance \in Nat
  BY DEF IInv, TypeOK
<1>5. \/ balance' = balance - x /\ d = c /\ p + x = o
      \/ balance' = balance /\ d = c + x /\ p + x = o
      \/ balance' = balance - x /\ d + x = c /\ p = o
  OBVIOUS
<1>6. balance' = rest + d + p
  <2> HIDE DEF c, d, o, p, rest
  <2> QED BY <1>2, <1>3, <1>4, <1>5
<1> QED BY <1>1, <1>6 DEF Solvent

\* A payout goes to its recipient or becomes a credit, and a credit is
\* withdrawn once.
LEMMA FundsSolvent ==
    ASSUME IInv, IInv', Solvent, Payouts \/ \E sender \in Address : withdraw(sender)
    PROVE  Solvent'
<1> USE DEF listingVars, appVars, engVars
<1>1. stack \in Seq(Payout) /\ credit \in [Address -> Nat] /\ balance \in Nat
  BY DEF IInv, TypeOK
<1>2. UNCHANGED <<listings, txState, applications, engagements>> =>
          /\ EscrowedCollateral' = EscrowedCollateral /\ PendingDeposits' = PendingDeposits
          /\ LockedDeposits' = LockedDeposits
  BY SumsUnchanged
<1>0. /\ Total(credit, MaxAddress) \in Nat /\ Total(credit', MaxAddress) \in Nat
      /\ Owed(stack, Address) \in Nat /\ Owed(stack', Address) \in Nat
      /\ EscrowedCollateral \in Nat /\ PendingDeposits \in Nat /\ LockedDeposits \in Nat
  BY SumsNat, SumsNatNext DEF SumsAreNat
<1> DEFINE h == Head(stack)
           rest == Tail(stack)
<1>3. ASSUME stack # <<>>
      PROVE  /\ h \in Payout /\ h.to \in Address /\ h.amount \in Nat /\ rest \in Seq(Payout)
             /\ Owed(stack, Address) = h.amount + Owed(rest, Address)
             /\ Owed(rest, Address) \in Nat
  <2>1. h \in Payout /\ rest \in Seq(Payout)
    BY <1>1, <1>3
  <2>2. h.to \in Address /\ h.amount \in Nat
    BY <2>1 DEF Payout
  <2>3. OwedBy(h, Address) = h.amount
    BY <2>2 DEF OwedBy, Given
  <2> QED BY <1>1, <1>3, <2>1, <2>2, <2>3, OwedTop, OwedNat
<1>4. CASE PayoutDelivered
  <2>1. /\ stack # <<>> /\ balance' = balance - h.amount /\ h.amount \in 1..balance
        /\ stack' = <<[h EXCEPT !.amount = 0]>> \o rest /\ credit' = credit
        /\ UNCHANGED <<listings, txState, applications, engagements>>
    BY <1>4 DEF PayoutDelivered, Transfer
  <2> DEFINE p == [h EXCEPT !.amount = 0]
  <2>2. p \in Payout /\ OwedBy(p, Address) = 0
    BY <1>3, <2>1 DEF Payout, OwedBy, Given
  <2>3. Owed(stack', Address) = 0 + Owed(rest, Address)
    <3> HIDE DEF p
    <3>1. Owed(<<p>> \o rest, Address) = OwedBy(p, Address) + Owed(rest, Address)
      BY <1>3, <2>1, <2>2, OwedCons
    <3> QED BY <2>1, <2>2, <3>1 DEF p
  <2> HIDE DEF h, rest, p
  <2>4. balance' = balance - h.amount /\ Total(credit', MaxAddress) = Total(credit, MaxAddress)
    BY <1>1, <1>3, <2>1
  <2>5. Owed(stack', Address) + h.amount = Owed(stack, Address)
    BY <1>3, <2>1, <2>3
  <2>6. UNCHANGED <<listings, txState, applications, engagements>> /\ h.amount \in Nat
    BY <1>3, <2>1
  <2> QED BY <2>4, <2>5, <2>6, FundsMoved
<1>5. CASE PayoutCredited
  <2>1. /\ stack # <<>> /\ credit' = [credit EXCEPT ![h.to] = credit[h.to] + h.amount]
        /\ stack' = rest /\ balance' = balance
        /\ UNCHANGED <<listings, txState, applications, engagements>>
    BY <1>5 DEF PayoutCredited
  <2> HIDE DEF h, rest
  <2>2. credit[h.to] \in Nat /\ credit[h.to] + h.amount \in Nat
    BY <1>1, <1>3, <2>1
  <2>3. Total(credit', MaxAddress) + credit[h.to]
           = Total(credit, MaxAddress) + (credit[h.to] + h.amount)
    BY <1>3, <2>1, <2>2, OneCredit
  <2>4. Total(credit', MaxAddress) = Total(credit, MaxAddress) + h.amount
    <3>1. h.amount \in Nat
      BY <1>3, <2>1
    <3> QED BY <1>0, <2>2, <2>3, <3>1
  <2>5. Owed(stack', Address) + h.amount = Owed(stack, Address)
    BY <1>3, <2>1
  <2>6. /\ UNCHANGED <<listings, txState, applications, engagements>> /\ h.amount \in Nat
        /\ balance' = balance
    BY <1>3, <2>1
  <2> QED BY <2>4, <2>5, <2>6, FundsMoved
<1>6. CASE RecipientReturns
  <2>1. /\ stack # <<>> /\ h.amount = 0 /\ stack' = rest
        /\ UNCHANGED <<listings, txState, applications, engagements, balance, credit>>
    BY <1>6 DEF RecipientReturns
  <2> HIDE DEF h, rest
  <2> QED BY <1>0, <1>1, <1>2, <1>3, <2>1 DEF Solvent
<1>7. ASSUME NEW sender \in Address, withdraw(sender) PROVE Solvent'
  <2> DEFINE p == [to |-> sender, amount |-> 0]
  <2>1. /\ credit' = [credit EXCEPT ![sender] = 0] /\ balance' = balance - credit[sender]
        /\ stack' = <<p>> \o stack /\ credit[sender] <= balance
        /\ UNCHANGED <<listings, txState, applications, engagements>>
    BY <1>7 DEF withdraw, Transfer
  <2>2. Total(credit', MaxAddress) + credit[sender] = Total(credit, MaxAddress) + 0
    BY <2>1, OneCredit
  <2>3. p \in Payout /\ OwedBy(p, Address) = 0
    BY DEF Payout, OwedBy, Given
  <2>4. Owed(stack', Address) = 0 + Owed(stack, Address)
    <3> HIDE DEF p
    <3> QED BY <1>1, <2>1, <2>3, OwedCons
  <2>5. credit[sender] \in Nat
    BY <1>1
  <2> HIDE DEF p
  <2>6. Total(credit', MaxAddress) + credit[sender] = Total(credit, MaxAddress)
    BY <2>2, SumsNat DEF SumsAreNat
  <2>7. Owed(stack', Address) = Owed(stack, Address)
    BY <2>4, SumsNat DEF SumsAreNat
  <2>8. /\ UNCHANGED <<listings, txState, applications, engagements>>
        /\ balance' = balance - credit[sender]
    BY <1>1, <2>1, <2>5
  <2> QED BY <2>5, <2>6, <2>7, <2>8, FundsMoved
<1> QED BY <1>4, <1>5, <1>6, <1>7 DEF Payouts

\* Steps that leave every fund alone.
LEMMA FundsUntouched ==
    ASSUME IInv, Solvent,
           UNCHANGED <<listings, txState, applications, engagements, balance, credit, stack>>
    PROVE  Solvent'
  BY SumsUnchanged DEF Solvent

\* Nothing is held or owed at the start.
LEMMA InitSolvent == Init => Solvent
<1> SUFFICES ASSUME Init PROVE Solvent
  OBVIOUS
<1>1. /\ \A t \in 1..MaxListings : Collateral[t] = 0
      /\ \A a \in 1..MaxApplications : Pending[a] = 0
      /\ \A e \in 1..MaxEngagements : Locked[e] = 0
      /\ \A b \in 1..MaxAddress : credit[b] = 0
  BY DEF Init, Collateral, Pending, Locked, NoApplication, NoEngagement, TxId, AppId, EngId, Address
<1>2. /\ Total(Collateral, MaxListings) = 0 /\ Total(Pending, MaxApplications) = 0
      /\ Total(Locked, MaxEngagements) = 0 /\ Total(credit, MaxAddress) = 0
  BY <1>1, TotalZero
<1>3. EscrowedCollateral = 0 /\ PendingDeposits = 0 /\ LockedDeposits = 0
  BY <1>2 DEF EscrowedCollateral, PendingDeposits, LockedDeposits, Collateral, Pending, Locked
<1>4. Owed(<<>>, Address) = 0
  BY TotalStep DEF Owed
<1> QED BY <1>2, <1>3, <1>4 DEF Init, Solvent

\* Every step keeps the balance equal to the sums.
LEMMA NextSolvent == IInv /\ IInv' /\ Solvent /\ [Next]_vars => Solvent'
<1> SUFFICES ASSUME IInv, IInv', Solvent, [Next]_vars PROVE Solvent'
  OBVIOUS
<1> USE DEF listingVars, appVars, engVars, fundVars
<1>1. CASE Administer \/ Tick \/ UNCHANGED vars
  <2>1. UNCHANGED <<listings, txState, applications, engagements, balance, credit, stack>>
    BY <1>1 DEF Administer, registerPolicy, setNotaryVerifier, Tick, vars
  <2> QED BY <2>1, FundsUntouched
<1>2. CASE Register
  BY <1>2, RegisterSolvent DEF Register
<1>3. CASE Apply
  BY <1>3, ApplySolvent DEF Apply
<1>4. CASE Settle
  BY <1>4, SettleSolvent DEF Settle
<1>5. CASE Engage
  BY <1>5, EngageSolvent DEF Engage
<1>6. CASE Expire
  BY <1>6, ExpireSolvent DEF Expire
<1>7. CASE Reclaim
  BY <1>7, ReclaimSolvent DEF Reclaim
<1>8. CASE Cancel
  BY <1>8, CancelSolvent DEF Cancel
<1>9. CASE Withdraw \/ Payouts
  BY <1>9, FundsSolvent DEF Withdraw
<1> QED BY <1>1, <1>2, <1>3, <1>4, <1>5, <1>6, <1>7, <1>8, <1>9 DEF Next

\* The contract holds exactly what it owes, in every state of every
\* execution, for any number of parties and records, any amounts, and any
\* nesting of payouts whose recipients call the contract again.
THEOREM Solvency == Spec => []BalanceEqualsObligations
<1>1. Spec => []Solvent
  <2>1. IInv /\ IInv' /\ Solvent /\ [Next]_vars => Solvent'
    BY NextSolvent
  <2> QED BY Invariance, InitSolvent, <2>1, PTL DEF Spec
<1> QED BY <1>1, Invariance, Obligations, PTL

\* What a solvent contract can pay.
CoversPayouts ==
    /\ stack # <<>> => Head(stack).amount <= balance
    /\ \A b \in Address : credit[b] <= balance

\* No payout and no withdrawal ever fails for want of funds: the balance
\* covers the payout on top of the stack and every creditor's credit, so the
\* guards amount <= balance of _payout and withdraw are never the obstacle.
THEOREM PayoutsCovered == Spec => []CoversPayouts
<1>1. IInv /\ Solvent => CoversPayouts
  <2> SUFFICES ASSUME IInv, Solvent PROVE CoversPayouts
    OBVIOUS
  <2>1. balance \in Nat /\ stack \in Seq(Payout) /\ \A b \in 1..MaxAddress : credit[b] \in Nat
    BY DEF IInv, TypeOK, Address
  <2>2. /\ EscrowedCollateral \in Nat /\ PendingDeposits \in Nat /\ LockedDeposits \in Nat
        /\ Total(credit, MaxAddress) \in Nat /\ Owed(stack, Address) \in Nat
    BY SumsNat DEF SumsAreNat
  <2>3. ASSUME stack # <<>> PROVE Head(stack).amount <= balance
    <3>1. Head(stack) \in Payout /\ Tail(stack) \in Seq(Payout)
      BY <2>1, <2>3
    <3>2. OwedBy(Head(stack), Address) = Head(stack).amount /\ Head(stack).amount \in Nat
      BY <3>1 DEF OwedBy, Given, Payout
    <3>3. Owed(stack, Address) = Head(stack).amount + Owed(Tail(stack), Address)
      BY <2>1, <2>3, <3>2, OwedTop
    <3>4. Owed(Tail(stack), Address) \in Nat
      BY <3>1, OwedNat
    <3> QED BY <2>1, <2>2, <3>2, <3>3, <3>4 DEF Solvent
  <2>4. ASSUME NEW b \in Address PROVE credit[b] <= balance
    <3>1. credit[b] <= Total(credit, MaxAddress) /\ credit[b] \in Nat
      BY <2>1, TotalNat DEF Address
    <3> QED BY <2>1, <2>2, <3>1 DEF Solvent
  <2> QED BY <2>3, <2>4 DEF CoversPayouts
<1>2. Spec => []Solvent
  BY Solvency, Invariance, Obligations, PTL
<1> QED BY <1>1, <1>2, Invariance, PTL
-----------------------------------------------------------------------------
(* What each action does to what one address owns.                          *)

Engaged(a) == \E e \in EngId : engagements[e].appId = a /\ engagements[e].status = "Open"

OwnedBy(b) == [t \in TxId |-> IF listings[t].owner = b THEN listings[t].collateral ELSE 0]
HeldFor(b) == [a \in AppId |-> IF /\ applications[a].depositor = b
                                  /\ applications[a].status = "Pending" \/ Engaged(a)
                               THEN applications[a].deposit ELSE 0]
Owned(b) == Total(OwnedBy(b), MaxListings)
Held(b)  == Total(HeldFor(b), MaxApplications)

\* The five parts of an address's wealth are naturals.
WealthParts ==
    \A b \in Address :
        /\ Wealth(b) = wallet[b] + credit[b] + Owned(b) + Held(b) + Owed(stack, {b})
        /\ Wealth(b) \in Nat /\ wallet[b] \in Nat /\ credit[b] \in Nat
        /\ Owned(b) \in Nat /\ Held(b) \in Nat /\ Owed(stack, {b}) \in Nat
        /\ \A t \in TxId : OwnedBy(b)[t] \in Nat
        /\ \A a \in AppId : HeldFor(b)[a] \in Nat

\* Wealth is the sum of its parts.
LEMMA WealthSum == IInv => WealthParts
<1> SUFFICES ASSUME IInv, NEW b \in Address
             PROVE  /\ Wealth(b) = wallet[b] + credit[b] + Owned(b) + Held(b) + Owed(stack, {b})
                    /\ Wealth(b) \in Nat /\ wallet[b] \in Nat /\ credit[b] \in Nat
                    /\ Owned(b) \in Nat /\ Held(b) \in Nat /\ Owed(stack, {b}) \in Nat
                    /\ \A t \in TxId : OwnedBy(b)[t] \in Nat
                    /\ \A a \in AppId : HeldFor(b)[a] \in Nat
  BY DEF WealthParts
<1>1. /\ wallet[b] \in Nat /\ credit[b] \in Nat /\ stack \in Seq(Payout)
      /\ listings \in [TxId -> Listing] /\ applications \in [AppId -> Application]
  BY DEF IInv, TypeOK
<1>2. \A t \in TxId : OwnedBy(b)[t] \in Nat
  BY <1>1 DEF OwnedBy, Listing
<1>3. \A a \in AppId : HeldFor(b)[a] \in Nat
  BY <1>1 DEF HeldFor, Application
<1>4. Owned(b) \in Nat
  BY <1>2, TotalNat DEF Owned, TxId
<1>5. Held(b) \in Nat
  BY <1>3, TotalNat DEF Held, AppId
<1>6. Owed(stack, {b}) \in Nat
  BY <1>1, OwedNat
<1>7. Total([i \in 1..Len(stack) |-> IF stack[i].to = b THEN stack[i].amount ELSE 0], Len(stack))
         = Owed(stack, {b})
  BY DEF Owed, OwedBy, Given
<1>8. Wealth(b) = wallet[b] + credit[b] + Owned(b) + Held(b) + Owed(stack, {b})
  BY <1>7 DEF Wealth, Owned, Held, OwnedBy, HeldFor, Engaged
<1>9. Wealth(b) \in Nat
  BY <1>1, <1>4, <1>5, <1>6, <1>8
<1> QED BY <1>1, <1>2, <1>3, <1>4, <1>5, <1>6, <1>8, <1>9

\* The same after a step.
LEMMA WealthSumNext == IInv' => WealthParts'
  BY WealthSum, PTL

\* One listing changes.
LEMMA OwnedChange ==
    ASSUME IInv, IInv', NEW b \in Address, NEW k \in TxId, ListingChange(k)
    PROVE  Owned(b)' + OwnedBy(b)[k] = Owned(b) + OwnedBy(b)'[k]
<1> DEFINE f == OwnedBy(b)
           g == OwnedBy(b)'
<1>1. \A t \in 1..MaxListings : f[t] \in Nat /\ g[t] \in Nat
  BY WealthSum, WealthSumNext DEF WealthParts, TxId
<1>2. \A t \in 1..MaxListings : t # k => g[t] = f[t]
  BY DEF ListingChange, OwnedBy, TxId
<1>3. Owned(b) = Total(f, MaxListings) /\ Owned(b)' = Total(g, MaxListings)
  BY DEF Owned
<1>4. k \in 1..MaxListings
  BY DEF TxId
<1> HIDE DEF f, g
<1>5. Total(g, MaxListings) + f[k] = Total(f, MaxListings) + g[k]
  BY <1>1, <1>2, <1>4, TotalChange
<1> QED BY <1>3, <1>5 DEF f, g

\* The deposit of one application changes hands.
LEMMA HeldChange ==
    ASSUME IInv, IInv', NEW b \in Address, NEW k \in AppId,
           \A a \in AppId : a # k => HeldFor(b)'[a] = HeldFor(b)[a]
    PROVE  Held(b)' + HeldFor(b)[k] = Held(b) + HeldFor(b)'[k]
<1> DEFINE f == HeldFor(b)
           g == HeldFor(b)'
<1>1. \A a \in 1..MaxApplications : f[a] \in Nat /\ g[a] \in Nat
  BY WealthSum, WealthSumNext DEF WealthParts, AppId
<1>2. \A a \in 1..MaxApplications : a # k => g[a] = f[a]
  BY DEF AppId
<1>3. Held(b) = Total(f, MaxApplications) /\ Held(b)' = Total(g, MaxApplications)
  BY DEF Held
<1>4. k \in 1..MaxApplications
  BY DEF AppId
<1> HIDE DEF f, g
<1>5. Total(g, MaxApplications) + f[k] = Total(f, MaxApplications) + g[k]
  BY <1>1, <1>2, <1>4, TotalChange
<1> QED BY <1>3, <1>5 DEF f, g

\* What does not change keeps its sums.
LEMMA WealthUnchanged ==
    ASSUME NEW b
    PROVE  /\ UNCHANGED listings => Owned(b)' = Owned(b)
           /\ UNCHANGED <<applications, engagements>> => Held(b)' = Held(b)
  BY DEF Owned, OwnedBy, Held, HeldFor, Engaged

\* The collateral of a new listing comes from its owner's wallet.
LEMMA RegisterWealth ==
    ASSUME IInv, IInv', NEW b \in Address, NEW sender \in Address, NEW value \in Amount,
           NEW cTx, NEW txData, NEW policyIdR, NEW r, NEW sigma, NEW eta, NEW tAtt,
           register(sender, value, cTx, txData, policyIdR, r, sigma, eta, tAtt)
    PROVE  Wealth(b)' = Wealth(b)
<1>1. nextTxId \in TxId /\ listings[nextTxId].collateral = 0 /\ value \in Nat
  <2>1. nextTxId <= MaxListings /\ value \in Nat
    BY DEF register
  <2>2. nextTxId \in TxId /\ ~(nextTxId < nextTxId)
    BY <2>1 DEF IInv, TypeOK, TxId
  <2> QED BY <2>1, <2>2 DEF IInv, RecordsAssigned, RecordsMatchState
<1>2. /\ listings' = [listings EXCEPT ![nextTxId] =
             [cTx |-> cTx, policyIdR |-> policyIdR, owner |-> sender,
              collateral |-> value, expirations |-> 0]]
      /\ txState' = [txState EXCEPT ![nextTxId] = "Active"]
      /\ value <= wallet[sender] /\ wallet' = [wallet EXCEPT ![sender] = wallet[sender] - value]
      /\ UNCHANGED <<applications, engagements, credit, stack>>
  BY DEF register, Receive, appVars, engVars
<1>3. /\ ListingChange(nextTxId)
      /\ OwnedBy(b)[nextTxId] = 0 /\ OwnedBy(b)'[nextTxId] = IF sender = b THEN value ELSE 0
  BY <1>1, <1>2 DEF IInv, TypeOK, ListingChange, OwnedBy
<1>4. Owned(b)' + OwnedBy(b)[nextTxId] = Owned(b) + OwnedBy(b)'[nextTxId]
  BY <1>1, <1>3, OwnedChange
<1>5. Held(b)' = Held(b)
  BY <1>2, WealthUnchanged
<1>6. wallet'[b] = IF sender = b THEN wallet[b] - value ELSE wallet[b]
  BY <1>2 DEF IInv, TypeOK
<1>7. credit'[b] = credit[b] /\ Owed(stack', {b}) = Owed(stack, {b})
  BY <1>2
<1> QED BY <1>1, <1>3, <1>4, <1>5, <1>6, <1>7, WealthSum, WealthSumNext DEF WealthParts

\* A deposit comes from the applicant's wallet.
LEMMA ApplyWealth ==
    ASSUME IInv, IInv', NEW b \in Address, NEW sender \in Address, NEW value \in Amount,
           NEW txId, NEW txData, NEW r, NEW cB, NEW sigma, NEW eta, NEW tAtt,
           applyFor(sender, value, txId, txData, r, cB, sigma, eta, tAtt)
    PROVE  Wealth(b)' = Wealth(b)
<1>1. nextAppId \in AppId /\ applications[nextAppId].status = "None" /\ value \in Nat
  <2>1. nextAppId <= MaxApplications /\ value \in Nat
    BY DEF applyFor
  <2>2. nextAppId \in AppId /\ ~(nextAppId < nextAppId)
    BY <2>1 DEF IInv, TypeOK, AppId
  <2> QED BY <2>1, <2>2 DEF IInv, RecordsAssigned
<1>2. /\ applications' = [applications EXCEPT ![nextAppId] =
             [txId |-> txId, depositor |-> sender, status |-> "Pending",
              deposit |-> value, cB |-> cB]]
      /\ value <= wallet[sender] /\ wallet' = [wallet EXCEPT ![sender] = wallet[sender] - value]
      /\ UNCHANGED <<listings, engagements, credit, stack>>
  BY DEF applyFor, Receive, listingVars, engVars
<1>3. ~Engaged(nextAppId)
  BY <1>1 DEF Engaged, IInv, RecordsAssigned, appOf
<1>4. /\ \A a \in AppId : a # nextAppId => HeldFor(b)'[a] = HeldFor(b)[a]
      /\ HeldFor(b)[nextAppId] = 0 /\ HeldFor(b)'[nextAppId] = IF sender = b THEN value ELSE 0
  <2>1. \A a \in AppId : Engaged(a)' <=> Engaged(a)
    BY <1>2 DEF Engaged
  <2>2. /\ \A a \in AppId : a # nextAppId => applications'[a] = applications[a]
        /\ applications'[nextAppId].status = "Pending" /\ applications'[nextAppId].deposit = value
        /\ applications'[nextAppId].depositor = sender
    BY <1>1, <1>2 DEF IInv, TypeOK
  <2> QED BY <1>1, <1>3, <2>1, <2>2 DEF HeldFor
<1>5. Held(b)' + HeldFor(b)[nextAppId] = Held(b) + HeldFor(b)'[nextAppId]
  BY <1>1, <1>4, HeldChange
<1>6. Owned(b)' = Owned(b)
  BY <1>2, WealthUnchanged
<1>7. wallet'[b] = IF sender = b THEN wallet[b] - value ELSE wallet[b]
  BY <1>2 DEF IInv, TypeOK
<1>8. credit'[b] = credit[b] /\ Owed(stack', {b}) = Owed(stack, {b})
  BY <1>2
<1> QED BY <1>1, <1>4, <1>5, <1>6, <1>7, <1>8, WealthSum, WealthSumNext DEF WealthParts

\* A pending deposit that becomes a locked one stays its applicant's.
LEMMA EngageWealth ==
    ASSUME IInv, IInv', NEW b \in Address, NEW sender, NEW txId \in TxId, NEW appId \in AppId,
           engage(sender, txId, appId)
    PROVE  Wealth(b)' = Wealth(b)
<1>1. nextEngId \in EngId /\ engagements[nextEngId].status = "None"
  <2>1. nextEngId \in EngId /\ ~(nextEngId < nextEngId)
    BY DEF engage, IInv, TypeOK, EngId
  <2> QED BY <2>1 DEF IInv, RecordsAssigned
<1>2. /\ applications[appId].status = "Pending"
      /\ engagements' = [engagements EXCEPT ![nextEngId] =
             [appId |-> appId, expiresAt |-> now + TAU_LOCK, status |-> "Open"]]
      /\ applications' = [applications EXCEPT ![appId].status = "Engaged"]
      /\ UNCHANGED <<listings, credit, stack, wallet>>
  BY DEF engage, fundVars
<1>3. /\ \A e \in EngId : e # nextEngId => engagements'[e] = engagements[e]
      /\ engagements'[nextEngId].appId = appId /\ engagements'[nextEngId].status = "Open"
  BY <1>1, <1>2 DEF IInv, TypeOK
<1>4. \A a \in AppId : Engaged(a)' <=> Engaged(a) \/ a = appId
  BY <1>1, <1>3 DEF Engaged
<1>5. \A a \in AppId : /\ applications'[a].deposit = applications[a].deposit
                       /\ applications'[a].depositor = applications[a].depositor
                       /\ a # appId => applications'[a].status = applications[a].status
  <2>1. applications \in [AppId -> Application]
    BY DEF IInv, TypeOK
  <2> QED BY <1>2, <2>1 DEF Application
<1>6. HeldFor(b)' = HeldFor(b)
  BY <1>2, <1>4, <1>5 DEF HeldFor
<1>7. Held(b)' = Held(b)
  BY <1>6 DEF Held
<1>8. Owned(b)' = Owned(b)
  BY <1>2, WealthUnchanged
<1> QED BY <1>2, <1>7, <1>8, WealthSum, WealthSumNext DEF WealthParts

\* A reclaimed deposit is owed to its applicant.
LEMMA ReclaimWealth ==
    ASSUME IInv, IInv', NEW b \in Address, NEW sender \in Address, NEW appId \in AppId,
           reclaim(sender, appId)
    PROVE  Wealth(b)' = Wealth(b)
<1> DEFINE a == applications[appId]
<1>1. /\ a.status = "Pending" /\ a.depositor = sender
      /\ applications' = [applications EXCEPT ![appId].status = "Reclaimed"]
      /\ Pay(pay(sender, a.deposit))
      /\ UNCHANGED <<listings, engagements, credit, wallet>>
  BY DEF reclaim, listingVars, engVars
<1>2. a.deposit \in Nat /\ stack \in Seq(Payout)
  BY DEF IInv, TypeOK, Application
<1>3. ~Engaged(appId) /\ \A x \in AppId : Engaged(x)' <=> Engaged(x)
  BY <1>1 DEF Engaged, IInv, RecordsAssigned, appOf
<1>4. /\ \A x \in AppId : x # appId => HeldFor(b)'[x] = HeldFor(b)[x]
      /\ HeldFor(b)[appId] = Given(sender, a.deposit, {b}) /\ HeldFor(b)'[appId] = 0
  <2>1. /\ \A x \in AppId : x # appId => applications'[x] = applications[x]
        /\ applications'[appId].status = "Reclaimed"
    BY <1>1 DEF IInv, TypeOK, Application
  <2> QED BY <1>1, <1>3, <2>1 DEF HeldFor, Given
<1>5. Held(b)' + HeldFor(b)[appId] = Held(b) + HeldFor(b)'[appId]
  BY <1>4, HeldChange
<1>6. Owed(stack', {b}) = Given(sender, a.deposit, {b}) + Owed(stack, {b})
  BY <1>1, <1>2, OwedPay DEF Pay
<1>7. Owned(b)' = Owned(b)
  BY <1>1, WealthUnchanged
<1>8. credit'[b] = credit[b] /\ wallet'[b] = wallet[b] /\ Given(sender, a.deposit, {b}) \in Nat
  BY <1>1, <1>2 DEF Given
<1> QED BY <1>4, <1>5, <1>6, <1>7, <1>8, WealthSum, WealthSumNext DEF WealthParts

\* The collateral of a cancelled listing is owed to its owner.
LEMMA CancelWealth ==
    ASSUME IInv, IInv', NEW b \in Address, NEW sender \in Address, NEW txId \in TxId,
           cancel(sender, txId)
    PROVE  Wealth(b)' = Wealth(b)
<1> DEFINE l == listings[txId]
<1>1. /\ l.owner = sender
      /\ txState' = [txState EXCEPT ![txId] = "Cancelled"]
      /\ listings' = [listings EXCEPT ![txId].collateral = 0]
      /\ Pay(pay(sender, l.collateral))
      /\ UNCHANGED <<applications, engagements, credit, wallet>>
  BY DEF cancel, appVars, engVars
<1>2. l.collateral \in Nat /\ stack \in Seq(Payout)
  BY DEF IInv, TypeOK, Listing
<1>3. /\ ListingChange(txId) /\ OwnedBy(b)[txId] = Given(sender, l.collateral, {b})
      /\ OwnedBy(b)'[txId] = 0
  <2>0. listings \in [TxId -> Listing]
    BY DEF IInv, TypeOK
  <2>1. ListingChange(txId) /\ listings'[txId].collateral = 0
    BY <1>1, <2>0 DEF Listing, ListingChange
  <2>2. OwnedBy(b)'[txId] = 0
    BY <2>1 DEF OwnedBy
  <2> QED BY <1>1, <2>1, <2>2 DEF OwnedBy, Given
<1>4. Owned(b)' + OwnedBy(b)[txId] = Owned(b) + OwnedBy(b)'[txId]
  BY <1>3, OwnedChange
<1>5. Owed(stack', {b}) = Given(sender, l.collateral, {b}) + Owed(stack, {b})
  <2>1. stack' = pay(sender, l.collateral) \o stack
    BY <1>1 DEF Pay
  <2> HIDE DEF l
  <2> QED BY <1>2, <2>1, OwedPay
<1>6. Held(b)' = Held(b)
  BY <1>1, WealthUnchanged
<1>7. credit'[b] = credit[b] /\ wallet'[b] = wallet[b] /\ Given(sender, l.collateral, {b}) \in Nat
  BY <1>1, <1>2 DEF Given
<1> QED BY <1>3, <1>4, <1>5, <1>6, <1>7, WealthSum, WealthSumNext DEF WealthParts

\* Closing an engagement ends the applicant's hold on the deposit, and the
\* owner's on the collateral the listing gives up; the payouts are what both
\* get for it.
LEMMA CloseWealth ==
    ASSUME IInv, IInv', NEW b \in Address, NEW engId \in EngId, engagements[engId].status = "Open",
           NEW s \in {"Settled", "Expired"},
           engagements' = [engagements EXCEPT ![engId].status = s],
           ListingChange(txOf(engId)),
           listings'[txOf(engId)].owner = listings[txOf(engId)].owner,
           NEW paidOwner \in Nat, NEW paidDepositor \in Nat,
           Owed(stack', {b}) = Given(listings[txOf(engId)].owner, paidOwner, {b})
                                 + Given(appOf(engId).depositor, paidDepositor, {b})
                                 + Owed(stack, {b}),
           UNCHANGED <<applications, credit, wallet>>
    PROVE  Wealth(b)' + Given(listings[txOf(engId)].owner, listings[txOf(engId)].collateral, {b})
                      + Given(appOf(engId).depositor, appOf(engId).deposit, {b})
             = Wealth(b) + Given(listings[txOf(engId)].owner, listings'[txOf(engId)].collateral, {b})
                 + Given(listings[txOf(engId)].owner, paidOwner, {b})
                 + Given(appOf(engId).depositor, paidDepositor, {b})
<1> DEFINE txId == txOf(engId)
           k == engagements[engId].appId
           o == listings[txId].owner
           d == appOf(engId).depositor
<1>1. /\ txId \in TxId /\ appOf(engId).deposit \in Nat /\ listings[txId].collateral \in Nat
      /\ k \in AppId
  BY OpenRecords DEF IInv, RecordsAssigned
<1>2. listings'[txId].collateral \in Nat
  BY <1>1 DEF IInv, TypeOK, Listing
<1>3. OwnedBy(b)[txId] = Given(o, listings[txId].collateral, {b})
        /\ OwnedBy(b)'[txId] = Given(o, listings'[txId].collateral, {b})
  BY <1>1 DEF OwnedBy, Given
<1>4. Owned(b)' + OwnedBy(b)[txId] = Owned(b) + OwnedBy(b)'[txId]
  BY <1>1, OwnedChange
<1>5. /\ \A e \in EngId : /\ engagements'[e].appId = engagements[e].appId
                          /\ e # engId => engagements'[e].status = engagements[e].status
      /\ engagements'[engId].status = s
  <2>1. engagements \in [EngId -> Engagement]
    BY DEF IInv, TypeOK
  <2> QED BY <2>1 DEF Engagement
<1>6. \A e \in EngId : engagements[e].status = "Open" /\ engagements[e].appId = k => e = engId
  BY DEF IInv, EngagementHistory
<1>7. Engaged(k) /\ ~Engaged(k)' /\ \A a \in AppId : a # k => (Engaged(a)' <=> Engaged(a))
  BY <1>5, <1>6 DEF Engaged
<1>8. applications[k].status = "Engaged" /\ appOf(engId) = applications[k]
  BY DEF IInv, RecordsAssigned, appOf
<1>9. /\ \A a \in AppId : a # k => HeldFor(b)'[a] = HeldFor(b)[a]
      /\ HeldFor(b)[k] = Given(d, appOf(engId).deposit, {b}) /\ HeldFor(b)'[k] = 0
  BY <1>1, <1>7, <1>8 DEF HeldFor, Given
<1>10. Held(b)' + HeldFor(b)[k] = Held(b) + HeldFor(b)'[k]
  BY <1>1, <1>9, HeldChange
<1> DEFINE g1 == Given(o, listings[txId].collateral, {b})
           g2 == Given(o, listings'[txId].collateral, {b})
           g3 == Given(o, paidOwner, {b})
           g4 == Given(d, paidDepositor, {b})
           g5 == Given(d, appOf(engId).deposit, {b})
           q0 == Owed(stack, {b})
           q1 == Owed(stack', {b})
<1>11. g1 \in Nat /\ g2 \in Nat /\ g3 \in Nat /\ g4 \in Nat /\ g5 \in Nat
  BY <1>1, <1>2 DEF Given
<1>12. Owned(b)' + g1 = Owned(b) + g2 /\ Held(b)' + g5 = Held(b) /\ q1 = g3 + g4 + q0
  <2>1. Owned(b)' + g1 = Owned(b) + g2
    BY <1>3, <1>4
  <2>2. Held(b) \in Nat /\ Held(b)' + g5 = Held(b) + 0
    BY <1>9, <1>10, WealthSum DEF WealthParts
  <2>3. q1 = g3 + g4 + q0
    OBVIOUS
  <2> HIDE DEF g1, g2, g3, g4, g5, q0, q1
  <2> QED BY <2>1, <2>2, <2>3
<1>13. /\ Wealth(b) = wallet[b] + credit[b] + Owned(b) + Held(b) + q0
       /\ Wealth(b)' = wallet'[b] + credit'[b] + Owned(b)' + Held(b)' + q1
       /\ wallet'[b] = wallet[b] /\ credit'[b] = credit[b]
       /\ wallet[b] \in Nat /\ credit[b] \in Nat /\ Owned(b) \in Nat /\ Held(b) \in Nat
       /\ Owned(b)' \in Nat /\ Held(b)' \in Nat /\ q0 \in Nat /\ q1 \in Nat
  <2>1. /\ Wealth(b) = wallet[b] + credit[b] + Owned(b) + Held(b) + q0
        /\ wallet[b] \in Nat /\ credit[b] \in Nat /\ Owned(b) \in Nat /\ Held(b) \in Nat
        /\ q0 \in Nat
    BY WealthSum DEF WealthParts
  <2>2. /\ Wealth(b)' = wallet'[b] + credit'[b] + Owned(b)' + Held(b)' + q1
        /\ Owned(b)' \in Nat /\ Held(b)' \in Nat /\ q1 \in Nat
    BY WealthSumNext DEF WealthParts
  <2> HIDE DEF q0, q1
  <2> QED BY <2>1, <2>2
<1>14. Wealth(b)' + g1 + g5 = Wealth(b) + g2 + g3 + g4
  <2> HIDE DEF g1, g2, g3, g4, g5, q0, q1
  <2> QED BY <1>11, <1>12, <1>13
<1> QED BY <1>14

\* settle moves the agreed share of the deposit, and nothing else.
LEMMA SettleWealth ==
    ASSUME IInv, IInv', NEW b \in Address, NEW sender, NEW engId \in EngId, NEW txData, NEW r,
           NEW sigma, NEW eta \in Nonce, NEW tAtt,
           settle(sender, engId, txData, r, sigma, eta, tAtt)
    PROVE  AgreedTransfer(b)
<1> DEFINE a == appOf(engId)
           txId == txOf(engId)
           l == listings[txId]
           share == (a.deposit * l.cTx[1].settlementShare) \div BPS
<1>1. engagements[engId].status = "Open"
  BY SettleOpen
<1>2. /\ a.depositor \in Address /\ a.deposit \in Nat
      /\ txId \in TxId /\ txState[txId] = "Locked"
      /\ l \in Listing /\ l.owner \in Address /\ l.collateral \in Nat
      /\ l.cTx[1].settlementShare <= BPS /\ l.cTx[1] \in TxData
  BY <1>1, OpenRecords
<1>3. l.cTx[1] = txData
  <2>1. commitment(txData, l.policyIdR, r) = l.cTx
    BY ZenonT(20) DEF settle, appOf, txOf
  <2> QED BY <2>1 DEF commitment
<1>4. /\ engagements' = [engagements EXCEPT ![engId].status = "Settled"]
      /\ txState' = [txState EXCEPT ![txId] = "Settled"]
      /\ listings' = [listings EXCEPT ![txId].collateral = 0]
      /\ Pay(pay(l.owner, share + l.collateral) \o pay(a.depositor, a.deposit - share))
      /\ UNCHANGED <<applications, credit, wallet>>
  BY <1>3, ZenonT(20) DEF settle, appOf, txOf, appVars
<1>5. share \in Nat /\ share <= a.deposit
  BY <1>2, ShareBound
<1> HIDE DEF share
<1>6. share + l.collateral \in Nat /\ a.deposit - share \in Nat /\ stack \in Seq(Payout)
  <2>1. stack \in Seq(Payout)
    BY DEF IInv, TypeOK
  <2> QED BY <1>2, <1>5, <2>1
<1>7. /\ ListingChange(txId) /\ listings'[txId].collateral = 0
      /\ listings'[txId].owner = l.owner
  <2> HIDE DEF txId
  <2> QED BY <1>2, <1>4 DEF IInv, TypeOK, Listing, ListingChange
<1> DEFINE p1 == share + l.collateral
           p2 == a.deposit - share
<1>8. Owed(stack', {b}) = Given(l.owner, p1, {b}) + Given(a.depositor, p2, {b}) + Owed(stack, {b})
  <2>1. stack' = (pay(l.owner, p1) \o pay(a.depositor, p2)) \o stack /\ p1 \in Nat /\ p2 \in Nat
    BY <1>4, <1>6 DEF Pay
  <2> HIDE DEF p1, p2
  <2> QED BY <1>2, <1>6, <2>1, OwedPayTwo
<1>9. Wealth(b)' + Given(l.owner, l.collateral, {b}) + Given(a.depositor, a.deposit, {b})
        = Wealth(b) + Given(l.owner, 0, {b}) + Given(l.owner, p1, {b}) + Given(a.depositor, p2, {b})
  <2>1. p1 \in Nat /\ p2 \in Nat
    BY <1>6
  <2>2. "Settled" \in {"Settled", "Expired"}
    OBVIOUS
  <2> HIDE DEF p1, p2
  <2>3. Wealth(b)' + Given(l.owner, l.collateral, {b}) + Given(a.depositor, a.deposit, {b})
          = Wealth(b) + Given(l.owner, listings'[txId].collateral, {b})
              + Given(l.owner, p1, {b}) + Given(a.depositor, p2, {b})
    <3>1. /\ engagements' = [engagements EXCEPT ![engId].status = "Settled"]
          /\ UNCHANGED <<applications, credit, wallet>>
          /\ listings'[txId].owner = l.owner
      BY <1>4, <1>7
    <3>2. ListingChange(txId)
      BY <1>7
    <3> QED BY <1>1, <1>8, <2>1, <2>2, <3>1, <3>2, CloseWealth, ZenonT(30)
  <2> QED BY <1>7, <2>3
<1>10. Wealth(b) \in Nat /\ Wealth(b)' \in Nat
  BY WealthSum, WealthSumNext DEF WealthParts
<1>11. \/ Wealth(b)' = Wealth(b)
       \/ b = l.owner /\ Wealth(b)' = Wealth(b) + share
       \/ b = a.depositor /\ Wealth(b)' + share = Wealth(b)
  <2> HIDE DEF a, l, txId
  <2>1. CASE b = l.owner /\ b = a.depositor
    BY <1>2, <1>5, <1>9, <1>10, <2>1 DEF Given
  <2>2. CASE b = l.owner /\ b # a.depositor
    BY <1>2, <1>5, <1>9, <1>10, <2>2 DEF Given
  <2>3. CASE b # l.owner /\ b = a.depositor
    BY <1>2, <1>5, <1>9, <1>10, <2>3 DEF Given
  <2>4. CASE b # l.owner /\ b # a.depositor
    BY <1>2, <1>5, <1>9, <1>10, <2>4 DEF Given
  <2> QED BY <2>1, <2>2, <2>3, <2>4
<1>12. Closes(engId, "Settled")
  BY <1>1, <1>4 DEF Closes, IInv, TypeOK, Engagement
<1> QED BY <1>11, <1>12 DEF AgreedTransfer, share

\* expire moves the collateral that does not survive, and nothing else.
LEMMA ExpireWealth ==
    ASSUME IInv, IInv', NEW b \in Address, NEW engId \in EngId, expire(engId)
    PROVE  AgreedTransfer(b)
<1> DEFINE a == appOf(engId)
           txId == txOf(engId)
           l == listings[txId]
           surviving == (l.collateral * RHO) \div BPS
           exhausted == exhausts(l)
           p1 == a.deposit + (l.collateral - surviving)
           p2 == IF exhausted THEN surviving ELSE 0
           left == IF exhausted THEN 0 ELSE surviving
<1>1. engagements[engId].status = "Open"
  BY ZenonT(20) DEF expire
<1>2. /\ a.depositor \in Address /\ a.deposit \in Nat
      /\ txId \in TxId /\ txState[txId] = "Locked"
      /\ l \in Listing /\ l.owner \in Address /\ l.collateral \in Nat
  BY <1>1, OpenRecords
<1>3. /\ engagements' = [engagements EXCEPT ![engId].status = "Expired"]
      /\ txState' = [txState EXCEPT ![txId] = IF exhausted THEN "Cancelled" ELSE "Expired"]
      /\ listings' = [listings EXCEPT ![txId] =
             [l EXCEPT !.expirations = l.expirations + 1, !.collateral = left]]
      /\ Pay(pay(a.depositor, p1) \o pay(l.owner, p2))
      /\ UNCHANGED <<applications, credit, wallet>>
  BY ZenonT(20) DEF expire, appOf, txOf, appVars
<1>4. surviving \in Nat /\ surviving <= l.collateral
  <2>1. RHO \in Nat /\ RHO <= BPS
    BY DEF BPS
  <2> HIDE DEF l
  <2> QED BY <1>2, <2>1, ShareBound
<1> HIDE DEF surviving
<1>5. p1 \in Nat /\ p2 \in Nat /\ left \in Nat /\ left + p2 = surviving /\ stack \in Seq(Payout)
  <2>1. stack \in Seq(Payout)
    BY DEF IInv, TypeOK
  <2> HIDE DEF l, a
  <2>2. p1 \in Nat
    BY <1>2, <1>4
  <2>3. p2 \in Nat /\ left \in Nat /\ left + p2 = surviving
    <3> HIDE DEF exhausted
    <3>1. CASE exhausted
      BY <1>4, <3>1
    <3>2. CASE ~ exhausted
      BY <1>4, <3>2
    <3> QED BY <3>1, <3>2
  <2> HIDE DEF p1, p2, left
  <2> QED BY <2>1, <2>2, <2>3
<1> HIDE DEF p2, left
<1>6. ListingChange(txId)
  BY <1>3 DEF IInv, TypeOK, ListingChange
<1>7. listings'[txId].collateral = left /\ listings'[txId].owner = l.owner
  <2>1. listings'[txId] = [l EXCEPT !.expirations = l.expirations + 1, !.collateral = left]
    BY <1>2, <1>3 DEF IInv, TypeOK
  <2> QED BY <1>2, <2>1 DEF Listing
<1>8. Owed(stack', {b}) = Given(a.depositor, p1, {b}) + Given(l.owner, p2, {b}) + Owed(stack, {b})
  <2>1. stack' = (pay(a.depositor, p1) \o pay(l.owner, p2)) \o stack
    BY <1>3 DEF Pay
  <2> HIDE DEF p1
  <2> QED BY <1>2, <1>5, <2>1, OwedPayTwo
<1>9. Owed(stack', {b}) = Given(l.owner, p2, {b}) + Given(a.depositor, p1, {b}) + Owed(stack, {b})
  <2>1. Given(a.depositor, p1, {b}) \in Nat /\ Given(l.owner, p2, {b}) \in Nat
    BY <1>5 DEF Given
  <2>2. Owed(stack, {b}) \in Nat
    BY <1>5, OwedNat
  <2> HIDE DEF p1
  <2> QED BY <1>8, <2>1, <2>2
<1>10. Wealth(b)' + Given(l.owner, l.collateral, {b}) + Given(a.depositor, a.deposit, {b})
        = Wealth(b) + Given(l.owner, left, {b}) + Given(l.owner, p2, {b})
            + Given(a.depositor, p1, {b})
  <2>1. "Expired" \in {"Settled", "Expired"}
    OBVIOUS
  <2> HIDE DEF p1
  <2>2. Wealth(b)' + Given(l.owner, l.collateral, {b}) + Given(a.depositor, a.deposit, {b})
          = Wealth(b) + Given(l.owner, listings'[txId].collateral, {b})
              + Given(l.owner, p2, {b}) + Given(a.depositor, p1, {b})
    <3>1. /\ engagements' = [engagements EXCEPT ![engId].status = "Expired"]
          /\ UNCHANGED <<applications, credit, wallet>>
          /\ listings'[txId].owner = l.owner /\ p1 \in Nat /\ p2 \in Nat
      BY <1>3, <1>5, <1>7
    <3> QED BY <1>1, <1>6, <1>9, <2>1, <3>1, CloseWealth, ZenonT(60)
  <2> QED BY <1>7, <2>2
<1>11. Wealth(b) \in Nat /\ Wealth(b)' \in Nat
  BY WealthSum, WealthSumNext DEF WealthParts
<1> DEFINE lost == l.collateral - surviving
<1>12. lost \in Nat /\ p1 = a.deposit + lost /\ left + p2 + lost = l.collateral
  <2> HIDE DEF l, a
  <2>1. lost \in Nat /\ surviving + lost = l.collateral
    BY <1>2, <1>4
  <2>2. p1 = a.deposit + lost
    OBVIOUS
  <2> HIDE DEF lost, p1
  <2> QED BY <1>5, <2>1, <2>2
<1> HIDE DEF lost, p1
<1>13. \/ Wealth(b)' = Wealth(b)
       \/ b = l.owner /\ Wealth(b)' + lost = Wealth(b)
       \/ b = a.depositor /\ Wealth(b)' = Wealth(b) + lost
  <2> DEFINE w == Wealth(b)
             v == Wealth(b)'
             c == l.collateral
             dep == a.deposit
  <2>1. /\ w \in Nat /\ v \in Nat /\ c \in Nat /\ dep \in Nat /\ left \in Nat /\ p2 \in Nat
        /\ lost \in Nat /\ p1 = dep + lost /\ left + p2 + lost = c
    BY <1>2, <1>5, <1>11, <1>12
  <2>2. v + Given(l.owner, c, {b}) + Given(a.depositor, dep, {b})
          = w + Given(l.owner, left, {b}) + Given(l.owner, p2, {b}) + Given(a.depositor, p1, {b})
    BY <1>10
  <2> HIDE DEF w, v, c, dep
  <2>3. CASE b = l.owner /\ b = a.depositor
    <3>1. v + c + dep = w + left + p2 + p1
      BY <2>2, <2>3 DEF Given
    <3>2. v = w
      BY <2>1, <3>1
    <3> QED BY <3>2 DEF v, w
  <2>4. CASE b = l.owner /\ b # a.depositor
    <3>1. v + c + 0 = w + left + p2 + 0
      BY <2>2, <2>4 DEF Given
    <3>2. v + lost = w
      BY <2>1, <3>1
    <3> QED BY <2>4, <3>2 DEF v, w
  <2>5. CASE b # l.owner /\ b = a.depositor
    <3>1. v + 0 + dep = w + 0 + 0 + p1
      BY <2>2, <2>5 DEF Given
    <3>2. v = w + lost
      BY <2>1, <3>1
    <3> QED BY <2>5, <3>2 DEF v, w
  <2>6. CASE b # l.owner /\ b # a.depositor
    <3>1. v + 0 + 0 = w + 0 + 0 + 0
      BY <2>2, <2>6 DEF Given
    <3>2. v = w
      BY <2>1, <3>1
    <3> QED BY <3>2 DEF v, w
  <2> QED BY <2>3, <2>4, <2>5, <2>6
<1>14. Closes(engId, "Expired")
  BY <1>1, <1>3 DEF Closes, IInv, TypeOK, Engagement
<1> QED BY <1>13, <1>14 DEF AgreedTransfer, lost, surviving

\* An amount goes from a payout in progress to the wallet or the credit, or
\* from the credit to the wallet, of the same address.
LEMMA WealthMoved ==
    ASSUME IInv, IInv', NEW b \in Address, Owned(b)' = Owned(b), Held(b)' = Held(b), NEW x \in Nat,
           \/ /\ wallet'[b] = wallet[b] + x /\ credit'[b] = credit[b]
              /\ Owed(stack', {b}) + x = Owed(stack, {b})
           \/ /\ wallet'[b] = wallet[b] /\ credit'[b] = credit[b] + x
              /\ Owed(stack', {b}) + x = Owed(stack, {b})
           \/ /\ wallet'[b] = wallet[b] + x /\ credit'[b] + x = credit[b]
              /\ Owed(stack', {b}) = Owed(stack, {b})
    PROVE  Wealth(b)' = Wealth(b)
<1> DEFINE w0 == wallet[b]
           w1 == wallet'[b]
           c0 == credit[b]
           c1 == credit'[b]
           o0 == Owed(stack, {b})
           o1 == Owed(stack', {b})
<1>1. /\ Wealth(b) = w0 + c0 + Owned(b) + Held(b) + o0
      /\ w0 \in Nat /\ c0 \in Nat /\ Owned(b) \in Nat /\ Held(b) \in Nat /\ o0 \in Nat
  BY WealthSum DEF WealthParts
<1>2. /\ Wealth(b)' = w1 + c1 + Owned(b)' + Held(b)' + o1
      /\ w1 \in Nat /\ c1 \in Nat /\ o1 \in Nat
  BY WealthSumNext DEF WealthParts
<1>3. \/ w1 = w0 + x /\ c1 = c0 /\ o1 + x = o0
      \/ w1 = w0 /\ c1 = c0 + x /\ o1 + x = o0
      \/ w1 = w0 + x /\ c1 + x = c0 /\ o1 = o0
  OBVIOUS
<1> HIDE DEF w0, w1, c0, c1, o0, o1
<1> QED BY <1>1, <1>2, <1>3

\* A payout reaches its recipient as money or as credit.
LEMMA FundsWealth ==
    ASSUME IInv, IInv', NEW b \in Address, Payouts \/ \E sender \in Address : withdraw(sender)
    PROVE  Wealth(b)' = Wealth(b)
<1> USE DEF listingVars, appVars, engVars
<1>1. stack \in Seq(Payout) /\ credit \in [Address -> Nat] /\ wallet \in [Address -> Nat]
  BY DEF IInv, TypeOK
<1>2. UNCHANGED <<listings, applications, engagements>> =>
          Owned(b)' = Owned(b) /\ Held(b)' = Held(b)
  BY WealthUnchanged
<1> DEFINE h == Head(stack)
           rest == Tail(stack)
<1>3. ASSUME stack # <<>>
      PROVE  /\ h \in Payout /\ h.to \in Address /\ h.amount \in Nat /\ rest \in Seq(Payout)
             /\ Owed(stack, {b}) = Given(h.to, h.amount, {b}) + Owed(rest, {b})
             /\ Owed(rest, {b}) \in Nat /\ Given(h.to, h.amount, {b}) \in Nat
  <2>1. h \in Payout /\ rest \in Seq(Payout)
    BY <1>1, <1>3
  <2>2. h.to \in Address /\ h.amount \in Nat /\ Given(h.to, h.amount, {b}) \in Nat
    BY <2>1 DEF Payout, Given
  <2> QED BY <1>1, <1>3, <2>1, <2>2, OwedTop, OwedNat DEF OwedBy
<1>4. CASE PayoutDelivered
  <2>1. /\ stack # <<>> /\ wallet' = [wallet EXCEPT ![h.to] = wallet[h.to] + h.amount]
        /\ stack' = <<[h EXCEPT !.amount = 0]>> \o rest /\ credit' = credit
        /\ UNCHANGED <<listings, applications, engagements>>
    BY <1>4 DEF PayoutDelivered, Transfer
  <2> DEFINE p == [h EXCEPT !.amount = 0]
  <2>2. p \in Payout /\ OwedBy(p, {b}) = 0
    BY <1>3, <2>1 DEF Payout, OwedBy, Given
  <2>3. Owed(stack', {b}) = 0 + Owed(rest, {b})
    <3> HIDE DEF p
    <3>1. Owed(<<p>> \o rest, {b}) = OwedBy(p, {b}) + Owed(rest, {b})
      BY <1>3, <2>1, <2>2, OwedCons
    <3> QED BY <2>1, <2>2, <3>1 DEF p
  <2> HIDE DEF h, rest, p
  <2>4. wallet'[b] = wallet[b] + Given(h.to, h.amount, {b})
    BY <1>1, <1>3, <2>1 DEF Given
  <2>5. Owed(stack', {b}) + Given(h.to, h.amount, {b}) = Owed(stack, {b})
    <3>1. /\ Owed(stack, {b}) = Given(h.to, h.amount, {b}) + Owed(rest, {b})
          /\ Owed(rest, {b}) \in Nat /\ Given(h.to, h.amount, {b}) \in Nat
      BY <1>3, <2>1
    <3> QED BY <2>3, <3>1
  <2>6. Owned(b)' = Owned(b) /\ Held(b)' = Held(b) /\ credit'[b] = credit[b]
    BY <1>2, <2>1
  <2>7. Given(h.to, h.amount, {b}) \in Nat
    BY <1>3, <2>1
  <2> QED BY <2>4, <2>5, <2>6, <2>7, WealthMoved
<1>5. CASE PayoutCredited
  <2>1. /\ stack # <<>> /\ credit' = [credit EXCEPT ![h.to] = credit[h.to] + h.amount]
        /\ stack' = rest /\ wallet' = wallet
        /\ UNCHANGED <<listings, applications, engagements>>
    BY <1>5 DEF PayoutCredited
  <2> HIDE DEF h, rest
  <2>2. credit'[b] = credit[b] + Given(h.to, h.amount, {b})
    BY <1>1, <1>3, <2>1 DEF Given
  <2>3. Owed(stack', {b}) + Given(h.to, h.amount, {b}) = Owed(stack, {b})
    BY <1>3, <2>1
  <2>4. Owned(b)' = Owned(b) /\ Held(b)' = Held(b) /\ wallet'[b] = wallet[b]
    BY <1>2, <2>1
  <2>5. Given(h.to, h.amount, {b}) \in Nat
    BY <1>3, <2>1
  <2> QED BY <2>2, <2>3, <2>4, <2>5, WealthMoved
<1>6. CASE RecipientReturns
  <2>1. /\ stack # <<>> /\ h.amount = 0 /\ stack' = rest
        /\ UNCHANGED <<listings, applications, engagements, wallet, credit>>
    BY <1>6 DEF RecipientReturns
  <2>2. Given(h.to, h.amount, {b}) = 0
    BY <2>1 DEF Given
  <2> HIDE DEF h, rest
  <2>3. Owed(stack', {b}) = Owed(stack, {b})
    <3>1. Owed(stack, {b}) = 0 + Owed(rest, {b}) /\ Owed(rest, {b}) \in Nat
      BY <1>3, <2>1, <2>2
    <3> QED BY <2>1, <3>1
  <2>4. Owned(b)' = Owned(b) /\ Held(b)' = Held(b)
    BY <1>2, <2>1
  <2>5. wallet'[b] = wallet[b] /\ credit'[b] = credit[b]
    BY <2>1
  <2> QED BY <2>3, <2>4, <2>5, WealthSum, WealthSumNext DEF WealthParts
<1>7. ASSUME NEW sender \in Address, withdraw(sender) PROVE Wealth(b)' = Wealth(b)
  <2> DEFINE p == [to |-> sender, amount |-> 0]
             x == Given(sender, credit[sender], {b})
  <2>1. /\ credit' = [credit EXCEPT ![sender] = 0] /\ stack' = <<p>> \o stack
        /\ wallet' = [wallet EXCEPT ![sender] = wallet[sender] + credit[sender]]
        /\ UNCHANGED <<listings, applications, engagements>>
    BY <1>7 DEF withdraw, Transfer
  <2>2. p \in Payout /\ OwedBy(p, {b}) = 0
    BY DEF Payout, OwedBy, Given
  <2>3. Owed(stack', {b}) = 0 + Owed(stack, {b})
    <3> HIDE DEF p
    <3> QED BY <1>1, <2>1, <2>2, OwedCons
  <2>4. x \in Nat /\ wallet'[b] = wallet[b] + x /\ credit'[b] + x = credit[b]
    BY <1>1, <2>1 DEF Given
  <2> HIDE DEF p, x
  <2>5. Owed(stack', {b}) = Owed(stack, {b})
    <3>1. Owed(stack, {b}) \in Nat
      BY <1>1, OwedNat
    <3> QED BY <2>3, <3>1
  <2>6. Owned(b)' = Owned(b) /\ Held(b)' = Held(b)
    BY <1>2, <2>1
  <2> QED BY <2>4, <2>5, <2>6, WealthMoved
<1> QED BY <1>4, <1>5, <1>6, <1>7 DEF Payouts

\* One step changes nobody's wealth but as agreed.
LEMMA NextWealth == IInv /\ IInv' /\ [Next]_vars => [\A b \in Address : AgreedTransfer(b)]_vars
<1> SUFFICES ASSUME IInv, IInv', Next, NEW b \in Address PROVE AgreedTransfer(b)
  OBVIOUS
<1> USE DEF listingVars, appVars, engVars, fundVars
<1>0. Wealth(b)' = Wealth(b) => AgreedTransfer(b)
  BY DEF AgreedTransfer
<1>1. CASE Administer \/ Tick
  <2>1. UNCHANGED <<listings, applications, engagements, wallet, credit, stack>>
    BY <1>1 DEF Administer, registerPolicy, setNotaryVerifier, Tick
  <2>2. Wealth(b)' = Wealth(b)
    <3>1. Owned(b)' = Owned(b) /\ Held(b)' = Held(b)
      BY <2>1, WealthUnchanged
    <3> QED BY <2>1, <3>1, WealthSum, WealthSumNext DEF WealthParts
  <2> QED BY <1>0, <2>2
<1>2. CASE Register
  BY <1>0, <1>2, RegisterWealth DEF Register
<1>3. CASE Apply
  BY <1>0, <1>3, ApplyWealth DEF Apply
<1>4. CASE Settle
  BY <1>4, SettleWealth DEF Settle
<1>5. CASE Engage
  BY <1>0, <1>5, EngageWealth DEF Engage
<1>6. CASE Expire
  BY <1>6, ExpireWealth DEF Expire
<1>7. CASE Reclaim
  BY <1>0, <1>7, ReclaimWealth DEF Reclaim
<1>8. CASE Cancel
  BY <1>0, <1>8, CancelWealth DEF Cancel
<1>9. CASE Withdraw \/ Payouts
  BY <1>0, <1>9, FundsWealth DEF Withdraw
<1> QED BY <1>1, <1>2, <1>3, <1>4, <1>5, <1>6, <1>7, <1>8, <1>9 DEF Next

\* No call, by anybody and at any depth of re-entrance, changes what an
\* address owns in its wallet and through the contract, but a closing
\* engagement of its own: a settlement by the share of the deposit that was
\* committed to at registration, an expiration by the collateral that does
\* not survive.
THEOREM AgreedTransfersOnly == Spec => OnlyAgreedTransfers
  BY Invariance, NextWealth, PTL DEF Spec, OnlyAgreedTransfers
-----------------------------------------------------------------------------
(* The contract and its notaries together.                                 *)

(* What a session can be asked for. *)
StatementR == [txData : TxData, cTx : Commitment, eta : Nonce, tAtt : Time,
               phase : {"R"}, policyId : PolicyId, submitter : Address]
StatementA == [phase : {"A"}, txId : TxId, cTx : Commitment, txData : TxData, cB : CB,
               policyId : {b.policyIdA : b \in Bundle},
               submitter : Address, eta : Nonce, tAtt : Time]
StatementS == [phase : {"S"}, engId : EngId, txId : TxId, cTx : Commitment, txData : TxData,
               cB : CB, expiresAt : Time, policyId : {b.policyIdS : b \in Bundle},
               submitter : Address, eta : Nonce, tAtt : Time]
Asked == StatementR \cup StatementA \cup StatementS

SignedTypeOK == signed \in [Verifier -> SUBSET Asked] /\ IsFiniteSet(Signatures)

\* The signatures for (t, b, cB) whose nonce the contract has used up.
UsedFor(t, b, cB) == {s \in SignedFor(t, b, cB) : s.x.eta \in consumed}

ListingsAttested ==
    \A t \in TxId : txState[t] # "None" =>
        \E s \in Signatures : /\ s.x.phase = "R" /\ s.x.cTx = listings[t].cTx
                              /\ s.x.submitter = listings[t].owner

\* The strengthening that makes the count inductive: an application used up a nonce.
ApplicationsAttested ==
    \A t \in TxId, b \in Address, cB \in CB :
        Cardinality(AppliedFor(t, b, cB)) <= Cardinality(UsedFor(t, b, cB))

SettlementsAttested ==
    \A e \in EngId : engagements[e].status = "Settled" =>
        \E s \in Signatures : /\ s.x.phase = "S" /\ s.x.engId = e
                              /\ s.x.submitter = listings[txOf(e)].owner
                              /\ s.x.cB = appOf(e).cB
                              /\ s.x.expiresAt = engagements[e].expiresAt

AInv ==
    /\ IInv
    /\ SignedTypeOK
    /\ ListingsAttested /\ ApplicationsAttested /\ SettlementsAttested

-----------------------------------------------------------------------------
(* Signatures. *)

\* A signature is a statement asked for, under the key that signed it.
LEMMA SignatureFields ==
    ASSUME SignedTypeOK, NEW sigma \in Signatures
    PROVE  /\ \E v \in Verifier : sigma = Sign(v, sigma.x) /\ sigma.x \in signed[v]
           /\ sigma.x \in Asked
           /\ sigma.x.eta \in Nonce /\ sigma.x.tAtt \in Time /\ sigma.x.txData \in TxData
           /\ sigma.x.phase = "R" => sigma.x.cTx \in Commitment /\ sigma.x.policyId \in PolicyId
           /\ sigma.x.phase = "A" => sigma.x.cB \in CB
<1>0. PICK v \in Verifier : \E x \in signed[v] : sigma = Sign(v, x)
    BY DEF Signatures
<1>1. PICK x \in signed[v] : sigma = Sign(v, x)
    BY <1>0
<1>2. sigma.x = x /\ x \in Asked
    BY <1>1 DEF Sign, SignedTypeOK
<1>3. /\ x.eta \in Nonce /\ x.tAtt \in Time /\ x.txData \in TxData
      /\ x.phase = "R" => x.cTx \in Commitment /\ x.policyId \in PolicyId
      /\ x.phase = "A" => x.cB \in CB
    BY <1>2 DEF Asked, StatementR, StatementA, StatementS
<1>4. QED
    BY <1>1, <1>2, <1>3

\* A signing adds one signature, of a statement that can be asked for.
LEMMA SigningAdds ==
    ASSUME SignedTypeOK, NEW v \in Verifier, NEW x \in Asked, NotarySigns(v, x)
    PROVE  SignedTypeOK' /\ Signatures \subseteq Signatures'
<1>1. signed \in [Verifier -> SUBSET Asked] /\ signed' = [signed EXCEPT ![v] = @ \cup {x}]
    BY DEF SignedTypeOK, NotarySigns
<1>2. signed' \in [Verifier -> SUBSET Asked]
    BY <1>1
<1>3. \A w \in Verifier : signed'[w] = IF w = v THEN signed[w] \cup {x} ELSE signed[w]
    BY <1>1
<1>4. Signatures' = Signatures \cup {Sign(v, x)}
    <2>1. \A s : s \in Signatures <=> \E w \in Verifier : \E y \in signed[w] : s = Sign(w, y)
        BY DEF Signatures
    <2>2. \A s : s \in Signatures' <=> \E w \in Verifier : \E y \in signed'[w] : s = Sign(w, y)
        BY DEF Signatures
    <2>3. \A s : s \in Signatures' <=> s \in Signatures \/ s = Sign(v, x)
        <3>1. \A w \in Verifier : \A y :
                y \in signed'[w] <=> (y \in signed[w] \/ (w = v /\ y = x))
            BY <1>3
        <3> QED BY <2>1, <2>2, <3>1, Zenon
    <2>4. QED
        BY <2>3
<1>5. IsFiniteSet(Signatures')
    BY <1>4, FS_AddElement DEF SignedTypeOK
<1>6. QED
    BY <1>2, <1>4, <1>5 DEF SignedTypeOK

\* The users' sessions end with a signing, and nothing happens on the chain.
LEMMA SessionSigns ==
    ASSUME IInv, runRegister \/ runApply \/ runSettle
    PROVE  UNCHANGED vars /\ \E v \in Verifier, x \in Asked : NotarySigns(v, x)
<1>1. now \in Time
    BY DEF IInv, TypeOK
<1>2. CASE runRegister
    <2>1. PICK v \in Verifier, sender \in Address, txData \in TxData, policyIdR \in PolicyId,
               r \in Salt, eta \in Nonce :
             NotarySigns(v, xR(sender, commitment(txData, policyIdR, r), txData, policyIdR, eta, now))
        BY <1>2 DEF runRegister
    <2>2. commitment(txData, policyIdR, r) \in Commitment
        BY DEF commitment, Commitment
    <2>3. xR(sender, commitment(txData, policyIdR, r), txData, policyIdR, eta, now) \in StatementR
        BY <1>1, <2>2 DEF xR, StatementR
    <2>4. QED
        BY <2>1, <2>3 DEF Asked, NotarySigns
<1>3. CASE runApply
    <2>1. PICK v \in Verifier,
               x \in [phase : {"A"}, txId : TxId, cTx : Commitment, txData : TxData, cB : CB,
                      policyId : {b.policyIdA : b \in Bundle},
                      submitter : Address, eta : Nonce, tAtt : {now}] :
             NotarySigns(v, x)
        BY <1>3 DEF runApply
    <2>2. x \in StatementA
        BY <1>1 DEF StatementA
    <2>3. QED
        BY <2>1, <2>2 DEF Asked, NotarySigns
<1>4. CASE runSettle
    <2>1. PICK v \in Verifier,
               x \in [phase : {"S"}, engId : EngId, txId : TxId, cTx : Commitment,
                      txData : TxData, cB : CB, expiresAt : Time,
                      policyId : {b.policyIdS : b \in Bundle},
                      submitter : Address, eta : Nonce, tAtt : {now}] :
             NotarySigns(v, x)
        BY <1>4 DEF runSettle
    <2>2. x \in StatementS
        BY <1>1 DEF StatementS
    <2>3. QED
        BY <2>1, <2>2 DEF Asked, NotarySigns
<1>5. QED
    BY <1>2, <1>3, <1>4

-----------------------------------------------------------------------------
(* The contract with issued signatures is the contract. *)

\* A call with a signature somebody holds is a call of PPREV, where every
\* signature on every statement is at hand.
LEMMA AttestedCallIsCall ==
    ASSUME IInv, SignedTypeOK, submitRegister \/ submitApply \/ submitSettle
    PROVE  Register \/ Apply \/ Settle
<1>1. notaryVerifier \in Verifier
    BY DEF IInv, TypeOK
<1>2. CASE submitRegister
    <2>1. PICK sigma \in Signatures, sender \in Address, value \in Amount, r \in Salt :
            /\ sigma.x.phase = "R"
            /\ register(sender, value, sigma.x.cTx, sigma.x.txData, sigma.x.policyId, r, sigma,
                        sigma.x.eta, sigma.x.tAtt)
        BY <1>2 DEF submitRegister
    <2>2. sigma = Sign(notaryVerifier, xR(sender, sigma.x.cTx, sigma.x.txData, sigma.x.policyId,
                                          sigma.x.eta, sigma.x.tAtt))
        BY <2>1 DEF register, verifyNotarySignature
    <2>3. /\ sigma.x.eta \in Nonce /\ sigma.x.tAtt \in Time /\ sigma.x.txData \in TxData
          /\ sigma.x.cTx \in Commitment /\ sigma.x.policyId \in PolicyId
        BY <2>1, SignatureFields
    <2> DEFINE cTx == sigma.x.cTx
               txData == sigma.x.txData
               policyIdR == sigma.x.policyId
               eta == sigma.x.eta
               tAtt == sigma.x.tAtt
    <2>4. register(sender, value, cTx, txData, policyIdR, r,
                   Sign(notaryVerifier, xR(sender, cTx, txData, policyIdR, eta, tAtt)), eta, tAtt)
        BY <2>1, <2>2
    <2>5. cTx \in Commitment /\ txData \in TxData /\ policyIdR \in PolicyId
            /\ eta \in Nonce /\ tAtt \in Time
        BY <2>3
    <2> HIDE DEF cTx, txData, policyIdR, eta, tAtt
    <2>6. Register
        BY <1>1, <2>4, <2>5 DEF Register
    <2>7. QED
        BY <2>6
<1>3. CASE submitApply
    <2>1. PICK sigma \in Signatures, sender \in Address, value \in Amount, txId \in TxId, r \in Salt :
            /\ sigma.x.phase = "A"
            /\ applyFor(sender, value, txId, sigma.x.txData, r, sigma.x.cB, sigma,
                        sigma.x.eta, sigma.x.tAtt)
        BY <1>3 DEF submitApply
    <2>2. sigma = Sign(notaryVerifier, xA(sender, txId, sigma.x.txData, sigma.x.cB,
                                          sigma.x.eta, sigma.x.tAtt))
        BY <2>1 DEF applyFor, verifyNotarySignature
    <2>3. /\ sigma.x.eta \in Nonce /\ sigma.x.tAtt \in Time /\ sigma.x.txData \in TxData
          /\ sigma.x.cB \in CB
        BY <2>1, SignatureFields
    <2> DEFINE txData == sigma.x.txData
               cB == sigma.x.cB
               eta == sigma.x.eta
               tAtt == sigma.x.tAtt
    <2>4. applyFor(sender, value, txId, txData, r, cB,
                   Sign(notaryVerifier, xA(sender, txId, txData, cB, eta, tAtt)), eta, tAtt)
        BY <2>1, <2>2
    <2>5. txData \in TxData /\ cB \in CB /\ eta \in Nonce /\ tAtt \in Time
        BY <2>3
    <2> HIDE DEF txData, cB, eta, tAtt
    <2>6. Apply
        BY <1>1, <2>4, <2>5 DEF Apply
    <2>7. QED
        BY <2>6
<1>4. CASE submitSettle
    <2>1. PICK sigma \in Signatures, sender \in Address, engId \in EngId, r \in Salt :
            /\ sigma.x.phase = "S"
            /\ settle(sender, engId, sigma.x.txData, r, sigma, sigma.x.eta, sigma.x.tAtt)
        BY <1>4 DEF submitSettle
    <2>2. sigma = Sign(notaryVerifier, xS(sender, engId, sigma.x.txData,
                                          sigma.x.eta, sigma.x.tAtt))
        BY <2>1, ZenonT(20) DEF settle, verifyNotarySignature
    <2>3. sigma.x.eta \in Nonce /\ sigma.x.tAtt \in Time /\ sigma.x.txData \in TxData
        BY <2>1, SignatureFields
    <2> DEFINE txData == sigma.x.txData
               eta == sigma.x.eta
               tAtt == sigma.x.tAtt
    <2>4. settle(sender, engId, txData, r,
                 Sign(notaryVerifier, xS(sender, engId, txData, eta, tAtt)), eta, tAtt)
        BY <2>1, <2>2
    <2>5. txData \in TxData /\ eta \in Nonce /\ tAtt \in Time
        BY <2>3
    <2> HIDE DEF txData, eta, tAtt
    <2>6. Settle
        BY <1>1, <2>4, <2>5 DEF Settle
    <2>7. QED
        BY <2>6
<1>5. QED
    BY <1>2, <1>3, <1>4

\* Every step of the whole is a step of the contract, or leaves it alone.
LEMMA ContractStep ==
    ASSUME IInv, SignedTypeOK, [ANext]_avars
    PROVE  [Next]_vars /\ SignedTypeOK' /\ Signatures \subseteq Signatures'
<1>1. CASE UNCHANGED avars
    BY <1>1 DEF avars, SignedTypeOK, Signatures
<1>2. CASE runRegister \/ runApply \/ runSettle
    BY <1>2, SessionSigns, SigningAdds
<1>3. CASE submitRegister \/ submitApply \/ submitSettle
    <2>1. Next
        BY <1>3, AttestedCallIsCall DEF Next
    <2>2. signed' = signed
        BY <1>3 DEF submitRegister, submitApply, submitSettle
    <2>3. QED
        BY <2>1, <2>2 DEF SignedTypeOK, Signatures
<1>4. CASE Unattested
    <2>1. Next /\ signed' = signed
        BY <1>4 DEF Unattested, Next
    <2>2. QED
        BY <2>1 DEF SignedTypeOK, Signatures
<1>5. QED
    BY <1>1, <1>2, <1>3, <1>4 DEF ANext

\* No signature has been made.
LEMMA AInitTyped == AInit => SignedTypeOK
<1>1. AInit => signed \in [Verifier -> SUBSET Asked] /\ Signatures = {}
    BY DEF AInit, Signatures
<1>2. QED
    BY <1>1, FS_EmptySet DEF SignedTypeOK

\* The contract fed by notaries is the contract of PPREV: what is proved of it for
\* every signature at hand (solvency, agreed transfers, locks, final states) holds
\* when only a notary's signatures are.
THEOREM ContractRefinement == ASpec => Spec
<1>1. AInit => Init /\ IInv /\ SignedTypeOK
    BY AInitTyped, InitIInv DEF AInit
<1>2. IInv /\ SignedTypeOK /\ [ANext]_avars => IInv' /\ SignedTypeOK' /\ [Next]_vars
    BY ContractStep, NextIInv
<1>3. QED
    BY <1>1, <1>2, PTL DEF ASpec, Spec

-----------------------------------------------------------------------------
(* What a step leaves on the chain.                                        *)

\* Records that are there keep what a signature is compared with.
Kept ==
    /\ \A t \in TxId : txState[t] # "None" =>
           listings'[t].cTx = listings[t].cTx /\ listings'[t].owner = listings[t].owner
    /\ \A a \in AppId : applications[a].status # "None" =>
           /\ applications'[a].txId = applications[a].txId
           /\ applications'[a].depositor = applications[a].depositor
           /\ applications'[a].cB = applications[a].cB
    /\ \A e \in EngId : engagements[e].status # "None" =>
           /\ engagements'[e].appId = engagements[e].appId
           /\ engagements'[e].expiresAt = engagements[e].expiresAt

NoNewListing == nextTxId' = nextTxId /\ \A t \in TxId : txState'[t] # "None" => txState[t] # "None"

NoNewApplication ==
    /\ nextAppId' = nextAppId
    /\ \A a \in AppId : /\ applications'[a].txId = applications[a].txId
                        /\ applications'[a].depositor = applications[a].depositor
                        /\ applications'[a].cB = applications[a].cB

NoNewSettlement ==
    \A e \in EngId : engagements'[e].status = "Settled" => engagements[e].status = "Settled"

Quiet == Kept /\ NoNewListing /\ NoNewApplication /\ NoNewSettlement /\ consumed' = consumed

LEMMA UntouchedIsQuiet ==
    ASSUME UNCHANGED <<listingVars, consumed, appVars, engVars>>
    PROVE  Quiet
BY DEF Quiet, Kept, NoNewListing, NoNewApplication, NoNewSettlement, listingVars, appVars, engVars

\* engage opens an engagement under a number that was free.
LEMMA EngageQuiet ==
    ASSUME IInv, NEW sender \in Address, NEW txId \in TxId, NEW appId \in AppId,
           engage(sender, txId, appId)
    PROVE  Quiet
<1> USE DEF engage
<1>1. /\ nextEngId \in EngId /\ engagements[nextEngId].status = "None"
      /\ engagements \in [EngId -> Engagement] /\ applications \in [AppId -> Application]
      /\ txState \in [TxId -> TxState] /\ txState[txId] # "None"
    <2>1. /\ engagements \in [EngId -> Engagement] /\ applications \in [AppId -> Application]
          /\ txState \in [TxId -> TxState] /\ nextEngId \in 1..(MaxEngagements + 1)
        BY DEF IInv, TypeOK
    <2>2. nextEngId <= MaxEngagements /\ isOpen(txId)
        OBVIOUS
    <2>3. nextEngId \in EngId
        BY <2>1, <2>2 DEF EngId
    <2>4. engagements[nextEngId].status = "None"
        BY <2>1, <2>3 DEF IInv, RecordsAssigned
    <2>5. QED
        BY <2>1, <2>2, <2>3, <2>4 DEF isOpen
<1>2. UNCHANGED <<listings, consumed, nextTxId, nextAppId>>
    OBVIOUS
<1>3. \A a \in AppId : /\ applications'[a].txId = applications[a].txId
                       /\ applications'[a].depositor = applications[a].depositor
                       /\ applications'[a].cB = applications[a].cB
    BY <1>1 DEF Application
<1>4. \A e \in EngId : e # nextEngId => engagements'[e] = engagements[e]
    BY <1>1
<1>5. engagements'[nextEngId].status = "Open"
    BY <1>1
<1>6. \A t \in TxId : txState'[t] # "None" => txState[t] # "None"
    BY <1>1
<1>7. Kept
    BY <1>1, <1>2, <1>3, <1>4 DEF Kept
<1>8. NoNewSettlement
    BY <1>4, <1>5 DEF NoNewSettlement
<1>9. QED
    BY <1>2, <1>3, <1>6, <1>7, <1>8 DEF Quiet, NoNewListing, NoNewApplication

\* expire closes the open engagement, but does not settle it.
LEMMA ExpireQuiet ==
    ASSUME IInv, NEW engId \in EngId, expire(engId)
    PROVE  Quiet
<1> DEFINE txId == txOf(engId)
<1>1. engagements[engId].status = "Open" /\ txId \in TxId /\ listings[txId] \in Listing
        /\ txState[txId] = "Locked"
    <2>1. engagements[engId].status = "Open"
        BY ZenonT(20) DEF expire
    <2>2. QED
        BY <2>1, OpenRecords
<1>2. /\ engagements' = [engagements EXCEPT ![engId].status = "Expired"]
      /\ \E u : txState' = [txState EXCEPT ![txId] = u]
      /\ \E n, c : listings' = [listings EXCEPT ![txId] =
                        [listings[txId] EXCEPT !.expirations = n, !.collateral = c]]
      /\ UNCHANGED <<nextTxId, consumed, appVars>>
    BY ZenonT(20) DEF expire, appOf, txOf
<1>3. /\ engagements \in [EngId -> Engagement] /\ listings \in [TxId -> Listing]
      /\ txState \in [TxId -> TxState]
    BY DEF IInv, TypeOK
<1> HIDE DEF txId
<1>4. \A t \in TxId : listings'[t].cTx = listings[t].cTx /\ listings'[t].owner = listings[t].owner
    BY <1>1, <1>2, <1>3 DEF Listing
<1>5. \A e \in EngId : /\ engagements'[e].appId = engagements[e].appId
                       /\ engagements'[e].expiresAt = engagements[e].expiresAt
                       /\ engagements'[e].status = "Settled" => engagements[e].status = "Settled"
    BY <1>2, <1>3 DEF Engagement
<1>6. \A t \in TxId : txState'[t] # "None" => txState[t] # "None"
    BY <1>1, <1>2, <1>3
<1>7. QED
    BY <1>2, <1>4, <1>5, <1>6 DEF Quiet, Kept, NoNewListing, NoNewApplication, NoNewSettlement,
                                  appVars

\* Every call that needs no signature leaves the evidence as it is.
LEMMA UnattestedQuiet ==
    ASSUME IInv, Unattested
    PROVE  Quiet
<1>1. CASE Administer \/ Withdraw \/ Payouts \/ Tick
    <2>1. UNCHANGED <<listingVars, consumed, appVars, engVars>>
        BY <1>1 DEF Administer, registerPolicy, setNotaryVerifier, Withdraw, withdraw, Payouts,
                    PayoutDelivered, PayoutCredited, RecipientReturns, Tick
    <2>2. QED
        BY <2>1, UntouchedIsQuiet
<1>2. CASE Engage
    BY <1>2, EngageQuiet DEF Engage
<1>3. CASE Expire
    BY <1>3, ExpireQuiet DEF Expire
<1>4. CASE Reclaim
    <2>1. PICK sender \in Address, appId \in AppId : reclaim(sender, appId)
        BY <1>4 DEF Reclaim
    <2>2. /\ applications' = [applications EXCEPT ![appId].status = "Reclaimed"]
          /\ UNCHANGED <<listingVars, consumed, nextAppId, engVars>>
        BY <2>1 DEF reclaim
    <2>3. \A a \in AppId : /\ applications'[a].txId = applications[a].txId
                           /\ applications'[a].depositor = applications[a].depositor
                           /\ applications'[a].cB = applications[a].cB
        BY <2>2 DEF IInv, TypeOK, Application
    <2>4. QED
        BY <2>2, <2>3 DEF Quiet, Kept, NoNewListing, NoNewApplication, NoNewSettlement,
                          listingVars, engVars
<1>5. CASE Cancel
    <2>1. PICK sender \in Address, txId \in TxId : cancel(sender, txId)
        BY <1>5 DEF Cancel
    <2>2. /\ listings' = [listings EXCEPT ![txId].collateral = 0]
          /\ txState' = [txState EXCEPT ![txId] = "Cancelled"] /\ txState[txId] # "None"
          /\ UNCHANGED <<nextTxId, consumed, appVars, engVars>>
        BY <2>1 DEF cancel
    <2>3. \A t \in TxId : /\ listings'[t].cTx = listings[t].cTx
                          /\ listings'[t].owner = listings[t].owner
                          /\ txState'[t] # "None" => txState[t] # "None"
        BY <2>2 DEF IInv, TypeOK, Listing
    <2>4. QED
        BY <2>2, <2>3 DEF Quiet, Kept, NoNewListing, NoNewApplication, NoNewSettlement,
                          appVars, engVars
<1>6. QED
    BY <1>1, <1>2, <1>3, <1>4, <1>5 DEF Unattested

-----------------------------------------------------------------------------
(* What is attested stays attested. *)

\* Signatures and used nonces only grow, and with them what a listing, an
\* application or a settlement that is already there rests on.
Grows == Signatures \subseteq Signatures' /\ consumed \subseteq consumed'

LEMMA ListingsKept ==
    ASSUME ListingsAttested, Grows, Kept, NoNewListing
    PROVE  ListingsAttested'
<1> SUFFICES ASSUME NEW t \in TxId, txState'[t] # "None"
             PROVE  \E s \in Signatures' : /\ s.x.phase = "R" /\ s.x.cTx = listings'[t].cTx
                                           /\ s.x.submitter = listings'[t].owner
    BY DEF ListingsAttested
<1>1. txState[t] # "None"
    BY DEF NoNewListing
<1>2. PICK s \in Signatures : /\ s.x.phase = "R" /\ s.x.cTx = listings[t].cTx
                              /\ s.x.submitter = listings[t].owner
    BY <1>1 DEF ListingsAttested
<1>3. listings'[t].cTx = listings[t].cTx /\ listings'[t].owner = listings[t].owner
    BY <1>1 DEF Kept
<1>4. QED
    BY <1>2, <1>3 DEF Grows

\* The records that an engagement refers to are there, so they are kept.
LEMMA EngagedRecordsKept ==
    ASSUME IInv, Kept, NEW e \in EngId, engagements[e].status # "None"
    PROVE  /\ engagements'[e].expiresAt = engagements[e].expiresAt
           /\ appOf(e)'.cB = appOf(e).cB /\ txOf(e)' = txOf(e)
           /\ listings'[txOf(e)].owner = listings[txOf(e)].owner
<1>1. engagements[e].appId \in AppId /\ appOf(e).status = "Engaged"
    BY DEF IInv, RecordsAssigned
<1>2. txOf(e) \in TxId /\ txState[txOf(e)] # "None"
    BY <1>1 DEF IInv, RecordsAssigned, appOf, txOf
<1>3. engagements'[e].appId = engagements[e].appId
        /\ engagements'[e].expiresAt = engagements[e].expiresAt
    BY DEF Kept
<1>4. /\ applications'[engagements[e].appId].cB = appOf(e).cB
      /\ applications'[engagements[e].appId].txId = txOf(e)
    BY <1>1 DEF Kept, appOf, txOf
<1>5. appOf(e)'.cB = appOf(e).cB /\ txOf(e)' = txOf(e)
    BY <1>3, <1>4 DEF appOf, txOf
<1>6. listings'[txOf(e)].owner = listings[txOf(e)].owner
    BY <1>2 DEF Kept
<1>7. QED
    BY <1>3, <1>5, <1>6

LEMMA SettlementKept ==
    ASSUME IInv, SettlementsAttested, Grows, Kept,
           NEW e \in EngId, engagements[e].status = "Settled"
    PROVE  \E s \in Signatures' : /\ s.x.phase = "S" /\ s.x.engId = e
                                  /\ s.x.submitter = listings'[txOf(e)'].owner
                                  /\ s.x.cB = appOf(e)'.cB
                                  /\ s.x.expiresAt = engagements'[e].expiresAt
<1>1. PICK s \in Signatures : /\ s.x.phase = "S" /\ s.x.engId = e
                              /\ s.x.submitter = listings[txOf(e)].owner
                              /\ s.x.cB = appOf(e).cB
                              /\ s.x.expiresAt = engagements[e].expiresAt
    BY DEF SettlementsAttested
<1>2. /\ engagements'[e].expiresAt = engagements[e].expiresAt
      /\ appOf(e)'.cB = appOf(e).cB /\ txOf(e)' = txOf(e)
      /\ listings'[txOf(e)].owner = listings[txOf(e)].owner
    BY EngagedRecordsKept
<1>3. QED
    BY <1>1, <1>2 DEF Grows

LEMMA SettlementsKept ==
    ASSUME IInv, SettlementsAttested, Grows, Kept, NoNewSettlement
    PROVE  SettlementsAttested'
<1> SUFFICES ASSUME NEW e \in EngId, engagements'[e].status = "Settled"
             PROVE  \E s \in Signatures' : /\ s.x.phase = "S" /\ s.x.engId = e
                                           /\ s.x.submitter = listings'[txOf(e)'].owner
                                           /\ s.x.cB = appOf(e)'.cB
                                           /\ s.x.expiresAt = engagements'[e].expiresAt
    BY DEF SettlementsAttested
<1>1. engagements[e].status = "Settled"
    BY DEF NoNewSettlement
<1>2. QED
    BY <1>1, SettlementKept

\* The sets that are counted are finite.
LEMMA CountsFinite ==
    ASSUME SignedTypeOK, NEW t, NEW b, NEW cB
    PROVE  /\ IsFiniteSet(AppliedFor(t, b, cB)) /\ Cardinality(AppliedFor(t, b, cB)) \in Nat
           /\ IsFiniteSet(SignedFor(t, b, cB)) /\ Cardinality(SignedFor(t, b, cB)) \in Nat
           /\ IsFiniteSet(UsedFor(t, b, cB)) /\ Cardinality(UsedFor(t, b, cB)) \in Nat
           /\ Cardinality(UsedFor(t, b, cB)) <= Cardinality(SignedFor(t, b, cB))
<1>1. AppliedFor(t, b, cB) \in SUBSET AppId /\ SignedFor(t, b, cB) \in SUBSET Signatures
        /\ UsedFor(t, b, cB) \in SUBSET SignedFor(t, b, cB)
    BY DEF AppliedFor, SignedFor, UsedFor
<1>2. IsFiniteSet(AppId)
    <2>1. 1 \in Int /\ MaxApplications \in Int
        BY BoundsAssumption
    <2>2. QED
        BY <2>1, FS_Interval DEF AppId
<1>3. IsFiniteSet(Signatures)
    BY DEF SignedTypeOK
<1>4. IsFiniteSet(AppliedFor(t, b, cB))
    BY <1>1, <1>2, FS_Subset
<1>5. IsFiniteSet(SignedFor(t, b, cB))
    BY <1>1, <1>3, FS_Subset
<1>6. IsFiniteSet(UsedFor(t, b, cB))
        /\ Cardinality(UsedFor(t, b, cB)) <= Cardinality(SignedFor(t, b, cB))
    BY <1>1, <1>5, FS_Subset
<1>7. QED
    BY <1>4, <1>5, <1>6, FS_CardinalityType

\* The same in the next state.
LEMMA UsedGrows ==
    ASSUME SignedTypeOK', Grows, NEW t, NEW b, NEW cB
    PROVE  /\ UsedFor(t, b, cB) \subseteq UsedFor(t, b, cB)'
           /\ IsFiniteSet(UsedFor(t, b, cB)') /\ Cardinality(UsedFor(t, b, cB)') \in Nat
           /\ IsFiniteSet(UsedFor(t, b, cB)) /\ Cardinality(UsedFor(t, b, cB)) \in Nat
           /\ Cardinality(UsedFor(t, b, cB)) <= Cardinality(UsedFor(t, b, cB)')
<1>1. UsedFor(t, b, cB) \subseteq UsedFor(t, b, cB)'
    BY DEF UsedFor, SignedFor, Grows
<1>2. UsedFor(t, b, cB)' \in SUBSET Signatures'
    BY DEF UsedFor, SignedFor
<1>3. IsFiniteSet(UsedFor(t, b, cB)')
    BY <1>2, FS_Subset DEF SignedTypeOK
<1>4. IsFiniteSet(UsedFor(t, b, cB)) /\ Cardinality(UsedFor(t, b, cB)) <= Cardinality(UsedFor(t, b, cB)')
    BY <1>1, <1>3, FS_Subset
<1>5. QED
    BY <1>1, <1>3, <1>4, FS_CardinalityType

LEMMA ApplicationsKept ==
    ASSUME SignedTypeOK, SignedTypeOK', ApplicationsAttested, Grows, NoNewApplication
    PROVE  ApplicationsAttested'
<1> SUFFICES ASSUME NEW t \in TxId, NEW b \in Address, NEW cB \in CB
             PROVE  Cardinality(AppliedFor(t, b, cB)') <= Cardinality(UsedFor(t, b, cB)')
    BY DEF ApplicationsAttested
<1>1. AppliedFor(t, b, cB)' = AppliedFor(t, b, cB)
    BY DEF AppliedFor, NoNewApplication
<1>2. Cardinality(AppliedFor(t, b, cB)) <= Cardinality(UsedFor(t, b, cB))
    BY DEF ApplicationsAttested
<1>3. Cardinality(AppliedFor(t, b, cB)) \in Nat
    BY CountsFinite
<1>4. QED
    BY <1>1, <1>2, <1>3, UsedGrows

-----------------------------------------------------------------------------
(* The three calls that carry a signature. *)

\* sigma is evidence that the step acts on: made under the present key, fresh, and
\* used up by the step.
ActsOn(sigma) ==
    /\ sigma.x.eta \in consumed' \ consumed
    /\ sigma.key = notaryVerifier
    /\ now - sigma.x.tAtt \in 0..DELTA

\* The checks that register, applyFor and settle share make it so.
LEMMA ChecksMakeEvidence ==
    ASSUME IInv, SignedTypeOK, NEW sigma \in Signatures, NEW x,
           verifyNotarySignature(x, sigma), requireUnconsumed(sigma.x.eta),
           requireFresh(sigma.x.tAtt), consumed' = consumed \cup {sigma.x.eta}
    PROVE  ActsOn(sigma) /\ sigma.x = x
<1>1. sigma.key = notaryVerifier /\ sigma.x = x
    BY DEF verifyNotarySignature, Sign
<1>2. sigma.x.eta \in consumed' \ consumed
    BY DEF requireUnconsumed
<1>3. now - sigma.x.tAtt \in 0..DELTA
    <2> DEFINE tAtt == sigma.x.tAtt
    <2>1. tAtt \in Nat /\ now \in Nat /\ DELTA \in Nat
        <3>1. now \in Time /\ DELTA \in Nat
            BY ParametersAssumption DEF IInv, TypeOK
        <3>2. tAtt \in Time
            BY SignatureFields
        <3> QED BY <3>1, <3>2 DEF Time
    <2>2. tAtt <= now /\ now - tAtt <= DELTA
        BY DEF requireFresh
    <2> HIDE DEF tAtt
    <2>3. now - tAtt \in 0..DELTA
        BY <2>1, <2>2
    <2>4. QED
        BY <2>3 DEF tAtt
<1>4. QED
    BY <1>1, <1>2, <1>3 DEF ActsOn

\* register: one new listing, which carries the commitment and the submitter signed for.
LEMMA RegisterAttested ==
    ASSUME AInv, submitRegister
    PROVE  /\ \E sigma \in Signatures : ActsOn(sigma)
           /\ Kept /\ NoNewApplication /\ NoNewSettlement /\ Grows /\ ListingsAttested'
<1>1. PICK sigma \in Signatures, sender \in Address, value \in Amount, r \in Salt :
        /\ sigma.x.phase = "R"
        /\ register(sender, value, sigma.x.cTx, sigma.x.txData, sigma.x.policyId, r, sigma,
                    sigma.x.eta, sigma.x.tAtt)
    BY DEF submitRegister
<1> DEFINE x == xR(sender, sigma.x.cTx, sigma.x.txData, sigma.x.policyId, sigma.x.eta, sigma.x.tAtt)
           new == [cTx |-> sigma.x.cTx, policyIdR |-> sigma.x.policyId, owner |-> sender,
                   collateral |-> value, expirations |-> 0]
<1>2. /\ nextTxId <= MaxListings
      /\ verifyNotarySignature(x, sigma) /\ requireUnconsumed(sigma.x.eta)
      /\ requireFresh(sigma.x.tAtt) /\ consumed' = consumed \cup {sigma.x.eta}
      /\ listings' = [listings EXCEPT ![nextTxId] = new]
      /\ txState' = [txState EXCEPT ![nextTxId] = "Active"]
      /\ UNCHANGED <<appVars, engVars>>
    BY <1>1 DEF register
<1>3. ActsOn(sigma) /\ sigma.x = x
    BY <1>2, ChecksMakeEvidence DEF AInv
<1>4. sigma.x.submitter = sender
    BY <1>3 DEF xR
<1>5. Grows
    <2>1. signed' = signed
        BY DEF submitRegister
    <2>2. QED
        BY <1>2, <2>1 DEF Grows, Signatures
<1>6. /\ nextTxId \in TxId /\ txState[nextTxId] = "None"
      /\ listings \in [TxId -> Listing] /\ txState \in [TxId -> TxState]
    BY <1>2, BoundsAssumption DEF AInv, IInv, TypeOK, TxId, RecordsAssigned
<1>7. \A t \in TxId : t # nextTxId => listings'[t] = listings[t] /\ txState'[t] = txState[t]
    BY <1>2, <1>6
<1>8. listings'[nextTxId].cTx = sigma.x.cTx /\ listings'[nextTxId].owner = sender
    BY <1>2, <1>6
<1>9. Kept
    BY <1>2, <1>6, <1>7 DEF Kept, appVars, engVars
<1>10. NoNewApplication /\ NoNewSettlement
    BY <1>2 DEF NoNewApplication, NoNewSettlement, appVars, engVars
<1>11. ListingsAttested'
    <2> SUFFICES ASSUME NEW t \in TxId, txState'[t] # "None"
                 PROVE  \E s \in Signatures' : /\ s.x.phase = "R" /\ s.x.cTx = listings'[t].cTx
                                               /\ s.x.submitter = listings'[t].owner
        BY DEF ListingsAttested
    <2>1. CASE t = nextTxId
        BY <1>1, <1>4, <1>5, <1>8, <2>1 DEF Grows
    <2>2. CASE t # nextTxId
        <3>1. listings'[t] = listings[t] /\ txState[t] # "None"
            BY <1>7, <2>2
        <3>2. QED
            BY <1>5, <3>1 DEF AInv, ListingsAttested, Grows
    <2>3. QED
        BY <2>1, <2>2
<1>12. QED
    BY <1>3, <1>5, <1>9, <1>10, <1>11

LEMMA FieldsOfXS ==
    ASSUME NEW sender, NEW engId, NEW txData, NEW eta, NEW tAtt
    PROVE  LET x == xS(sender, engId, txData, eta, tAtt) IN
           /\ x.submitter = sender /\ x.engId = engId
           /\ x.cB = appOf(engId).cB /\ x.expiresAt = engagements[engId].expiresAt
BY DEF xS, appOf

\* settle: the engagement it closes is the one signed for.
LEMMA SettleAttested ==
    ASSUME AInv, submitSettle
    PROVE  /\ \E sigma \in Signatures : ActsOn(sigma)
           /\ Kept /\ NoNewListing /\ NoNewApplication /\ Grows /\ SettlementsAttested'
<1>1. PICK sigma \in Signatures, sender \in Address, engId \in EngId, r \in Salt :
        /\ sigma.x.phase = "S"
        /\ settle(sender, engId, sigma.x.txData, r, sigma, sigma.x.eta, sigma.x.tAtt)
    BY DEF submitSettle
<1> DEFINE x == xS(sender, engId, sigma.x.txData, sigma.x.eta, sigma.x.tAtt)
           txId == txOf(engId)
<1>2. /\ verifyNotarySignature(x, sigma) /\ requireUnconsumed(sigma.x.eta)
      /\ requireFresh(sigma.x.tAtt) /\ consumed' = consumed \cup {sigma.x.eta}
      /\ sender = listings[txId].owner
      /\ engagements' = [engagements EXCEPT ![engId].status = "Settled"]
      /\ txState' = [txState EXCEPT ![txId] = "Settled"]
      /\ listings' = [listings EXCEPT ![txId].collateral = 0]
      /\ UNCHANGED <<nextTxId, appVars>>
    <2> DEFINE txData == sigma.x.txData
               eta == sigma.x.eta
               tAtt == sigma.x.tAtt
    <2>1. settle(sender, engId, txData, r, sigma, eta, tAtt)
        BY <1>1
    <2> HIDE DEF txData, eta, tAtt
    <2>2. /\ verifyNotarySignature(xS(sender, engId, txData, eta, tAtt), sigma)
          /\ requireUnconsumed(eta) /\ requireFresh(tAtt) /\ consumed' = consumed \cup {eta}
        BY <2>1, ZenonT(20) DEF settle
    <2>3. /\ sender = listings[txOf(engId)].owner
          /\ engagements' = [engagements EXCEPT ![engId].status = "Settled"]
          /\ txState' = [txState EXCEPT ![txOf(engId)] = "Settled"]
          /\ listings' = [listings EXCEPT ![txOf(engId)].collateral = 0]
          /\ UNCHANGED <<nextTxId, appVars>>
        BY <2>1, ZenonT(20) DEF settle, appOf, txOf
    <2>4. QED
        BY <2>2, <2>3 DEF txData, eta, tAtt
<1>3. ActsOn(sigma) /\ sigma.x = x
    BY <1>2, ChecksMakeEvidence DEF AInv
<1>4. /\ sigma.x.submitter = listings[txId].owner /\ sigma.x.engId = engId
      /\ sigma.x.cB = appOf(engId).cB /\ sigma.x.expiresAt = engagements[engId].expiresAt
    <2>1. /\ x.submitter = sender /\ x.engId = engId
          /\ x.cB = appOf(engId).cB /\ x.expiresAt = engagements[engId].expiresAt
        BY FieldsOfXS
    <2> HIDE DEF x
    <2>2. QED
        BY <1>2, <1>3, <2>1
<1>5. Grows
    <2>1. signed' = signed
        BY DEF submitSettle
    <2>2. QED
        BY <1>2, <2>1 DEF Grows, Signatures
<1>6. /\ engagements \in [EngId -> Engagement] /\ listings \in [TxId -> Listing]
      /\ txState \in [TxId -> TxState]
    BY DEF AInv, IInv, TypeOK
<1>7. engagements[engId].status = "Open"
    BY <1>1, SettleOpen DEF AInv
<1>8. txId \in TxId /\ txState[txId] = "Locked"
    BY <1>7, OpenRecords DEF AInv
<1> HIDE DEF txId
<1>9. \A e \in EngId : /\ engagements'[e].appId = engagements[e].appId
                       /\ engagements'[e].expiresAt = engagements[e].expiresAt
                       /\ e # engId => engagements'[e] = engagements[e]
    BY <1>2, <1>6 DEF Engagement
<1>10. \A t \in TxId : /\ listings'[t].cTx = listings[t].cTx /\ listings'[t].owner = listings[t].owner
                       /\ txState'[t] # "None" => txState[t] # "None"
    BY <1>2, <1>6, <1>8 DEF Listing
<1>11. Kept /\ NoNewListing /\ NoNewApplication
    BY <1>2, <1>9, <1>10 DEF Kept, NoNewListing, NoNewApplication, appVars
<1>12. SettlementsAttested'
    <2> SUFFICES ASSUME NEW e \in EngId, engagements'[e].status = "Settled"
                 PROVE  \E s \in Signatures' : /\ s.x.phase = "S" /\ s.x.engId = e
                                               /\ s.x.submitter = listings'[txOf(e)'].owner
                                               /\ s.x.cB = appOf(e)'.cB
                                               /\ s.x.expiresAt = engagements'[e].expiresAt
        BY DEF SettlementsAttested
    <2>1. CASE e # engId
        <3>1. engagements[e].status = "Settled"
            BY <1>9, <2>1
        <3>2. QED
            BY <1>5, <1>11, <3>1, SettlementKept DEF AInv
    <2>2. CASE e = engId
        <3>1. /\ engagements'[e].expiresAt = engagements[e].expiresAt
              /\ appOf(e)'.cB = appOf(e).cB /\ txOf(e)' = txOf(e)
              /\ listings'[txOf(e)].owner = listings[txOf(e)].owner
            BY <1>7, <1>11, <2>2, EngagedRecordsKept DEF AInv
        <3>2. QED
            BY <1>1, <1>4, <1>5, <2>2, <3>1 DEF Grows, txId
    <2>3. QED
        BY <2>1, <2>2
<1>13. QED
    BY <1>3, <1>5, <1>11, <1>12

\* An element more counts one at most.
LEMMA OneMore ==
    ASSUME NEW S, IsFiniteSet(S), NEW x
    PROVE  IsFiniteSet(S \cup {x}) /\ Cardinality(S \cup {x}) <= Cardinality(S) + 1
<1>1. IsFiniteSet(S \cup {x})
        /\ Cardinality(S \cup {x}) = IF x \in S THEN Cardinality(S) ELSE Cardinality(S) + 1
    BY FS_AddElement
<1>2. Cardinality(S) \in Nat
    BY FS_CardinalityType
<1>3. QED
    BY <1>1, <1>2

\* applyFor: one new application, and one more signature for it used up.
LEMMA ApplyAttested ==
    ASSUME AInv, SignedTypeOK', submitApply
    PROVE  /\ \E sigma \in Signatures : ActsOn(sigma)
           /\ Kept /\ NoNewListing /\ NoNewSettlement /\ Grows /\ ApplicationsAttested'
<1>1. PICK sigma \in Signatures, sender \in Address, value \in Amount, txId \in TxId, r \in Salt :
        /\ sigma.x.phase = "A"
        /\ applyFor(sender, value, txId, sigma.x.txData, r, sigma.x.cB, sigma,
                    sigma.x.eta, sigma.x.tAtt)
    BY DEF submitApply
<1> DEFINE x == xA(sender, txId, sigma.x.txData, sigma.x.cB, sigma.x.eta, sigma.x.tAtt)
           new == [txId |-> txId, depositor |-> sender, status |-> "Pending",
                   deposit |-> value, cB |-> sigma.x.cB]
<1>2. /\ nextAppId <= MaxApplications
      /\ verifyNotarySignature(x, sigma) /\ requireUnconsumed(sigma.x.eta)
      /\ requireFresh(sigma.x.tAtt) /\ consumed' = consumed \cup {sigma.x.eta}
      /\ applications' = [applications EXCEPT ![nextAppId] = new]
      /\ UNCHANGED <<listingVars, engVars>>
    BY <1>1 DEF applyFor
<1>3. ActsOn(sigma) /\ sigma.x = x
    BY <1>2, ChecksMakeEvidence DEF AInv
<1>4. sigma.x.submitter = sender /\ sigma.x.txId = txId
    BY <1>3 DEF xA
<1>5. Grows
    <2>1. signed' = signed
        BY DEF submitApply
    <2>2. QED
        BY <1>2, <2>1 DEF Grows, Signatures
<1>6. /\ nextAppId \in AppId /\ applications[nextAppId].status = "None"
      /\ applications \in [AppId -> Application]
    BY <1>2, BoundsAssumption DEF AInv, IInv, TypeOK, AppId, RecordsAssigned
<1>7. /\ \A a \in AppId : a # nextAppId => applications'[a] = applications[a]
      /\ applications'[nextAppId].txId = txId /\ applications'[nextAppId].depositor = sender
      /\ applications'[nextAppId].cB = sigma.x.cB
    BY <1>2, <1>6
<1>8. Kept
    BY <1>2, <1>6, <1>7 DEF Kept, listingVars, engVars
<1>9. NoNewListing /\ NoNewSettlement
    BY <1>2 DEF NoNewListing, NoNewSettlement, listingVars, engVars
<1>10. ApplicationsAttested'
    <2> SUFFICES ASSUME NEW t \in TxId, NEW b \in Address, NEW cB \in CB
                 PROVE  Cardinality(AppliedFor(t, b, cB)') <= Cardinality(UsedFor(t, b, cB)')
        BY DEF ApplicationsAttested
    <2> DEFINE A == AppliedFor(t, b, cB)
               U == UsedFor(t, b, cB)
    <2>1. /\ Cardinality(A) <= Cardinality(U)
          /\ IsFiniteSet(A) /\ Cardinality(A) \in Nat
        BY CountsFinite DEF AInv, ApplicationsAttested
    <2>2. /\ U \subseteq U' /\ IsFiniteSet(U') /\ Cardinality(U') \in Nat
          /\ IsFiniteSet(U) /\ Cardinality(U) \in Nat /\ Cardinality(U) <= Cardinality(U')
        BY <1>5, UsedGrows
    <2>3. CASE t = txId /\ b = sender /\ cB = sigma.x.cB
        <3>1. A' \in SUBSET (A \cup {nextAppId})
            BY <1>7 DEF AppliedFor
        <3>2. IsFiniteSet(A \cup {nextAppId}) /\ Cardinality(A \cup {nextAppId}) <= Cardinality(A) + 1
            BY <2>1, OneMore
        <3>3. Cardinality(A') <= Cardinality(A \cup {nextAppId}) /\ IsFiniteSet(A')
            BY <3>1, <3>2, FS_Subset
        <3>4. sigma \in U' /\ sigma \notin U
            BY <1>1, <1>3, <1>4, <1>5, <2>3 DEF UsedFor, SignedFor, ActsOn, Grows
        <3>5. U \cup {sigma} \in SUBSET U'
            BY <2>2, <3>4
        <3>6. Cardinality(U \cup {sigma}) = Cardinality(U) + 1
            BY <2>2, <3>4, FS_AddElement
        <3>7. Cardinality(U \cup {sigma}) <= Cardinality(U')
            BY <2>2, <3>5, FS_Subset
        <3>8. Cardinality(A') \in Nat /\ Cardinality(A \cup {nextAppId}) \in Nat
            BY <3>2, <3>3, FS_CardinalityType
        <3> HIDE DEF A, U
        <3>9. Cardinality(A') <= Cardinality(U')
            BY <2>1, <2>2, <3>2, <3>3, <3>6, <3>7, <3>8
        <3>10. QED
            BY <3>9 DEF A, U
    <2>4. CASE ~(t = txId /\ b = sender /\ cB = sigma.x.cB)
        <3>1. A' \in SUBSET A
            BY <1>7, <2>4 DEF AppliedFor
        <3>2. Cardinality(A') <= Cardinality(A) /\ IsFiniteSet(A')
            BY <2>1, <3>1, FS_Subset
        <3>3. Cardinality(A') \in Nat
            BY <3>2, FS_CardinalityType
        <3> HIDE DEF A, U
        <3>4. Cardinality(A') <= Cardinality(U')
            BY <2>1, <2>2, <3>2, <3>3
        <3>5. QED
            BY <3>4 DEF A, U
    <2>5. QED
        BY <2>3, <2>4
<1>11. QED
    BY <1>3, <1>5, <1>8, <1>9, <1>10

-----------------------------------------------------------------------------
(* The theorems. *)

LEMMA AInitInv == AInit => AInv
<1> SUFFICES ASSUME AInit PROVE AInv
    OBVIOUS
<1>1. IInv /\ SignedTypeOK
    BY AInitTyped, InitIInv DEF AInit
<1>2. ListingsAttested /\ SettlementsAttested
    BY DEF AInit, Init, ListingsAttested, SettlementsAttested, NoEngagement
<1>3. ApplicationsAttested
    <2> SUFFICES ASSUME NEW t \in TxId, NEW b \in Address, NEW cB \in CB
                 PROVE  Cardinality(AppliedFor(t, b, cB)) <= Cardinality(UsedFor(t, b, cB))
        BY DEF ApplicationsAttested
    <2>1. \A a \in AppId : applications[a].txId = 0
        BY DEF AInit, Init, NoApplication
    <2>2. t # 0
        BY BoundsAssumption DEF TxId
    <2>3. AppliedFor(t, b, cB) = {}
        BY <2>1, <2>2 DEF AppliedFor
    <2>4. Cardinality(AppliedFor(t, b, cB)) = 0
        BY <2>3, FS_EmptySet
    <2>5. Cardinality(UsedFor(t, b, cB)) \in Nat
        BY <1>1, CountsFinite
    <2>6. QED
        BY <2>4, <2>5
<1>4. QED
    BY <1>1, <1>2, <1>3 DEF AInv

\* A step that leaves the records alone keeps what is attested.
LEMMA QuietStep ==
    ASSUME AInv, SignedTypeOK', Quiet, Signatures \subseteq Signatures'
    PROVE  ListingsAttested' /\ ApplicationsAttested' /\ SettlementsAttested'
<1>1. Grows
    BY DEF Quiet, Grows
<1>2. QED
    BY <1>1, ListingsKept, ApplicationsKept, SettlementsKept DEF AInv, Quiet

\* One step keeps the invariant, and acts on evidence if it adds to the chain.
LEMMA AttestedStep ==
    ASSUME AInv, [ANext]_avars
    PROVE  /\ AInv'
           /\ (NoNewListing /\ NoNewApplication /\ NoNewSettlement)
                \/ \E sigma \in Signatures : ActsOn(sigma)
<1>1. IInv' /\ SignedTypeOK' /\ Signatures \subseteq Signatures'
    BY ContractStep, NextIInv DEF AInv
<1>2. ASSUME Quiet
      PROVE  AInv' /\ NoNewListing /\ NoNewApplication /\ NoNewSettlement
    BY <1>1, <1>2, QuietStep DEF AInv, Quiet
<1>3. CASE UNCHANGED avars \/ runRegister \/ runApply \/ runSettle
    <2>1. UNCHANGED vars
        BY <1>3, SessionSigns DEF avars, AInv
    <2>2. Quiet
        BY <2>1, UntouchedIsQuiet DEF vars
    <2>3. QED
        BY <1>2, <2>2
<1>4. CASE Unattested
    BY <1>2, <1>4, UnattestedQuiet DEF AInv
<1>5. CASE submitRegister
    <2>1. ApplicationsAttested' /\ SettlementsAttested'
        BY <1>1, <1>5, RegisterAttested, ApplicationsKept, SettlementsKept DEF AInv
    <2>2. QED
        BY <1>1, <1>5, <2>1, RegisterAttested DEF AInv
<1>6. CASE submitApply
    <2>1. ListingsAttested' /\ SettlementsAttested'
        BY <1>1, <1>6, ApplyAttested, ListingsKept, SettlementsKept DEF AInv
    <2>2. QED
        BY <1>1, <1>6, <2>1, ApplyAttested DEF AInv
<1>7. CASE submitSettle
    <2>1. ListingsAttested' /\ ApplicationsAttested'
        BY <1>1, <1>7, SettleAttested, ListingsKept, ApplicationsKept DEF AInv
    <2>2. QED
        BY <1>1, <1>7, <2>1, SettleAttested DEF AInv
<1>8. QED
    BY <1>3, <1>4, <1>5, <1>6, <1>7 DEF ANext

\* The invariant holds in every reachable state of the contract with its notaries.
THEOREM AttestedInvariance == ASpec => []AInv
    BY AInitInv, AttestedStep, PTL DEF ASpec

\* PPREV.sol, R(c)-R(d), A(d)-A(e), S(e)-S(f): every listing, application and
\* settlement has a signature of its own, asked for by the address that acted, for any
\* number of notaries, users, signatures and changes of the key.
THEOREM SignaturesOpenOnce == ASpec => []OneSignatureEach
<1>1. AInv => OneSignatureEach
    <2> SUFFICES ASSUME AInv PROVE OneSignatureEach
        OBVIOUS
    <2>1. \A t \in TxId, b \in Address, cB \in CB :
            Cardinality(AppliedFor(t, b, cB)) <= Cardinality(SignedFor(t, b, cB))
        <3> SUFFICES ASSUME NEW t \in TxId, NEW b \in Address, NEW cB \in CB
                     PROVE  Cardinality(AppliedFor(t, b, cB)) <= Cardinality(SignedFor(t, b, cB))
            OBVIOUS
        <3>1. Cardinality(AppliedFor(t, b, cB)) <= Cardinality(UsedFor(t, b, cB))
            BY DEF AInv, ApplicationsAttested
        <3>2. QED
            BY <3>1, CountsFinite DEF AInv
    <2>2. QED
        BY <2>1 DEF AInv, ListingsAttested, SettlementsAttested, OneSignatureEach
<1>2. QED
    BY <1>1, AttestedInvariance, PTL

\* _requireFresh, _requireUnconsumed and _verifyNotarySignature: whatever a transaction
\* adds to the chain rests on a signature under the present key, not used before and no
\* older than DELTA, whoever sends it.
THEOREM ActsOnRecentEvidence == ASpec => EvidenceIsRecent
<1>1. AInv /\ [ANext]_avars =>
        [ (nextTxId' # nextTxId \/ nextAppId' # nextAppId
             \/ \E e \in EngId : engagements'[e].status = "Settled" /\ engagements[e].status # "Settled")
          => \E s \in Signatures :
                 /\ s.x.eta \in consumed' \ consumed
                 /\ s.key = notaryVerifier
                 /\ now - s.x.tAtt \in 0..DELTA ]_avars
    <2> SUFFICES ASSUME AInv, [ANext]_avars,
                        nextTxId' # nextTxId \/ nextAppId' # nextAppId
                          \/ \E e \in EngId : /\ engagements'[e].status = "Settled"
                                              /\ engagements[e].status # "Settled"
                 PROVE  \E s \in Signatures : ActsOn(s)
        BY DEF ActsOn
    <2>1. ~(NoNewListing /\ NoNewApplication /\ NoNewSettlement)
        BY DEF NoNewListing, NoNewApplication, NoNewSettlement
    <2>2. QED
        BY <2>1, AttestedStep
<1>2. QED
    BY <1>1, AttestedInvariance, PTL DEF ASpec, EvidenceIsRecent
=============================================================================
