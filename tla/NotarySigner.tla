---------------------------- MODULE NotarySigner ----------------------------
(***************************************************************************)
(* What the notary promises the contract and its users: it signs           *)
(* statements, and no two of them with the same nonce, in any phase        *)
(* (offchain/crates/pprev-notary/src/nonces.rs, decision D20).             *)
(* PolicyVerifier implements this specification across crashes, lost       *)
(* writes and restarts.                                                    *)
(***************************************************************************)
CONSTANT Statement     \* what can be signed: records with a nonce eta

VARIABLE signed        \* the statements signed

Init == signed = {}

Sign(x) ==
    /\ \A y \in signed : y.eta # x.eta
    /\ signed' = signed \cup {x}

Next == \E x \in Statement : Sign(x)

Spec == Init /\ [][Next]_signed
=============================================================================
