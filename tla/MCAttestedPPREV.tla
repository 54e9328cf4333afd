-------------------------- MODULE MCAttestedPPREV --------------------------
(* Constants for the run of AttestedPPREV. *)
EXTENDS AttestedPPREV, TLC

MC_Bundle == {[policyIdA |-> 2, policyIdS |-> 3, reqEscrow |-> 1,
               minCollateral |-> 1, maxCollateral |-> 1]}
MC_TxData == {[propertyId |-> "flat", settlementShare |-> 5000]}
MC_Symmetry == Permutations(Nonce) \cup Permutations(Verifier)
=============================================================================
