------------------------------- MODULE MCPPREV -------------------------------
(* Constants for the runs of PPREV. *)
EXTENDS PPREV, TLC

MC_Bundle == {[policyIdA |-> 2, policyIdS |-> 3, reqEscrow |-> 1,
               minCollateral |-> 1, maxCollateral |-> 3]}

\* One property whose listing is accepted; its share does not divide evenly.
MC_OneListing == {[propertyId |-> "flat", settlementShare |-> 5000]}

\* And a listing whose share is beyond the limit of R(h).
MC_Listings == MC_OneListing \cup {[propertyId |-> "barn", settlementShare |-> 2 * BPS]}

MC_Symmetry == Permutations(Nonce)
=============================================================================
