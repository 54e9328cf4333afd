---------------------------- MODULE MCNetemLink ----------------------------
(* Constants for the run of NetemLink. *)
EXTENDS NetemLink

\* One direction carries data, the other only ends.
MC_OneWay == [d \in Direction |-> IF d = "forward" THEN 3 ELSE 0]
=============================================================================
