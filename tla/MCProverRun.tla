---------------------------- MODULE MCProverRun ----------------------------
(* Constants for the run of ProverRun. *)
EXTENDS ProverRun

CONSTANTS owner, tenant
MC_Keys == {owner, tenant}

does(cmd, key)  == [cmd |-> cmd, key |-> key, send |-> TRUE, own |-> TRUE]
only(cmd, key)  == [does(cmd, key) EXCEPT !.send = FALSE]
share(cmd, key) == [does(cmd, key) EXCEPT !.own = FALSE]

\* A listing, two applications or one sent twice, an engagement, a settlement, and a
\* settlement or any payload again.  Runs that share a directory overwrite each
\* other's files.
MC_Cycle == <<{does("register", owner)},
              {does("apply", tenant), only("apply", tenant)},
              {share("apply", tenant), does("submit", tenant)},
              {does("engage", owner)},
              {share("settle", owner)},
              {does("settle", owner), does("submit", owner)}>>
=============================================================================
