--------------------------- MODULE MCMeasurement ---------------------------
(* Measurement for TLC: two servers, and what an earlier run with a kill left. *)
EXTENDS Measurement

TwoPeers == <<"localhost:50051", "localhost:50052">>

EarlierKill ==
  {[startedAt |-> 1000, success |-> 1, failure |-> 0, kill |-> [at |-> 2000, err |-> FALSE]]}
=============================================================================
