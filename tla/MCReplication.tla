---------------------------- MODULE MCReplication ----------------------------
(* Replication for TLC: the workers are interchangeable.  Sound for the    *)
(* invariants and step properties; a run with liveness has one worker.     *)
EXTENDS Replication, TLC

WorkerSymmetry == Permutations(Worker)
=============================================================================
