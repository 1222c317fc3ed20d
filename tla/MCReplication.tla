---------------------------- MODULE MCReplication ----------------------------
(* A small instance of Replication. *)
EXTENDS Replication

CONSTANTS n1, n2, r1, r2, r3

Alike == Permutations({r1, r2, r3}) \cup Permutations({n1, n2})
==============================================================================
