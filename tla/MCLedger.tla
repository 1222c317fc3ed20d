------------------------------ MODULE MCLedger ------------------------------
(* The ledger on small instances.  Three requests are enough for two readers
   to race with a writer, and for a purge to leave two entries at once. *)
EXTENDS Ledger, TLC

Symmetry == Permutations(Requests)
=============================================================================
