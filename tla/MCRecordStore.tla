---------------------------- MODULE MCRecordStore ----------------------------
(* A small instance of RecordStore: one user with a quota that has room for
   either of two records, not for both. *)
EXTENDS RecordStore, TLC

CONSTANTS x1, x2, u1, r1, r2, r3, r4

MCOwner == x1 :> u1 @@ x2 :> u1
MCSize  == x1 :> 2 @@ x2 :> 1
AnyRequest == Permutations({r1, r2, r3, r4})
==============================================================================
