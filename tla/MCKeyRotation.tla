---------------------------- MODULE MCKeyRotation ----------------------------
(* A small instance of KeyRotation; the shares of a key are those of Shamir. *)
EXTENDS KeyRotation, Shamir, TLC

CONSTANTS v1, r1, r2, p1, p2

(* The keys of the instance, taken for one byte of a key. *)
Shared == [k \in Key |-> Inverts /\ Recovers(ByteOf(k)) /\ Hides(ByteOf(k))]

(* A key that was split is what any threshold of its shares gives back, and no
   smaller part of them tells it from another. *)
SharesRecover == \A e \in escrow : e.how = "split" => Shared[e.key]

Alike == Permutations({r1, r2}) \cup Permutations({p1, p2})
==============================================================================
