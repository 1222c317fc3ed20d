----------------------------- MODULE AuditTrail -----------------------------
(***************************************************************************)
(* What the audit ledger promises to a reader of the database (README.md:   *)
(* "Immutable hash chain", "Every create, read, and delete operation is     *)
(* recorded"): a sequence of operations that only grows at its end, has no  *)
(* operation twice, and has every operation that was acknowledged.          *)
(* Nothing is said of hashes, processes, transactions or crashes.           *)
(***************************************************************************)
EXTENDS Integers, Sequences

VARIABLES
    trail,      \* the operations recorded, in order
    acked       \* the operations acknowledged to a client

Recorded(t) == {t[n] : n \in DOMAIN t}

Extends(old, new) ==
    /\ DOMAIN old \subseteq DOMAIN new
    /\ \A n \in DOMAIN old : new[n] = old[n]

IsTrail(t) ==
    /\ \A n \in DOMAIN t : n \in Nat /\ 1 .. n \subseteq DOMAIN t
    /\ \A m, n \in DOMAIN t : t[m] = t[n] => m = n

Init ==
    /\ trail = << >>
    /\ acked = {}

(* A transaction commits: a batch of operations is recorded and some of the
   recorded ones are acknowledged. *)
CommitBatch ==
    /\ Extends(trail, trail')
    /\ IsTrail(trail')
    /\ acked \subseteq acked'
    /\ acked' \subseteq Recorded(trail')

Next == CommitBatch

Spec == Init /\ [][Next]_<<trail, acked>>
=============================================================================
