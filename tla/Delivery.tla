------------------------------- MODULE Delivery -------------------------------
(***************************************************************************)
(* What push replication promises to an operator (README.md: "Retry failed *)
(* replication", "dead-letter queue"; replication/engine.py: "Push *record* *)
(* ciphertext to all active standby nodes"): each change owed to a standby  *)
(* has one fate.  It is acked only by a standby that has the record, and    *)
(* is never owed again then; a dead letter and a change that was reset are  *)
(* final.  An ack is final too, but for a change that two retries took up   *)
(* together while it was owed: one may be acked and the other give up.      *)
(* Nothing is said of logs, sequence numbers, transactions or answers, and  *)
(* nothing of when an owed change gets another fate: retries are asked for. *)
(***************************************************************************)
CONSTANT Changes    \* a write and a standby each

VARIABLES
    fate,           \* what has become of each change
    received,       \* the changes whose standby has their record
    contested       \* those two retries took up together

Follows ==
    [none  |-> {"owed", "acked", "dead"},
     owed  |-> {"acked", "dead", "reset"},
     acked |-> {"reset"},
     dead  |-> {}, reset |-> {}]

GivenUp(i) == fate[i] = "acked" /\ i \in contested /\ fate'[i] = "dead"

Init ==
    /\ fate = [i \in Changes |-> "none"]
    /\ received = {} /\ contested = {}

(* Standbys get changes, of writes that may never be committed too. *)
Arrive ==
    /\ received \subseteq received'
    /\ UNCHANGED <<fate, contested>>

(* Another retry takes up changes that one has in hand; standbys get more
   meanwhile. *)
Contend ==
    /\ contested \subseteq contested'
    /\ \A i \in contested' \ contested : i \in Changes /\ fate[i] = "owed"
    /\ received \subseteq received'
    /\ UNCHANGED fate

(* What a sync, a retry or a reset concluded shows, all at once. *)
Settle ==
    /\ fate' \in [Changes -> DOMAIN Follows]
    /\ \A i \in Changes : fate'[i] # fate[i] => fate'[i] \in Follows[fate[i]] \/ GivenUp(i)
    /\ \A i \in Changes : fate'[i] = "acked" => i \in received
    /\ UNCHANGED <<received, contested>>

Next == Arrive \/ Contend \/ Settle

Spec == Init /\ [][Next]_<<fate, received, contested>>
===============================================================================
