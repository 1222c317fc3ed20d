-------------------------------- MODULE Vault --------------------------------
(***************************************************************************)
(* What the record engine promises to its users (README.md: "Soft-delete a *)
(* record", "Purge soft-deleted records past TTL", "rendering the blob     *)
(* irrecoverable"): a record that was put can be read until someone asks   *)
(* to delete it; once withdrawn it is never read again, once erased        *)
(* nothing is left of it.  An answer tells the truth about the record, then *)
(* and ever after.                                                         *)
(* Nothing is said of rows, files, transactions, locks or crashes.         *)
(***************************************************************************)
CONSTANT Records

VARIABLES
    state,      \* what has become of each record
    asked,      \* the records someone asked to delete
    answered    \* the operations answered without an error: <<kind, record>>

(* unknown: nobody was told of it.  withdrawn: no longer read, not yet gone. *)
Follows ==
    [unknown |-> {"readable"}, readable |-> {"withdrawn", "erased"},
     withdrawn |-> {"erased"}, erased |-> {}]

(* The states in which the answer to an operation is true. *)
TrueIn ==
    [put    |-> {"readable", "withdrawn", "erased"},
     get    |-> {"readable", "withdrawn", "erased"},
     delete |-> {"withdrawn", "erased"},
     shred  |-> {"erased"}]

Init ==
    /\ state = [x \in Records |-> "unknown"]
    /\ asked = {} /\ answered = {}

Ask(x) ==
    /\ asked' = asked \cup {x}
    /\ UNCHANGED <<state, answered>>

(* Nobody loses a record that no one asked to delete. *)
Move(x, s) ==
    /\ s \in Follows[state[x]]
    /\ s \in {"withdrawn", "erased"} => x \in asked
    /\ state' = [state EXCEPT ![x] = s]
    /\ UNCHANGED asked

Answer(k, x) ==
    /\ answered' = answered \cup {<<k, x>>}
    /\ state'[x] \in TrueIn[k]
    /\ UNCHANGED asked

Next ==
    \E x \in Records :
        \/ Ask(x)
        \/ \E s \in Follows[state[x]] : Move(x, s) /\ UNCHANGED answered
        \/ \E k \in DOMAIN TrueIn :
              /\ Answer(k, x)
              /\ UNCHANGED state \/ \E s \in Follows[state[x]] : Move(x, s)

Spec == Init /\ [][Next]_<<state, asked, answered>>
==============================================================================
