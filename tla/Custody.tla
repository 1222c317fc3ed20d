------------------------------- MODULE Custody --------------------------------
(***************************************************************************)
(* What a server promises of its master keys and of the records they hold  *)
(* (rotation.py: "re-encrypt DEKs under a new master key", "the data itself *)
(* is not touched"): a name stands for one key; a record is put under one  *)
(* key, and a rotation re-wraps the records it found all at once, under a  *)
(* new key that the file of its name holds, and leaves what they were      *)
(* signed with.  As long as nobody gave cause for doubt, the key of every  *)
(* record is the one its label names and a rotation leaves out no record.  *)
(* Nothing is said of engines, requests, locks, passphrases or restarts.   *)
(***************************************************************************)
CONSTANTS
    Names,
    First,      \* the name that the configuration gives
    Records,
    Keys, NoKey

VARIABLES
    file,       \* the key each name stands for, and whether its file is whole
    record,     \* whose name each record bears, what it is wrapped under and signed with
    sound,      \* no cause for doubt yet: no wrong or reissued key, no overlapping rotation
    seeded      \* whether this installation rotates its keys: decided when it is made

NoFile == [key |-> NoKey, whole |-> FALSE]
None   == [label |-> First, wrap |-> NoKey, token |-> NoKey]

Held       == {x \in Records : record[x] # None}
Holds(n, k) == file[n].whole /\ file[n].key = k

(* A key that comes back to nothing: no file holds it and no record needs it. *)
Unused(k) ==
    /\ \A n \in Names : file[n].key # k
    /\ \A x \in Records : k \notin {record[x].wrap, record[x].token}

Filled(k) == {[key |-> k, whole |-> w] : w \in BOOLEAN}

Init ==
    /\ file = [n \in Names |-> NoFile]
    /\ record = [x \in Records |-> None]
    /\ sound = TRUE
    /\ seeded \in BOOLEAN

(* A name without a file gets a key; what is torn then, stays torn. *)
Make(n) ==
    /\ file[n] = NoFile
    /\ \E k \in Keys : \E f \in Filled(k) : Unused(k) /\ file' = [file EXCEPT ![n] = f]
    /\ UNCHANGED record

(* The one way to lose a key. *)
Reissue ==
    /\ file[First].whole
    /\ \/ file' = [file EXCEPT ![First] = NoFile]
       \/ \E k \in Keys : \E f \in Filled(k) : Unused(k) /\ file' = [file EXCEPT ![First] = f]
    /\ ~sound'
    /\ UNCHANGED record

Put(x) ==
    /\ record[x] = None
    /\ \E n \in Names, k \in Keys :
          /\ record' = [record EXCEPT ![x] = [label |-> n, wrap |-> k, token |-> k]]
          /\ sound' => Holds(n, k)
    /\ UNCHANGED file

Rewrap(n, k, found) ==
    /\ seeded /\ n # First /\ Holds(n, k)
    /\ \A x \in found : record[x].token # k
    /\ sound' => found = Held
    /\ record' = [x \in Records |-> IF x \in found
                                      THEN [label |-> n, wrap |-> k, token |-> record[x].token]
                                      ELSE record[x]]
    /\ UNCHANGED file

Next ==
    /\ sound' \in BOOLEAN /\ (sound' => sound)
    /\ UNCHANGED seeded
    /\ \/ UNCHANGED <<file, record>>
       \/ Reissue
       \/ \E n \in Names : Make(n)
       \/ \E x \in Records : Put(x)
       \/ \E n \in Names, k \in Keys : \E found \in SUBSET Held : Rewrap(n, k, found)

Spec == Init /\ [][Next]_<<file, record, sound, seeded>>

-----------------------------------------------------------------------------
(* A file can still read the record: it is signed with the key that it is
   wrapped under, and its label names that key. *)
Legible(x) ==
    /\ record[x].token = record[x].wrap
    /\ Holds(record[x].label, record[x].wrap)

(* A record that no file can read is read by none later, even with doubt. *)
LossIsFinal == [][\A x \in Held : ~Legible(x) => ~Legible(x)']_<<file, record, sound, seeded>>
===============================================================================
