-------------------------- MODULE RecordStoreProofs --------------------------
(***************************************************************************)
(* What the record store guarantees for every set of records, users and    *)
(* requests, whichever of them fail and whenever the process dies: which   *)
(* files exist for which rows, what a quota limits, and what users see.    *)
(***************************************************************************)
EXTENDS RecordStore, FiniteSetTheorems, WellFoundedInduction, TLAPS

-----------------------------------------------------------------------------
(* The inductive invariant. *)

(* Which kind of request can be at which place. *)
PlacesOfKinds ==
    \A r \in Requests :
        /\ pc[r] = "idle" => kind[r] = "get"
        /\ pc[r] = "read" => kind[r] = "get"
        /\ pc[r] \in {"checked", "inserted", "written"} => kind[r] = "put"
        /\ pc[r] = "found" => kind[r] \in {"get", "delete", "shred"}
        /\ pc[r] = "marked" => kind[r] \in {"delete", "shred"}
        /\ pc[r] = "unlinked" => kind[r] = "shred"
        /\ pc[r] = "synced" => kind[r] \in {"put", "delete", "shred"}
        /\ pc[r] \in {"selected", "dropping"} => kind[r] = "purge"

(* A put or a delete holds the lock from its first DML to its end, a purge
   perhaps, and nobody else does. *)
Writing == {"inserted", "written", "marked", "unlinked", "synced"}
HoldersWrite ==
    /\ \A r \in Requests : pc[r] \in Writing => writer = r
    /\ writer # NoRequest => pc[writer] \in Writing \cup {"selected", "dropping"}

(* What a purge may have selected: rows that are deleted, and were not put
   back since. *)
Removable == {"deleted", "expired", "purged"}

(* The rows the holder of the lock is about to commit: its record, as live
   after a put and as deleted after a delete; the records, all without a file
   by now, that a purge removes. *)
PendingOfHolder ==
    writer # NoRequest =>
        /\ kind[writer] = "put" =>
              DOMAIN pending = {rec[writer]} /\ pending[rec[writer]] = "live"
        /\ kind[writer] \in {"delete", "shred"} =>
              /\ DOMAIN pending = {rec[writer]} /\ pending[rec[writer]] = "deleted"
              /\ rows[rec[writer]] # "purged"
        /\ kind[writer] = "purge" =>
              \A x \in DOMAIN pending :
                  pending[x] = "purged" /\ rows[x] \in Removable /\ x \notin blobs

(* A put is alone with its record until it is committed, and nobody takes the
   file away in the meantime. *)
PutsAlone ==
    \A r \in Requests : kind[r] = "put" =>
        /\ pc[r] # "done" => rows[rec[r]] = "absent"
        /\ pc[r] \in {"written", "synced"} => rec[r] \in blobs
        /\ \A q \in Requests : kind[q] = "put" /\ rec[q] = rec[r] => q = r

(* A delete works on a row that exists or has existed, and once a secure one
   has unlinked the file it stays away. *)
DeletesKnown ==
    \A r \in Requests :
        /\ kind[r] \in {"delete", "shred"} => rows[rec[r]] # "absent"
        /\ kind[r] = "shred" /\ pc[r] \in {"unlinked", "synced", "done"} => rec[r] \notin blobs

PurgesSafe ==
    \A r \in Requests :
        /\ \A x \in found[r] : rows[x] \in Removable
        /\ pc[r] = "dropping" => rec[r] \in found[r] /\ rec[r] \notin blobs

PurgedNoBlob == \A x \in Records : rows[x] = "purged" => x \notin blobs

StoreInv ==
    /\ TypeOK
    /\ PlacesOfKinds
    /\ HoldersWrite
    /\ PendingOfHolder
    /\ PutsAlone
    /\ DeletesKnown
    /\ PurgesSafe
    /\ PurgedNoBlob
    /\ LiveHasBlob
    /\ OrphansFromPuts

-----------------------------------------------------------------------------
(* Every action keeps the invariant. *)

LEMMA StoreRefuse == ASSUME NEW r \in Requests PROVE StoreInv /\ Refuse(r) => StoreInv'
<1> SUFFICES ASSUME StoreInv, Refuse(r) PROVE StoreInv'
    OBVIOUS
<1> USE DEF Refuse, Goto, store, tx, locals, StoreInv
<1>1. TypeOK'
    BY DEF TypeOK, Status, Kinds, Active, Ended
<1>2. PlacesOfKinds'
    BY DEF PlacesOfKinds
<1>3. HoldersWrite'
    BY DEF HoldersWrite, Writing
<1>4. PendingOfHolder'
    BY DEF PendingOfHolder, Removable
<1>5. PutsAlone'
    BY DEF PutsAlone
<1>6. DeletesKnown'
    BY DEF DeletesKnown
<1>7. PurgesSafe'
    BY DEF PurgesSafe, Removable
<1>8. PurgedNoBlob'
    BY DEF PurgedNoBlob
<1>9. LiveHasBlob'
    BY DEF LiveHasBlob, ShredUncommitted
<1>10. OrphansFromPuts'
    BY DEF OrphansFromPuts
<1> QED
    BY <1>1, <1>2, <1>3, <1>4, <1>5, <1>6, <1>7, <1>8, <1>9, <1>10

LEMMA StoreStartPut == ASSUME NEW r \in Requests PROVE StoreInv /\ StartPut(r) => StoreInv'
<1> SUFFICES ASSUME StoreInv, StartPut(r) PROVE StoreInv'
    OBVIOUS
<1> USE DEF StartPut, Goto, store, tx, StoreInv
<1>1. TypeOK'
    BY StoreAssumption DEF TypeOK, Status, Kinds, Active, Ended
<1>2. PlacesOfKinds'
    BY DEF PlacesOfKinds, TypeOK
<1>3. HoldersWrite'
    BY DEF HoldersWrite, Writing
<1>4. PendingOfHolder'
    BY DEF PendingOfHolder, Removable, TypeOK, PlacesOfKinds, HoldersWrite,
       Writing
<1>5. PutsAlone'
    BY DEF PutsAlone, TypeOK, PlacesOfKinds
<1>6. DeletesKnown'
    BY DEF DeletesKnown, TypeOK
<1>7. PurgesSafe'
    BY DEF PurgesSafe, Removable
<1>8. PurgedNoBlob'
    BY DEF PurgedNoBlob
<1>9. LiveHasBlob'
    BY DEF LiveHasBlob, ShredUncommitted
<1>10. OrphansFromPuts'
    BY DEF OrphansFromPuts
<1> QED
    BY <1>1, <1>2, <1>3, <1>4, <1>5, <1>6, <1>7, <1>8, <1>9, <1>10

LEMMA StoreInsertRow == ASSUME NEW r \in Requests PROVE StoreInv /\ InsertRow(r) => StoreInv'
<1> SUFFICES ASSUME StoreInv, InsertRow(r) PROVE StoreInv'
    OBVIOUS
<1> USE DEF InsertRow, Goto, Write, MayWrite, store, locals, StoreInv
<1>1. TypeOK'
    BY StoreAssumption DEF TypeOK, Status, Kinds, Active, Ended
<1>2. PlacesOfKinds'
    BY DEF PlacesOfKinds
<1>3. HoldersWrite'
    BY StoreAssumption DEF HoldersWrite, Writing, TypeOK, PlacesOfKinds
<1>4. PendingOfHolder'
    BY DEF PendingOfHolder, Removable, TypeOK, PlacesOfKinds
<1>5. PutsAlone'
    BY DEF PutsAlone
<1>6. DeletesKnown'
    BY DEF DeletesKnown
<1>7. PurgesSafe'
    BY DEF PurgesSafe, Removable
<1>8. PurgedNoBlob'
    BY DEF PurgedNoBlob
<1>9. LiveHasBlob'
    BY DEF LiveHasBlob, ShredUncommitted
<1>10. OrphansFromPuts'
    BY DEF OrphansFromPuts
<1> QED
    BY <1>1, <1>2, <1>3, <1>4, <1>5, <1>6, <1>7, <1>8, <1>9, <1>10

LEMMA StoreWriteBlob == ASSUME NEW r \in Requests PROVE StoreInv /\ WriteBlob(r) => StoreInv'
<1> SUFFICES ASSUME StoreInv, WriteBlob(r) PROVE StoreInv'
    OBVIOUS
<1> USE DEF WriteBlob, Goto, tx, locals, StoreInv
<1>1. TypeOK'
    BY DEF TypeOK, Status, Kinds, Active, Ended
<1>2. PlacesOfKinds'
    BY DEF PlacesOfKinds
<1>3. HoldersWrite'
    BY DEF HoldersWrite, Writing
<1>4. PendingOfHolder'
    BY DEF PendingOfHolder, Removable, TypeOK, PlacesOfKinds, HoldersWrite,
       Writing
<1>5. PutsAlone'
    BY DEF PutsAlone
<1>6. DeletesKnown'
    BY DEF DeletesKnown, TypeOK, PlacesOfKinds, PutsAlone, HoldersWrite,
       Writing
<1>7. PurgesSafe'
    BY DEF PurgesSafe, Removable, TypeOK, PlacesOfKinds, PutsAlone
<1>8. PurgedNoBlob'
    BY DEF PurgedNoBlob, TypeOK, PlacesOfKinds, PutsAlone
<1>9. LiveHasBlob'
    BY DEF LiveHasBlob, ShredUncommitted
<1>10. OrphansFromPuts'
    BY DEF OrphansFromPuts, TypeOK, PlacesOfKinds
<1> QED
    BY <1>1, <1>2, <1>3, <1>4, <1>5, <1>6, <1>7, <1>8, <1>9, <1>10

LEMMA StoreStartGet == ASSUME NEW r \in Requests PROVE StoreInv /\ StartGet(r) => StoreInv'
<1> SUFFICES ASSUME StoreInv, StartGet(r) PROVE StoreInv'
    OBVIOUS
<1> USE DEF StartGet, Goto, store, tx, StoreInv
<1>1. TypeOK'
    BY DEF TypeOK, Status, Kinds, Active, Ended
<1>2. PlacesOfKinds'
    BY DEF PlacesOfKinds
<1>3. HoldersWrite'
    BY DEF HoldersWrite, Writing
<1>4. PendingOfHolder'
    BY DEF PendingOfHolder, Removable, TypeOK
<1>5. PutsAlone'
    BY DEF PutsAlone, TypeOK
<1>6. DeletesKnown'
    BY DEF DeletesKnown
<1>7. PurgesSafe'
    BY DEF PurgesSafe, Removable
<1>8. PurgedNoBlob'
    BY DEF PurgedNoBlob
<1>9. LiveHasBlob'
    BY DEF LiveHasBlob, ShredUncommitted
<1>10. OrphansFromPuts'
    BY DEF OrphansFromPuts
<1> QED
    BY <1>1, <1>2, <1>3, <1>4, <1>5, <1>6, <1>7, <1>8, <1>9, <1>10

LEMMA StoreReadBlob == ASSUME NEW r \in Requests PROVE StoreInv /\ ReadBlob(r) => StoreInv'
<1> SUFFICES ASSUME StoreInv, ReadBlob(r) PROVE StoreInv'
    OBVIOUS
<1> USE DEF ReadBlob, Goto, store, tx, locals, StoreInv
<1>1. TypeOK'
    <2> DEFINE place == IF rec[r] \in blobs THEN "read" ELSE "failed"
    <2>0. place \in Active \cup Ended /\ pc' = [pc EXCEPT ![r] = place]
        BY DEF Active, Ended
    <2> HIDE DEF place
    <2>1. pc'[r] \in Active \cup Ended /\ \A q \in Requests \ {r} : pc'[q] = pc[q]
        BY <2>0 DEF TypeOK
    <2>2. pc' \in [Requests -> {"idle"} \cup Active \cup Ended]
        BY <2>0 DEF TypeOK
    <2>3. writer # r
        BY StoreAssumption DEF HoldersWrite, Writing
    <2> QED
        BY <2>1, <2>2, <2>3 DEF TypeOK
<1>2. PlacesOfKinds'
    BY DEF PlacesOfKinds
<1>3. HoldersWrite'
    BY DEF HoldersWrite, Writing
<1>4. PendingOfHolder'
    BY DEF PendingOfHolder, Removable
<1>5. PutsAlone'
    BY DEF PutsAlone
<1>6. DeletesKnown'
    BY DEF DeletesKnown
<1>7. PurgesSafe'
    BY DEF PurgesSafe, Removable
<1>8. PurgedNoBlob'
    BY DEF PurgedNoBlob
<1>9. LiveHasBlob'
    BY DEF LiveHasBlob, ShredUncommitted
<1>10. OrphansFromPuts'
    BY DEF OrphansFromPuts
<1> QED
    BY <1>1, <1>2, <1>3, <1>4, <1>5, <1>6, <1>7, <1>8, <1>9, <1>10

LEMMA StoreStartDelete == ASSUME NEW r \in Requests PROVE StoreInv /\ StartDelete(r) => StoreInv'
<1> SUFFICES ASSUME StoreInv, StartDelete(r) PROVE StoreInv'
    OBVIOUS
<1> USE DEF StartDelete, Goto, store, tx, StoreInv
<1>1. TypeOK'
    BY DEF TypeOK, Status, Kinds, Active, Ended
<1>2. PlacesOfKinds'
    BY DEF PlacesOfKinds, TypeOK
<1>3. HoldersWrite'
    BY DEF HoldersWrite, Writing
<1>4. PendingOfHolder'
    BY DEF PendingOfHolder, Removable, TypeOK, PlacesOfKinds, HoldersWrite,
       Writing
<1>5. PutsAlone'
    BY DEF PutsAlone, TypeOK
<1>6. DeletesKnown'
    BY DEF DeletesKnown, TypeOK
<1>7. PurgesSafe'
    BY DEF PurgesSafe, Removable
<1>8. PurgedNoBlob'
    BY DEF PurgedNoBlob
<1>9. LiveHasBlob'
    BY DEF LiveHasBlob, ShredUncommitted
<1>10. OrphansFromPuts'
    BY DEF OrphansFromPuts
<1> QED
    BY <1>1, <1>2, <1>3, <1>4, <1>5, <1>6, <1>7, <1>8, <1>9, <1>10

LEMMA StoreMarkDeleted == ASSUME NEW r \in Requests PROVE StoreInv /\ MarkDeleted(r) => StoreInv'
<1> SUFFICES ASSUME StoreInv, MarkDeleted(r) PROVE StoreInv'
    OBVIOUS
<1> USE DEF MarkDeleted, Goto, Write, MayWrite, store, locals, StoreInv
<1>1. TypeOK'
    BY StoreAssumption DEF TypeOK, Status, Kinds, Active, Ended
<1>2. PlacesOfKinds'
    BY DEF PlacesOfKinds
<1>3. HoldersWrite'
    BY StoreAssumption DEF HoldersWrite, Writing, TypeOK, PlacesOfKinds
<1>4. PendingOfHolder'
    BY DEF PendingOfHolder, Removable
<1>5. PutsAlone'
    BY DEF PutsAlone
<1>6. DeletesKnown'
    BY DEF DeletesKnown
<1>7. PurgesSafe'
    BY DEF PurgesSafe, Removable
<1>8. PurgedNoBlob'
    BY DEF PurgedNoBlob
<1>9. LiveHasBlob'
    BY DEF LiveHasBlob, ShredUncommitted
<1>10. OrphansFromPuts'
    BY DEF OrphansFromPuts
<1> QED
    BY <1>1, <1>2, <1>3, <1>4, <1>5, <1>6, <1>7, <1>8, <1>9, <1>10

LEMMA StoreUnlink == ASSUME NEW r \in Requests PROVE StoreInv /\ Unlink(r) => StoreInv'
<1> SUFFICES ASSUME StoreInv, Unlink(r) PROVE StoreInv'
    OBVIOUS
<1> USE DEF Unlink, Goto, tx, locals, StoreInv
<1>1. TypeOK'
    BY DEF TypeOK, Status, Kinds, Active, Ended
<1>2. PlacesOfKinds'
    BY DEF PlacesOfKinds
<1>3. HoldersWrite'
    BY DEF HoldersWrite, Writing
<1>4. PendingOfHolder'
    BY DEF PendingOfHolder, Removable
<1>5. PutsAlone'
    BY DEF PutsAlone, TypeOK, PlacesOfKinds, PurgesSafe, DeletesKnown,
       Removable
<1>6. DeletesKnown'
    BY DEF DeletesKnown
<1>7. PurgesSafe'
    BY DEF PurgesSafe, Removable
<1>8. PurgedNoBlob'
    BY DEF PurgedNoBlob
<1>9. LiveHasBlob'
    BY DEF LiveHasBlob, ShredUncommitted, TypeOK
<1>10. OrphansFromPuts'
    BY DEF OrphansFromPuts
<1> QED
    BY <1>1, <1>2, <1>3, <1>4, <1>5, <1>6, <1>7, <1>8, <1>9, <1>10

LEMMA StoreStartPurge == ASSUME NEW r \in Requests PROVE StoreInv /\ StartPurge(r) => StoreInv'
<1> SUFFICES ASSUME StoreInv, StartPurge(r) PROVE StoreInv'
    OBVIOUS
<1> USE DEF StartPurge, Goto, store, tx, StoreInv
<1>1. TypeOK'
    BY DEF TypeOK, Status, Kinds, Active, Ended
<1>2. PlacesOfKinds'
    BY DEF PlacesOfKinds, TypeOK
<1>3. HoldersWrite'
    BY DEF HoldersWrite, Writing
<1>4. PendingOfHolder'
    BY DEF PendingOfHolder, Removable, TypeOK, PlacesOfKinds, HoldersWrite,
       Writing
<1>5. PutsAlone'
    BY DEF PutsAlone
<1>6. DeletesKnown'
    BY DEF DeletesKnown
<1>7. PurgesSafe'
    BY DEF PurgesSafe, Removable
<1>8. PurgedNoBlob'
    BY DEF PurgedNoBlob
<1>9. LiveHasBlob'
    BY DEF LiveHasBlob, ShredUncommitted
<1>10. OrphansFromPuts'
    BY DEF OrphansFromPuts
<1> QED
    BY <1>1, <1>2, <1>3, <1>4, <1>5, <1>6, <1>7, <1>8, <1>9, <1>10

LEMMA StorePurgeBlob == ASSUME NEW r \in Requests PROVE StoreInv /\ PurgeBlob(r) => StoreInv'
<1> SUFFICES ASSUME StoreInv, PurgeBlob(r) PROVE StoreInv'
    OBVIOUS
<1> USE DEF PurgeBlob, Goto, tx, StoreInv
<1>1. TypeOK'
    BY DEF TypeOK, Status, Kinds, Active, Ended
<1>2. PlacesOfKinds'
    BY DEF PlacesOfKinds
<1>3. HoldersWrite'
    BY DEF HoldersWrite, Writing
<1>4. PendingOfHolder'
    BY DEF PendingOfHolder, Removable, TypeOK, PlacesOfKinds
<1>5. PutsAlone'
    BY DEF PutsAlone, TypeOK, PlacesOfKinds, PurgesSafe, DeletesKnown,
       Removable
<1>6. DeletesKnown'
    BY DEF DeletesKnown, TypeOK, PlacesOfKinds
<1>7. PurgesSafe'
    BY DEF PurgesSafe, Removable, TypeOK
<1>8. PurgedNoBlob'
    BY DEF PurgedNoBlob
<1>9. LiveHasBlob'
    BY DEF LiveHasBlob, ShredUncommitted, TypeOK, PlacesOfKinds, HoldersWrite,
       Writing, PendingOfHolder, PutsAlone, PurgesSafe, Removable, Merged
<1>10. OrphansFromPuts'
    BY DEF OrphansFromPuts
<1> QED
    BY <1>1, <1>2, <1>3, <1>4, <1>5, <1>6, <1>7, <1>8, <1>9, <1>10

LEMMA StorePurgeRow == ASSUME NEW r \in Requests PROVE StoreInv /\ PurgeRow(r) => StoreInv'
<1> SUFFICES ASSUME StoreInv, PurgeRow(r) PROVE StoreInv'
    OBVIOUS
<1> USE DEF PurgeRow, Goto, Write, MayWrite, store, StoreInv
<1>1. TypeOK'
    BY StoreAssumption DEF TypeOK, Status, Kinds, Active, Ended
<1>2. PlacesOfKinds'
    BY DEF PlacesOfKinds
<1>3. HoldersWrite'
    BY StoreAssumption DEF HoldersWrite, Writing
<1>4. PendingOfHolder'
    BY DEF PendingOfHolder, Removable, TypeOK, PlacesOfKinds, HoldersWrite,
       PurgesSafe, PutsAlone, DeletesKnown, Writing
<1>5. PutsAlone'
    BY DEF PutsAlone
<1>6. DeletesKnown'
    BY DEF DeletesKnown
<1>7. PurgesSafe'
    BY DEF PurgesSafe, Removable, TypeOK
<1>8. PurgedNoBlob'
    BY DEF PurgedNoBlob
<1>9. LiveHasBlob'
    BY DEF LiveHasBlob, ShredUncommitted
<1>10. OrphansFromPuts'
    BY DEF OrphansFromPuts
<1> QED
    BY <1>1, <1>2, <1>3, <1>4, <1>5, <1>6, <1>7, <1>8, <1>9, <1>10

(* The rows a commit of r leaves: those its transaction changed. *)
LEMMA CommittedRows ==
    ASSUME NEW r \in Requests, StoreInv, Commit(r), NEW x \in Records
    PROVE  \/ rows'[x] = rows[x]
           \/ /\ kind[r] = "put" /\ x = rec[r] /\ pc[r] = "synced"
              /\ rows[x] = "absent" /\ rows'[x] = "live"
           \/ /\ kind[r] \in {"delete", "shred"} /\ x = rec[r]
              /\ rows[x] \in {"live", "deleted", "expired"} /\ rows'[x] = "deleted"
           \/ /\ kind[r] = "purge" /\ x \notin blobs
              /\ rows[x] \in Removable /\ rows'[x] = "purged"
<1> USE DEF StoreInv, Commit, MayCommit
<1>1. CASE writer # r \/ x \notin DOMAIN pending
    BY <1>1 DEF TypeOK, Merged
<1>2. CASE writer = r /\ x \in DOMAIN pending
    <2>1. rows'[x] = pending[x]
        BY <1>2 DEF Merged
    <2>2. writer # NoRequest /\ kind[r] # "get"
        BY <1>2, StoreAssumption DEF PlacesOfKinds, HoldersWrite, Writing
    <2>3. CASE kind[r] = "put"
        BY <1>2, <2>1, <2>2, <2>3 DEF PendingOfHolder, PutsAlone, PlacesOfKinds
    <2>4. CASE kind[r] \in {"delete", "shred"}
        <3>1. /\ x = rec[r] /\ pending[x] = "deleted"
              /\ rows[x] # "purged" /\ rows[x] # "absent"
            BY <1>2, <2>2, <2>4 DEF PendingOfHolder, DeletesKnown
        <3> QED
            BY <2>1, <2>4, <3>1 DEF TypeOK, Status
    <2>5. CASE kind[r] = "purge"
        BY <1>2, <2>1, <2>2, <2>5 DEF PendingOfHolder
    <2>6. kind[r] \in {"put", "get", "delete", "shred", "purge"}
        BY DEF TypeOK, Kinds
    <2> QED
        BY <2>2, <2>3, <2>4, <2>5, <2>6
<1> QED
    BY <1>1, <1>2

LEMMA StoreCommit == ASSUME NEW r \in Requests PROVE StoreInv /\ Commit(r) => StoreInv'
<1> SUFFICES ASSUME StoreInv, Commit(r) PROVE StoreInv'
    OBVIOUS
<1>1. UNCHANGED <<blobs, kind, rec, found, raced>> /\ pc' = [pc EXCEPT ![r] = "done"]
    BY DEF Commit, Goto, locals
<1>2. pc[r] \in {"read", "synced", "selected"} /\ pc \in [Requests -> {"idle"} \cup Active \cup Ended]
    BY DEF Commit, MayCommit, StoreInv, TypeOK
<1>3. /\ writer' = IF writer = r THEN NoRequest ELSE writer
      /\ writer' = NoRequest => DOMAIN pending' = {}
      /\ writer' # NoRequest => writer' = writer /\ pending' = pending
    BY DEF Commit, EndTransaction, NoRows, StoreInv, TypeOK
<1>4. rows' \in [Records -> Status]
    <2>1. rows' = [x \in Records |-> rows'[x]]
        BY DEF Commit, Merged, StoreInv, TypeOK
    <2>2. \A x \in Records : rows'[x] \in Status
        BY CommittedRows DEF StoreInv, TypeOK, Status
    <2> QED
        BY <2>1, <2>2
<1>5. TypeOK'
    <2>1. pc' \in [Requests -> {"idle"} \cup Active \cup Ended]
        BY <1>1, <1>2 DEF Ended
    <2>2. writer' # NoRequest => writer' # r /\ pc'[writer'] \in Active
        BY <1>1, <1>3 DEF StoreInv, TypeOK
    <2> QED
        BY <1>1, <1>3, <1>4, <2>1, <2>2 DEF StoreInv, TypeOK
<1>6. PlacesOfKinds'
    BY <1>1, <1>2 DEF StoreInv, PlacesOfKinds
<1>7. HoldersWrite'
    BY <1>1, <1>2, <1>3, StoreAssumption DEF StoreInv, HoldersWrite, Writing
<1>8. PendingOfHolder'
    <2> SUFFICES ASSUME writer' # NoRequest
                 PROVE  PendingOfHolder'
        BY DEF PendingOfHolder
    <2>1. writer # r /\ writer' = writer /\ pending' = pending /\ UNCHANGED rows
        BY <1>3 DEF Commit
    <2> QED
        BY <1>1, <2>1 DEF StoreInv, PendingOfHolder
<1>9. PutsAlone'
    <2> SUFFICES ASSUME NEW q \in Requests, kind[q] = "put"
                 PROVE  /\ pc'[q] # "done" => rows'[rec[q]] = "absent"
                        /\ pc'[q] \in {"written", "synced"} => rec[q] \in blobs
                        /\ \A p \in Requests : kind[p] = "put" /\ rec[p] = rec[q] => p = q
        BY <1>1 DEF PutsAlone
    <2>1. rec[q] \in Records
        BY DEF StoreInv, TypeOK
    <2>2. q # r /\ pc[q] # "done" => rows'[rec[q]] = "absent"
        BY <2>1, CommittedRows DEF StoreInv, PutsAlone, Removable
    <2> QED
        BY <1>1, <1>2, <2>2 DEF StoreInv, PutsAlone
<1>10. DeletesKnown'
    <2> SUFFICES ASSUME NEW q \in Requests, kind[q] \in {"delete", "shred"}
                 PROVE  /\ rows'[rec[q]] # "absent"
                        /\ kind[q] = "shred" /\ pc'[q] \in {"unlinked", "synced", "done"}
                              => rec[q] \notin blobs
        BY <1>1 DEF DeletesKnown
    <2>1. rec[q] \in Records
        BY DEF StoreInv, TypeOK
    <2>2. rows'[rec[q]] # "absent"
        BY <2>1, CommittedRows DEF StoreInv, DeletesKnown
    <2>3. q = r => pc[r] = "synced"
        BY <1>2 DEF StoreInv, PlacesOfKinds
    <2> QED
        BY <1>1, <2>2, <2>3 DEF StoreInv, DeletesKnown
<1>11. PurgesSafe'
    <2> SUFFICES ASSUME NEW q \in Requests
                 PROVE  /\ \A x \in found[q] : rows'[x] \in Removable
                        /\ pc'[q] = "dropping" => rec[q] \in found[q] /\ rec[q] \notin blobs
        BY <1>1 DEF PurgesSafe
    <2>1. \A x \in found[q] : x \in Records /\ rows[x] \in Removable
        BY DEF StoreInv, TypeOK, PurgesSafe
    <2>2. \A x \in found[q] : rows'[x] \in Removable
        BY <2>1, CommittedRows DEF Removable
    <2> QED
        BY <1>1, <1>2, <2>2 DEF StoreInv, PurgesSafe
<1>12. PurgedNoBlob'
    BY <1>1, CommittedRows DEF StoreInv, PurgedNoBlob
<1>13. LiveHasBlob'
    <2> SUFFICES ASSUME NEW x \in Records, rows'[x] = "live", x \notin blobs
                 PROVE  \E q \in Requests : ShredUncommitted(q, x)'
        BY <1>1 DEF LiveHasBlob
    <2>1. rows[x] = "live" /\ ~(kind[r] = "shred" /\ x = rec[r] /\ writer = r)
        <3>1. kind[r] = "put" /\ x = rec[r] /\ pc[r] = "synced" => x \in blobs
            BY DEF StoreInv, PutsAlone
        <3>2. kind[r] = "shred" /\ x = rec[r] /\ writer = r => rows'[x] = "deleted"
            BY StoreAssumption DEF StoreInv, PendingOfHolder, Commit, Merged
        <3> QED
            BY <3>1, <3>2, CommittedRows
    <2>2. PICK q \in Requests : ShredUncommitted(q, x)
        BY <2>1 DEF StoreInv, LiveHasBlob
    <2>3. q # r
        <3> SUFFICES ASSUME q = r PROVE FALSE
            OBVIOUS
        <3>1. kind[r] = "shred" /\ x = rec[r] /\ pc[r] = "synced"
            BY <1>2, <2>2 DEF ShredUncommitted
        <3>2. writer = r
            BY <3>1 DEF StoreInv, HoldersWrite, Writing
        <3> QED
            BY <2>1, <3>1, <3>2
    <2> QED
        BY <1>1, <1>2, <2>2, <2>3 DEF ShredUncommitted
<1>14. OrphansFromPuts'
    <2> SUFFICES ASSUME NEW x \in blobs, rows'[x] = "absent"
                 PROVE  \E q \in Requests : /\ kind[q] = "put" /\ rec[q] = x
                                            /\ pc'[q] \in {"written", "synced", "failed", "lost"}
        BY <1>1 DEF OrphansFromPuts
    <2>1. x \in Records /\ rows[x] = "absent"
        BY CommittedRows DEF StoreInv, TypeOK
    <2>2. PICK q \in Requests : /\ kind[q] = "put" /\ rec[q] = x
                                /\ pc[q] \in {"written", "synced", "failed", "lost"}
        BY <2>1 DEF StoreInv, OrphansFromPuts
    <2>3. q # r
        <3> SUFFICES ASSUME q = r PROVE FALSE
            OBVIOUS
        <3>1. pc[r] = "synced" /\ writer = r
            BY <1>2, <2>2 DEF StoreInv, HoldersWrite, Writing
        <3>2. rows'[x] = "live"
            BY <2>1, <2>2, <3>1, StoreAssumption DEF StoreInv, PendingOfHolder, Commit, Merged
        <3> QED
            BY <3>2
    <2> QED
        BY <1>1, <1>2, <2>2, <2>3
<1> QED
    BY <1>5, <1>6, <1>7, <1>8, <1>9, <1>10, <1>11, <1>12, <1>13, <1>14 DEF StoreInv

LEMMA StoreCrash == StoreInv /\ Crash => StoreInv'
<1> SUFFICES ASSUME StoreInv, Crash PROVE StoreInv'
    OBVIOUS
<1> USE DEF Crash, store, locals, NoRows, Active, StoreInv
<1>1. TypeOK'
    BY DEF TypeOK, Status, Kinds, Active, Ended
<1>2. PlacesOfKinds'
    BY DEF PlacesOfKinds
<1>3. HoldersWrite'
    BY DEF HoldersWrite, Writing
<1>4. PendingOfHolder'
    BY DEF PendingOfHolder, Removable
<1>5. PutsAlone'
    BY DEF PutsAlone
<1>6. DeletesKnown'
    BY DEF DeletesKnown
<1>7. PurgesSafe'
    BY DEF PurgesSafe, Removable
<1>8. PurgedNoBlob'
    BY DEF PurgedNoBlob
<1>9. LiveHasBlob'
    BY DEF LiveHasBlob, ShredUncommitted
<1>10. OrphansFromPuts'
    BY DEF OrphansFromPuts
<1> QED
    BY <1>1, <1>2, <1>3, <1>4, <1>5, <1>6, <1>7, <1>8, <1>9, <1>10

LEMMA StoreExpire == StoreInv /\ Expire => StoreInv'
<1> SUFFICES ASSUME StoreInv, Expire PROVE StoreInv'
    OBVIOUS
<1> USE DEF Expire, tx, locals, StoreInv
<1>1. TypeOK'
    BY DEF TypeOK, Status, Kinds, Active, Ended
<1>2. PlacesOfKinds'
    BY DEF PlacesOfKinds
<1>3. HoldersWrite'
    BY DEF HoldersWrite, Writing
<1>4. PendingOfHolder'
    BY DEF PendingOfHolder, Removable
<1>5. PutsAlone'
    BY DEF PutsAlone
<1>6. DeletesKnown'
    BY DEF DeletesKnown
<1>7. PurgesSafe'
    BY DEF PurgesSafe, Removable
<1>8. PurgedNoBlob'
    BY DEF PurgedNoBlob
<1>9. LiveHasBlob'
    BY DEF LiveHasBlob, ShredUncommitted
<1>10. OrphansFromPuts'
    BY DEF OrphansFromPuts
<1> QED
    BY <1>1, <1>2, <1>3, <1>4, <1>5, <1>6, <1>7, <1>8, <1>9, <1>10

(* A request that is given up, whatever made it fail, keeps the invariant. *)
LEMMA StoreGivenUp ==
    ASSUME NEW r \in Requests, StoreInv, pc[r] \in Active,
           EndTransaction(r), Goto(r, "failed"), UNCHANGED <<store, locals, raced>>
    PROVE  StoreInv'
<1> USE DEF StoreInv, Goto, store, locals
<1>1. /\ writer' = IF writer = r THEN NoRequest ELSE writer
      /\ writer' = NoRequest => DOMAIN pending' = {}
      /\ writer' # NoRequest => writer' = writer /\ pending' = pending
    BY DEF EndTransaction, NoRows, TypeOK
<1>2. TypeOK'
    <2>1. pc' \in [Requests -> {"idle"} \cup Active \cup Ended]
        BY DEF TypeOK, Ended
    <2>2. writer' # NoRequest => pc'[writer'] \in Active
        BY <1>1 DEF TypeOK
    <2> QED
        BY <1>1, <2>1, <2>2 DEF TypeOK
<1>3. PlacesOfKinds'
    BY DEF TypeOK, PlacesOfKinds
<1>4. HoldersWrite'
    BY <1>1, StoreAssumption DEF TypeOK, HoldersWrite, Writing
<1>5. PendingOfHolder'
    BY <1>1 DEF PendingOfHolder
<1>6. PutsAlone'
    BY DEF TypeOK, PutsAlone, Active
<1>7. DeletesKnown'
    BY DEF TypeOK, DeletesKnown
<1>8. (PurgesSafe /\ PurgedNoBlob)'
    BY DEF TypeOK, PurgesSafe, PurgedNoBlob
<1>9. LiveHasBlob'
    <2> SUFFICES ASSUME NEW x \in Records, rows[x] = "live", x \notin blobs
                 PROVE  \E q \in Requests : ShredUncommitted(q, x)'
        BY DEF LiveHasBlob
    <2>1. PICK q \in Requests : ShredUncommitted(q, x)
        BY DEF LiveHasBlob
    <2> QED
        BY <2>1 DEF TypeOK, ShredUncommitted
<1>10. OrphansFromPuts'
    <2> SUFFICES ASSUME NEW x \in blobs, rows[x] = "absent"
                 PROVE  \E q \in Requests : /\ kind[q] = "put" /\ rec[q] = x
                                            /\ pc'[q] \in {"written", "synced", "failed", "lost"}
        BY DEF OrphansFromPuts
    <2>1. PICK q \in Requests : /\ kind[q] = "put" /\ rec[q] = x
                                /\ pc[q] \in {"written", "synced", "failed", "lost"}
        BY DEF OrphansFromPuts
    <2> QED
        BY <2>1 DEF TypeOK
<1> QED
    BY <1>2, <1>3, <1>4, <1>5, <1>6, <1>7, <1>8, <1>9, <1>10

LEMMA StoreFail == ASSUME NEW r \in Requests PROVE StoreInv /\ Fail(r) => StoreInv'
    BY StoreGivenUp DEF Fail

LEMMA StoreMarkVanished ==
    ASSUME NEW r \in Requests PROVE StoreInv /\ MarkVanished(r) => StoreInv'
    BY StoreGivenUp DEF MarkVanished, Active

LEMMA StoreSyncRecord == ASSUME NEW r \in Requests PROVE StoreInv /\ SyncRecord(r) => StoreInv'
<1> SUFFICES ASSUME StoreInv, SyncRecord(r) PROVE StoreInv'
    OBVIOUS
<1>1. CASE EndTransaction(r) /\ Goto(r, "failed")
    BY <1>1, StoreGivenUp DEF SyncRecord, WriteDone, Active
<1>2. CASE UNCHANGED tx /\ Goto(r, "synced")
    <2> USE <1>2 DEF StoreInv, SyncRecord, WriteDone, Goto, store, tx, locals
    <2>1. TypeOK'
        BY DEF TypeOK, Active
    <2>2. (PlacesOfKinds /\ HoldersWrite)'
        BY DEF TypeOK, PlacesOfKinds, HoldersWrite, Writing
    <2>3. PendingOfHolder'
        BY DEF PendingOfHolder
    <2>4. PutsAlone'
        BY DEF TypeOK, PlacesOfKinds, PutsAlone
    <2>5. DeletesKnown'
        BY DEF TypeOK, PlacesOfKinds, DeletesKnown
    <2>6. (PurgesSafe /\ PurgedNoBlob)'
        BY DEF TypeOK, PurgesSafe, PurgedNoBlob
    <2>7. LiveHasBlob'
        <3> SUFFICES ASSUME NEW x \in Records, rows[x] = "live", x \notin blobs
                     PROVE  \E q \in Requests : ShredUncommitted(q, x)'
            BY DEF LiveHasBlob
        <3>1. PICK q \in Requests : ShredUncommitted(q, x)
            BY DEF LiveHasBlob
        <3> QED
            BY <3>1 DEF TypeOK, ShredUncommitted
    <2>8. OrphansFromPuts'
        <3> SUFFICES ASSUME NEW x \in blobs, rows[x] = "absent"
                     PROVE  \E q \in Requests : /\ kind[q] = "put" /\ rec[q] = x
                                                /\ pc'[q] \in {"written", "synced", "failed", "lost"}
            BY DEF OrphansFromPuts
        <3>1. PICK q \in Requests : /\ kind[q] = "put" /\ rec[q] = x
                                    /\ pc[q] \in {"written", "synced", "failed", "lost"}
            BY DEF OrphansFromPuts
        <3> QED
            BY <3>1 DEF TypeOK
    <2> QED
        BY <2>1, <2>2, <2>3, <2>4, <2>5, <2>6, <2>7, <2>8
<1> QED
    BY <1>1, <1>2 DEF SyncRecord

-----------------------------------------------------------------------------
LEMMA StoreInit == Init => StoreInv
<1> SUFFICES ASSUME Init PROVE StoreInv
    OBVIOUS
<1> USE DEF Init
<1>1. (CHOOSE x \in Records : TRUE) \in Records
    BY StoreAssumption
<1>2. TypeOK
    BY <1>1, StoreAssumption DEF TypeOK, Status, Kinds, NoRows
<1>3. PlacesOfKinds /\ HoldersWrite /\ PendingOfHolder
    BY DEF PlacesOfKinds, HoldersWrite, PendingOfHolder, Writing
<1>4. PutsAlone /\ DeletesKnown /\ PurgesSafe
    BY DEF PutsAlone, DeletesKnown, PurgesSafe
<1>5. PurgedNoBlob /\ LiveHasBlob /\ OrphansFromPuts
    BY DEF PurgedNoBlob, LiveHasBlob, OrphansFromPuts
<1> QED
    BY <1>2, <1>3, <1>4, <1>5 DEF StoreInv

LEMMA StoreStutter == StoreInv /\ UNCHANGED vars => StoreInv'
<1> SUFFICES ASSUME StoreInv, UNCHANGED vars PROVE StoreInv'
    OBVIOUS
<1> USE DEF StoreInv, vars, store, tx, locals
<1>1. TypeOK'
    BY DEF TypeOK
<1>2. (PlacesOfKinds /\ HoldersWrite /\ PendingOfHolder)'
    BY DEF PlacesOfKinds, HoldersWrite, PendingOfHolder
<1>3. (PutsAlone /\ DeletesKnown /\ PurgesSafe)'
    BY DEF PutsAlone, DeletesKnown, PurgesSafe
<1>4. (PurgedNoBlob /\ LiveHasBlob /\ OrphansFromPuts)'
    BY DEF PurgedNoBlob, LiveHasBlob, OrphansFromPuts, ShredUncommitted
<1> QED
    BY <1>1, <1>2, <1>3, <1>4

(* The invariant is inductive. *)
LEMMA StoreStep == StoreInv /\ [Next]_vars => StoreInv'
<1> SUFFICES ASSUME StoreInv, [Next]_vars PROVE StoreInv'
    OBVIOUS
<1>1. CASE Crash
    BY <1>1, StoreCrash
<1>2. CASE Expire
    BY <1>2, StoreExpire
<1>3. ASSUME NEW r \in Requests, Refuse(r) \/ Commit(r) \/ Fail(r) \/ SyncRecord(r)
      PROVE  StoreInv'
    BY <1>3, StoreRefuse, StoreCommit, StoreFail, StoreSyncRecord
<1>4. ASSUME NEW r \in Requests,
             StartPut(r) \/ InsertRow(r) \/ WriteBlob(r) \/ StartGet(r) \/ ReadBlob(r)
      PROVE  StoreInv'
    BY <1>4, StoreStartPut, StoreInsertRow, StoreWriteBlob, StoreStartGet, StoreReadBlob
<1>5. ASSUME NEW r \in Requests,
             StartDelete(r) \/ MarkDeleted(r) \/ MarkVanished(r) \/ Unlink(r)
      PROVE  StoreInv'
    BY <1>5, StoreStartDelete, StoreMarkDeleted, StoreMarkVanished, StoreUnlink
<1>6. ASSUME NEW r \in Requests, StartPurge(r) \/ PurgeBlob(r) \/ PurgeRow(r)
      PROVE  StoreInv'
    BY <1>6, StoreStartPurge, StorePurgeBlob, StorePurgeRow
<1>7. CASE UNCHANGED vars
    BY <1>7, StoreStutter
<1> QED
    BY <1>1, <1>2, <1>3, <1>4, <1>5, <1>6, <1>7 DEF Next

(* The inductive invariant holds in every behaviour. *)
THEOREM StoreCorrect == Spec => []StoreInv
<1> QED
    BY StoreInit, StoreStep, PTL DEF Spec

(* Type correctness of the record store: in particular only a request that is
   under way holds the write lock, and rows not committed are its own. *)
THEOREM StoreTypeCorrect == Spec => []TypeOK
<1>1. StoreInv => TypeOK
    BY DEF StoreInv
<1> QED
    BY <1>1, StoreCorrect, PTL

(* A live record has its file, unless a secure delete that did not commit has
   unlinked it: no put, read, plain delete or purge, in any order and failing
   anywhere, makes a live record unreadable. *)
THEOREM LiveAlwaysHasBlob == Spec => []LiveHasBlob
<1>1. StoreInv => LiveHasBlob
    BY DEF StoreInv
<1> QED
    BY <1>1, StoreCorrect, PTL

(* What was purged, or securely deleted with an answer, has no file and never
   gets one again, whatever other requests on the record were under way. *)
THEOREM RemovedStaysRemoved == Spec => []RemovedForGood
<1>1. StoreInv => RemovedForGood
    BY DEF StoreInv, RemovedForGood, PurgedNoBlob, DeletesKnown
<1> QED
    BY <1>1, StoreCorrect, PTL

(* A file without a row was left by a put that has not been committed. *)
THEOREM OrphansOnlyFromPuts == Spec => []OrphansFromPuts
<1>1. StoreInv => OrphansFromPuts
    BY DEF StoreInv
<1> QED
    BY <1>1, StoreCorrect, PTL

(* Only a commit and the passing of time change the rows. *)
LEMMA RowsChange == [Next]_vars => UNCHANGED rows \/ (\E r \in Requests : Commit(r)) \/ Expire
    BY DEF Next, Crash, Refuse, Fail, StartPut, InsertRow, WriteBlob, StartGet, ReadBlob,
           StartDelete, MarkDeleted, MarkVanished, Unlink, SyncRecord, StartPurge,
           PurgeBlob, PurgeRow, vars, store

(* A record goes from live to deleted to purged and never back, although a
   delete and a purge decide on what they read before others committed. *)
THEOREM RecordsNeverComeBack == Spec => NeverBack
<1> DEFINE Forward == \A x \in Records : rows'[x] \in NextStatus[rows[x]] \cup {rows[x]}
<1>1. StoreInv /\ [Next]_vars => [Forward]_vars
    <2> SUFFICES ASSUME StoreInv, Next, NEW x \in Records
                 PROVE  rows'[x] \in NextStatus[rows[x]] \cup {rows[x]}
        OBVIOUS
    <2>1. CASE UNCHANGED rows
        BY <2>1
    <2>2. CASE \E r \in Requests : Commit(r)
        BY <2>2, CommittedRows DEF NextStatus, Removable
    <2>3. CASE Expire
        BY <2>3 DEF Expire, NextStatus, StoreInv, TypeOK
    <2> QED
        BY <2>1, <2>2, <2>3, RowsChange
<1> QED
    BY <1>1, StoreCorrect, PTL DEF Spec, NeverBack

-----------------------------------------------------------------------------
(* Sums.  Used folds Size over a set of records with SumFunctionOnSet, that is,
   with a function it defines by recursion over the subsets of that set. *)

Picked(s)  == CHOOSE x \in s : TRUE
Adds(g, S) == g = [s \in SUBSET S |-> IF s = {} THEN 0 ELSE Size[Picked(s)] + g[s \ {Picked(s)}]]
Adder(S)   == CHOOSE g : Adds(g, S)
Sum(S)     == SumFunctionOnSet(Size, S)

LEMMA SumIsAdder == ASSUME NEW S PROVE Sum(S) = Adder(S)[S]
    BY DEF Sum, SumFunctionOnSet, FoldFunctionOnSet, MapThenFoldSet, Adder, Adds, Picked

(* A set of finite sets that is not empty has one that contains no other. *)
LEMMA SmallestSet ==
    ASSUME NEW S, IsFiniteSet(S), NEW Bad, Bad \subseteq SUBSET S, Bad # {}
    PROVE  \E T \in Bad : \A U \in Bad : U \subseteq T => U = T
<1>1. \A T \in Bad : IsFiniteSet(T)
    BY FS_Subset
<1>2. Bad \subseteq FiniteSubsetsOf(S)
    BY <1>1 DEF FiniteSubsetsOf
<1>3. PICK T \in Bad : \A U \in Bad : <<U, T>> \notin StrictSubsetOrdering(S)
    BY <1>2, FS_StrictSubsetOrderingWellFounded, WFMin
<1> QED
    BY <1>3 DEF StrictSubsetOrdering

(* Two such functions agree where both are defined. *)
LEMMA AddersAgree ==
    ASSUME NEW S, IsFiniteSet(S), NEW T, T \subseteq S, NEW g, NEW h, Adds(g, S), Adds(h, T)
    PROVE  \A s \in SUBSET T : g[s] = h[s]
<1> DEFINE Bad == {s \in SUBSET T : g[s] # h[s]}
<1> SUFFICES ASSUME Bad # {} PROVE FALSE
    OBVIOUS
<1>1. Bad \subseteq SUBSET S
    OBVIOUS
<1>2. PICK s \in Bad : \A u \in Bad : u \subseteq s => u = s
  <2> HIDE DEF Bad
  <2> QED
      BY <1>1, SmallestSet
<1>3. CASE s = {}
    BY <1>2, <1>3 DEF Adds
<1>4. CASE s # {}
  <2>1. Picked(s) \in s
      BY <1>4 DEF Picked
  <2>2. s \ {Picked(s)} \in SUBSET T /\ s \ {Picked(s)} \notin Bad
      BY <1>2, <2>1
  <2>3. g[s \ {Picked(s)}] = h[s \ {Picked(s)}]
      BY <2>2
  <2>4. g[s] = Size[Picked(s)] + g[s \ {Picked(s)}] /\ h[s] = Size[Picked(s)] + h[s \ {Picked(s)}]
      BY <1>2, <1>4 DEF Adds
  <2> QED
      BY <1>2, <2>3, <2>4
<1> QED
    BY <1>3, <1>4

(* There is one for every finite set. *)
LEMMA AdderExists == ASSUME NEW S, IsFiniteSet(S) PROVE \A T \in SUBSET S : Adds(Adder(T), T)
<1> DEFINE Bad == {T \in SUBSET S : ~Adds(Adder(T), T)}
<1> SUFFICES ASSUME Bad # {} PROVE FALSE
    OBVIOUS
<1>1. Bad \subseteq SUBSET S
    OBVIOUS
<1>2. PICK T \in Bad : \A u \in Bad : u \subseteq T => u = T
  <2> HIDE DEF Bad
  <2> QED
      BY <1>1, SmallestSet
<1>3. ASSUME NEW u \in SUBSET T, u # T PROVE Adds(Adder(u), u)
    BY <1>2, <1>3
<1>4. IsFiniteSet(T)
    BY <1>2, FS_Subset
<1> HIDE DEF Bad
<1> DEFINE below(s) == Adder(s)[s]
           value(s) == IF s = {} THEN 0 ELSE Size[Picked(s)] + below(s \ {Picked(s)})
           g == [s \in SUBSET T |-> value(s)]
<1>5. ASSUME NEW s \in SUBSET T, s # T PROVE value(s) = below(s)
  <2>1. Adds(Adder(s), s)
      BY <1>3, <1>5
  <2>2. CASE s = {}
      BY <2>1, <2>2 DEF Adds
  <2>3. CASE s # {}
    <3> DEFINE u == s \ {Picked(s)}
    <3>1. Picked(s) \in s
        BY <2>3 DEF Picked
    <3>2. u \in SUBSET T /\ u # T /\ u \subseteq s
        BY <3>1
    <3>3. Adds(Adder(u), u)
        BY <1>3, <3>2
    <3>4. IsFiniteSet(s)
        BY <1>4, FS_Subset
    <3>5. Adder(s)[u] = Adder(u)[u]
        BY <2>1, <3>2, <3>3, <3>4, AddersAgree
    <3>6. Adder(s)[s] = Size[Picked(s)] + Adder(s)[u]
        BY <2>1, <2>3 DEF Adds
    <3> QED
        BY <2>3, <3>5, <3>6
  <2> QED
      BY <2>2, <2>3
<1>6. ASSUME NEW s \in SUBSET T, s # {} PROVE g[s \ {Picked(s)}] = below(s \ {Picked(s)})
  <2>1. Picked(s) \in s
      BY <1>6 DEF Picked
  <2>2. s \ {Picked(s)} \in SUBSET T /\ s \ {Picked(s)} # T
      BY <2>1
  <2>3. g[s \ {Picked(s)}] = value(s \ {Picked(s)})
      BY <2>2
  <2> HIDE DEF value, below
  <2> QED
      BY <1>5, <2>2, <2>3
<1>7. Adds(g, T)
  <2> HIDE DEF below
  <2>1. \A s \in SUBSET T : value(s) = IF s = {} THEN 0 ELSE Size[Picked(s)] + g[s \ {Picked(s)}]
      BY <1>6
  <2> HIDE DEF value
  <2>2. g = [s \in SUBSET T |-> IF s = {} THEN 0 ELSE Size[Picked(s)] + g[s \ {Picked(s)}]]
      BY <2>1
  <2> QED
      BY <2>2 DEF Adds
<1>8. Adds(Adder(T), T)
    BY <1>7 DEF Adder
<1> QED
    BY <1>2, <1>8 DEF Bad

(* Every sum over a part of S is the value of one function. *)
LEMMA SumByAdder ==
    ASSUME NEW S, IsFiniteSet(S)
    PROVE  /\ Adds(Adder(S), S)
           /\ \A T \in SUBSET S : Sum(T) = Adder(S)[T]
<1>1. \A T \in SUBSET S : Adds(Adder(T), T)
    BY AdderExists
<1>2. ASSUME NEW T \in SUBSET S PROVE Sum(T) = Adder(S)[T]
  <2>1. Adds(Adder(S), S) /\ Adds(Adder(T), T) /\ T \in SUBSET T
      BY <1>1
  <2>2. Adder(S)[T] = Adder(T)[T]
      BY <2>1, AddersAgree
  <2> QED
      BY <2>2, SumIsAdder
<1> QED
    BY <1>1, <1>2

LEMMA SumOfNothing == Sum({}) = 0
    BY SumByAdder, FS_EmptySet DEF Adds

LEMMA SumSplits ==
    ASSUME StoreAssumption, NEW S \in SUBSET Records
    PROVE  /\ Sum(S) \in Nat
           /\ \A x \in S : Sum(S) = Size[x] + Sum(S \ {x})
<1> DEFINE Good(T) == /\ Sum(T) \in Nat
                      /\ \A x \in T : Sum(T) = Size[x] + Sum(T \ {x})
           Bad == {T \in SUBSET Records : ~Good(T)}
<1>1. IsFiniteSet(Records)
    BY StoreAssumption
<1> SUFFICES ASSUME Bad # {} PROVE FALSE
    OBVIOUS
<1>2. PICK T \in Bad : \A u \in Bad : u \subseteq T => u = T
  <2>1. Bad \subseteq SUBSET Records
      OBVIOUS
  <2> HIDE DEF Bad
  <2> QED
      BY <1>1, <2>1, SmallestSet
<1>3. T \in SUBSET Records /\ ~Good(T) /\ \A u \in SUBSET T : u # T => Good(u)
    BY <1>2
<1> HIDE DEF Bad
<1>4. T # {}
  <2>1. Good({})
      BY SumOfNothing
  <2> QED
      BY <1>3, <2>1
<1> DEFINE p == Picked(T)
<1>5. p \in T /\ Size[p] \in Nat
    BY <1>3, <1>4, StoreAssumption DEF Picked
<1>6. Sum(T) = Size[p] + Sum(T \ {p})
  <2>1. Sum(T) = Adder(Records)[T] /\ Sum(T \ {p}) = Adder(Records)[T \ {p}] /\ Adds(Adder(Records), Records)
      BY <1>1, <1>3, SumByAdder
  <2> QED
      BY <1>3, <1>4, <2>1 DEF Adds
<1> HIDE DEF p
<1>7. Good(T \ {p})
    BY <1>3, <1>5
<1>8. ASSUME NEW x \in T, x # p PROVE Sum(T) = Size[x] + Sum(T \ {x})
  <2>1. /\ Good(T \ {x}) /\ Size[x] \in Nat
        /\ Sum((T \ {x}) \ {p}) \in Nat
    <3>1. Good(T \ {x}) /\ Good((T \ {x}) \ {p})
        BY <1>3, <1>8
    <3> QED
        BY <1>3, <3>1, StoreAssumption
  <2>2. Sum(T \ {p}) = Size[x] + Sum((T \ {p}) \ {x})
      BY <1>7, <1>8
  <2>3. Sum(T \ {x}) = Size[p] + Sum((T \ {x}) \ {p})
      BY <1>5, <1>8, <2>1
  <2>4. PICK rest \in Nat : rest = Sum((T \ {x}) \ {p})
      BY <2>1
  <2>5. (T \ {p}) \ {x} = (T \ {x}) \ {p}
      OBVIOUS
  <2>6. Sum(T) = Size[p] + (Size[x] + rest) /\ Sum(T \ {x}) = Size[p] + rest
      BY <1>6, <2>2, <2>3, <2>4, <2>5
  <2> QED
      BY <1>5, <2>1, <2>4, <2>6
<1>9. Sum(T) \in Nat
    BY <1>5, <1>6, <1>7
<1> QED
    BY <1>3, <1>6, <1>8, <1>9

(* A part of the records adds up to no more. *)
LEMMA SumGrows ==
    ASSUME StoreAssumption, NEW S \in SUBSET Records, NEW T \in SUBSET S
    PROVE  Sum(T) <= Sum(S)
<1> DEFINE Bad == {U \in SUBSET S : T \subseteq U /\ ~(Sum(T) <= Sum(U))}
<1>1. IsFiniteSet(S)
    BY StoreAssumption, FS_Subset
<1> SUFFICES ASSUME Bad # {} PROVE FALSE
    OBVIOUS
<1>2. PICK U \in Bad : \A u \in Bad : u \subseteq U => u = U
  <2>1. Bad \subseteq SUBSET S
      OBVIOUS
  <2> HIDE DEF Bad
  <2> QED
      BY <1>1, <2>1, SmallestSet
<1>3. Sum(T) \in Nat /\ Sum(U) \in Nat /\ U # T
    BY <1>2, SumSplits
<1>4. PICK x \in U : x \notin T
    BY <1>2, <1>3
<1>5. Sum(T) <= Sum(U \ {x})
    BY <1>2, <1>4
<1>6. Sum(U) = Size[x] + Sum(U \ {x}) /\ Size[x] \in Nat /\ Sum(U \ {x}) \in Nat
    BY <1>2, SumSplits, StoreAssumption
<1> QED
    BY <1>2, <1>3, <1>5, <1>6

-----------------------------------------------------------------------------
(* The quota. *)

(* The bytes that count for u: its committed live records, and those of its
   puts under way. *)
Booked(u) ==
    {x \in Records : Owner[x] = u /\ (rows[x] = "live" \/ \E q \in PutsOf(u) : rec[q] = x)}

(* A user whose puts were never under way two at once has booked no more than
   its quota. *)
QuotaInv == \A u \in Limited \ raced : Sum(Booked(u)) <= Quota

(* Only a put that starts books anything. *)
LEMMA BookedShrinks ==
    ASSUME StoreInv, [Next]_vars, \A r \in Requests : ~StartPut(r), NEW u \in Users
    PROVE  raced' = raced /\ Booked(u)' \subseteq Booked(u)
<1>1. ASSUME NEW q \in Requests, kind'[q] = "put", pc'[q] \in Active
      PROVE  kind[q] = "put" /\ pc[q] \in Active /\ rec'[q] = rec[q]
    <2>1. CASE UNCHANGED vars
        BY <1>1, <2>1 DEF vars, locals
    <2>2. CASE Crash \/ Expire
        BY <1>1, <2>2 DEF Crash, Expire, locals, StoreInv, TypeOK, Active
    <2>3. ASSUME NEW r \in Requests,
                 StartGet(r) \/ StartDelete(r) \/ StartPurge(r) \/ PurgeBlob(r) \/ PurgeRow(r)
          PROVE  kind[q] = "put" /\ pc[q] \in Active /\ rec'[q] = rec[q]
        BY <1>1, <2>3 DEF StartGet, StartDelete, StartPurge, PurgeBlob, PurgeRow, Goto,
           StoreInv, TypeOK, PlacesOfKinds
    <2>4. ASSUME NEW r \in Requests, UNCHANGED locals, pc[r] \in Active,
                 \A p \in Requests \ {r} : pc'[p] = pc[p]
          PROVE  kind[q] = "put" /\ pc[q] \in Active /\ rec'[q] = rec[q]
        BY <1>1, <2>4 DEF locals
    <2>5. ASSUME NEW r \in Requests,
                 InsertRow(r) \/ WriteBlob(r) \/ ReadBlob(r) \/ MarkDeleted(r) \/ Unlink(r)
          PROVE  kind[q] = "put" /\ pc[q] \in Active /\ rec'[q] = rec[q]
        BY <2>4, <2>5 DEF InsertRow, WriteBlob, ReadBlob, MarkDeleted, Unlink, Goto, StoreInv,
           TypeOK, Active
    <2>6. ASSUME NEW r \in Requests,
                 MarkVanished(r) \/ SyncRecord(r) \/ Commit(r) \/ Fail(r)
          PROVE  kind[q] = "put" /\ pc[q] \in Active /\ rec'[q] = rec[q]
        BY <2>4, <2>6 DEF MarkVanished, SyncRecord, WriteDone, Commit, MayCommit, Fail, Goto,
           StoreInv, TypeOK, Active
    <2>7. ASSUME NEW r \in Requests, Refuse(r)
          PROVE  kind[q] = "put" /\ pc[q] \in Active /\ rec'[q] = rec[q]
        BY <1>1, <2>7 DEF Refuse, Goto, locals, StoreInv, TypeOK, Active
    <2> QED
        BY <2>1, <2>2, <2>3, <2>5, <2>6, <2>7 DEF Next
<1>2. ASSUME NEW x \in Records, rows'[x] = "live", Owner[x] = u
      PROVE  x \in Booked(u)
    <2>1. CASE UNCHANGED rows
        BY <1>2, <2>1 DEF Booked
    <2>2. CASE \E r \in Requests : Commit(r)
        BY <1>2, <2>2, CommittedRows DEF Booked, PutsOf, Active
    <2>3. CASE Expire
        BY <1>2, <2>3 DEF Expire, Booked, StoreInv, TypeOK
    <2> QED
        BY <2>1, <2>2, <2>3, RowsChange
<1>3. raced' = raced
    BY DEF Next, Crash, Expire, Refuse, Commit, Fail, InsertRow, WriteBlob, StartGet, ReadBlob,
           StartDelete, MarkDeleted, MarkVanished, Unlink, SyncRecord, StartPurge,
           PurgeBlob, PurgeRow, vars
<1>4. Booked(u)' \subseteq Booked(u)
    <2> SUFFICES ASSUME NEW x \in Booked(u)' PROVE x \in Booked(u)
        OBVIOUS
    <2>1. CASE rows'[x] = "live"
        BY <1>2, <2>1 DEF Booked
    <2>2. CASE \E q \in PutsOf(u)' : rec'[q] = x
        BY <1>1, <2>2 DEF Booked, PutsOf
    <2> QED
        BY <2>1, <2>2 DEF Booked
<1> QED
    BY <1>3, <1>4

(* The put of x leaves the bookings of every other user alone; if its own user
   had none under way, x is all that is added to its live records. *)
LEMMA BookedByPut ==
    ASSUME StoreInv, NEW r \in Requests, StartPut(r), NEW u \in Limited \ raced'
    PROVE  Sum(Booked(u))' <= Quota \/ Booked(u)' = Booked(u)
<1>1. PICK x \in Records : /\ rows[x] = "absent" /\ HasRoom(x)
                           /\ rec' = [rec EXCEPT ![r] = x]
                           /\ raced' = IF PutsOf(Owner[x]) # {} THEN raced \cup {Owner[x]} ELSE raced
    BY DEF StartPut
<1>2. /\ pc[r] = "idle" /\ UNCHANGED rows
      /\ kind' = [kind EXCEPT ![r] = "put"] /\ pc' = [pc EXCEPT ![r] = "checked"]
    BY DEF StartPut, Goto, store
<1>3. rec'[r] = x /\ kind'[r] = "put" /\ pc'[r] = "checked"
    BY <1>1, <1>2 DEF StoreInv, TypeOK
<1>4. ASSUME NEW q \in Requests, q # r
      PROVE  rec'[q] = rec[q] /\ kind'[q] = kind[q] /\ pc'[q] = pc[q]
    BY <1>1, <1>2, <1>4 DEF StoreInv, TypeOK
<1>5. CASE Owner[x] # u
    <2>1. r \notin PutsOf(u) /\ r \notin PutsOf(u)'
        BY <1>2, <1>3, <1>5 DEF PutsOf, Active
    <2>2. PutsOf(u)' = PutsOf(u) /\ \A q \in PutsOf(u) : rec'[q] = rec[q]
        BY <1>4, <2>1 DEF PutsOf
    <2> QED
        BY <1>2, <2>2 DEF Booked
<1>6. CASE Owner[x] = u
    <2> DEFINE Live == {y \in Records : Owner[y] = u /\ rows[y] = "live"}
    <2>1. PutsOf(u) = {}
        BY <1>1, <1>6
    <2>2. PutsOf(u)' = {r}
        BY <1>3, <1>4, <1>6, <2>1 DEF PutsOf, Active
    <2>3. Booked(u)' = Live \cup {x}
        BY <1>1, <1>2, <1>3, <1>6, <2>2 DEF Booked
    <2>4. x \in Live \cup {x} /\ (Live \cup {x}) \ {x} = Live /\ Live \cup {x} \in SUBSET Records
        BY <1>1
    <2>5. Sum(Live) + Size[x] <= Quota
        BY <1>1, <1>6 DEF HasRoom, Used, Sum
    <2> HIDE DEF Live
    <2>6. Sum(Live \cup {x}) = Size[x] + Sum(Live) /\ Sum(Live) \in Nat
        BY <2>4, SumSplits, StoreAssumption
    <2>7. Sum(Live \cup {x}) <= Quota
        BY <2>5, <2>6, StoreAssumption
    <2>8. Sum(Booked(u))' = Sum(Live \cup {x})
        BY <2>3 DEF Sum
    <2> QED
        BY <2>7, <2>8
<1> QED
    BY <1>5, <1>6

LEMMA QuotaInit == Init => QuotaInv
<1> SUFFICES ASSUME Init, NEW u \in Limited \ raced PROVE Sum(Booked(u)) <= Quota
    BY DEF QuotaInv
<1>1. Booked(u) = {}
    BY DEF Init, Booked, PutsOf, Active
<1> QED
    BY <1>1, SumOfNothing, StoreAssumption

LEMMA RacedGrows == [Next]_vars => raced \subseteq raced'
    BY DEF Next, Crash, Expire, Refuse, Commit, Fail, StartPut, InsertRow, WriteBlob, StartGet,
           ReadBlob, StartDelete, MarkDeleted, MarkVanished, Unlink, SyncRecord, StartPurge,
           PurgeBlob, PurgeRow, vars

LEMMA QuotaStep == StoreInv /\ QuotaInv /\ [Next]_vars => QuotaInv'
<1> SUFFICES ASSUME StoreInv, QuotaInv, [Next]_vars, NEW u \in Limited \ raced'
             PROVE  Sum(Booked(u))' <= Quota
    BY DEF QuotaInv
<1>1. u \in Users /\ Booked(u) \in SUBSET Records /\ raced \subseteq raced'
      BY StoreAssumption, RacedGrows DEF Booked
<1>2. Sum(Booked(u)) <= Quota
    BY <1>1 DEF QuotaInv
<1>3. Booked(u)' \in SUBSET Booked(u) => Sum(Booked(u))' <= Quota
    <2> SUFFICES ASSUME Booked(u)' \in SUBSET Booked(u) PROVE Sum(Booked(u))' <= Quota
        OBVIOUS
    <2>1. PICK later : later = Booked(u)'
        OBVIOUS
    <2>2. later \in SUBSET Booked(u) /\ Sum(Booked(u))' = Sum(later)
        BY <2>1 DEF Sum
    <2>3. Sum(later) <= Sum(Booked(u))
        BY <1>1, <2>2, SumGrows, StoreAssumption
    <2>4. Sum(later) \in Nat /\ Sum(Booked(u)) \in Nat
        BY <1>1, <2>2, SumSplits, StoreAssumption
    <2> QED
        BY <1>2, <2>2, <2>3, <2>4, StoreAssumption
<1>4. CASE \E r \in Requests : StartPut(r)
    BY <1>3, <1>4, BookedByPut
<1>5. CASE \A r \in Requests : ~StartPut(r)
    BY <1>1, <1>3, <1>5, BookedShrinks
<1> QED
    BY <1>4, <1>5

(* The live records of a limited user never exceed its quota, unless two puts
   of that user were under way at once: the check of the quota and the commit
   are apart, but nothing other than a second put comes between them. *)
THEOREM QuotaKeptUnlessRaced == Spec => []QuotaUnlessRaced
<1>1. StoreInv /\ QuotaInv => QuotaUnlessRaced
    <2> SUFFICES ASSUME StoreInv, QuotaInv, NEW u \in Limited, u \notin raced
                 PROVE  ~(Used(u) > Quota)
        BY DEF QuotaUnlessRaced
    <2> DEFINE Live == {y \in Records : Owner[y] = u /\ rows[y] = "live"}
    <2>1. Booked(u) \in SUBSET Records /\ Live \in SUBSET Booked(u) /\ Used(u) = Sum(Live)
        BY DEF Booked, Used, Sum
    <2> HIDE DEF Live
    <2>2. Sum(Live) <= Sum(Booked(u)) /\ Sum(Live) \in Nat /\ Sum(Booked(u)) \in Nat
        BY <2>1, SumGrows, SumSplits, StoreAssumption
    <2> QED
        BY <2>1, <2>2, StoreAssumption DEF QuotaInv
<1> QED
    BY <1>1, QuotaInit, QuotaStep, StoreCorrect, PTL DEF Spec

-----------------------------------------------------------------------------
(* The store implements the vault. *)

Asks(q)  == kind[q] \in Deletes /\ pc[q] # "idle"
Tells(q) == kind[q] # "purge" /\ pc[q] = "done"

(* A row goes only where a delete was asked for; a get has found a row. *)
VaultInv ==
    /\ \A x \in Records : rows[x] \in Removable => x \in Asked
    /\ \A r \in Requests : kind[r] = "get" /\ pc[r] \in {"found", "read"} => rows[rec[r]] # "absent"

LEMMA StateMeans ==
    ASSUME NEW x
    PROVE  /\ rows[x] = "absent" => StateOf(x) = "unknown"
           /\ rows[x] = "live" /\ x \in blobs => StateOf(x) = "readable"
           /\ rows[x] \in Removable /\ x \in blobs => StateOf(x) = "withdrawn"
           /\ rows[x] # "absent" /\ x \notin blobs => StateOf(x) = "erased"
    BY DEF StateOf, Removable

LEMMA StateAfterMeans ==
    ASSUME NEW x
    PROVE  /\ rows'[x] = "absent" => StateOf(x)' = "unknown"
           /\ rows'[x] = "live" /\ x \in blobs' => StateOf(x)' = "readable"
           /\ rows'[x] \in Removable /\ x \in blobs' => StateOf(x)' = "withdrawn"
           /\ rows'[x] # "absent" /\ x \notin blobs' => StateOf(x)' = "erased"
    BY DEF StateOf, Removable

LEMMA StateIsOne ==
    ASSUME StoreInv, NEW x \in Records
    PROVE  /\ rows[x] \in {"absent", "live"} \cup Removable
           /\ StateOf(x) \in {"unknown", "readable", "withdrawn", "erased"}
<1>1. rows[x] \in {"absent", "live"} \cup Removable
    BY DEF StoreInv, TypeOK, Status, Removable
<1> QED
    BY <1>1, StateMeans

(* A step in which nobody asks and nobody is answered. *)
LEMMA NobodyAsks ==
    ASSUME \A q \in Requests : (Asks(q) <=> Asks(q)') /\ (Asks(q) => rec'[q] = rec[q])
    PROVE  Asked' = Asked
<1> DEFINE A == {q \in Requests : Asks(q)}
<1>1. Asked = {rec[q] : q \in A} /\ Asked' = {rec'[q] : q \in A'}
    BY DEF Asked, Asks
<1>2. A' = A
    OBVIOUS
<1>3. \A q \in A : rec'[q] = rec[q]
    OBVIOUS
<1> HIDE DEF A
<1> QED
    BY <1>1, <1>2, <1>3

LEMMA NobodyTells ==
    ASSUME \A q \in Requests : /\ Tells(q) <=> Tells(q)'
                               /\ Tells(q) => rec'[q] = rec[q] /\ kind'[q] = kind[q]
    PROVE  Answered' = Answered
<1> DEFINE A == {q \in Requests : Tells(q)}
<1>1. Answered = {<<kind[q], rec[q]>> : q \in A} /\ Answered' = {<<kind'[q], rec'[q]>> : q \in A'}
    BY DEF Answered, Tells
<1>2. A' = A
    OBVIOUS
<1>3. \A q \in A : rec'[q] = rec[q] /\ kind'[q] = kind[q]
    OBVIOUS
<1> HIDE DEF A
<1> QED
    BY <1>1, <1>2, <1>3

(* The places a request goes through without being answered. *)
LEMMA Underway ==
    ASSUME StoreInv, UNCHANGED <<kind, rec>>,
           \A q \in Requests :
              \/ pc'[q] = pc[q]
              \/ pc[q] # "done" /\ pc'[q] \notin {"idle", "done"} /\ (pc[q] = "idle" => kind[q] = "get")
    PROVE  Asked' = Asked /\ Answered' = Answered
<1>1. Asked' = Asked
    <2>1. \A q \in Requests : pc[q] = "idle" => kind[q] = "get"
        BY DEF StoreInv, PlacesOfKinds
    <2> QED
        BY <2>1, NobodyAsks DEF Asks, Deletes
<1>2. Answered' = Answered
    BY NobodyTells DEF Tells
<1> QED
    BY <1>1, <1>2

(* What a request does before it is answered. *)
LEMMA QuietSteps ==
    ASSUME StoreInv, NEW r \in Requests,
           \/ Refuse(r) \/ Fail(r) \/ InsertRow(r) \/ WriteBlob(r) \/ ReadBlob(r)
           \/ MarkDeleted(r) \/ MarkVanished(r) \/ Unlink(r) \/ SyncRecord(r) \/ PurgeRow(r)
    PROVE  Asked' = Asked /\ Answered' = Answered
<1>1. UNCHANGED <<kind, rec>>
    BY DEF Refuse, Fail, InsertRow, WriteBlob, ReadBlob, MarkDeleted, MarkVanished, Unlink,
           SyncRecord, PurgeRow, locals
<1>2. pc \in [Requests -> {"idle"} \cup Active \cup Ended] /\ (pc[r] = "idle" => kind[r] = "get")
    BY DEF StoreInv, TypeOK, PlacesOfKinds
<1>3. pc[r] # "done"
    BY DEF Refuse, Fail, InsertRow, WriteBlob, ReadBlob, MarkDeleted, MarkVanished, Unlink,
           SyncRecord, PurgeRow, WriteDone, Active
<1>4. \E to : pc' = [pc EXCEPT ![r] = to] /\ to \notin {"idle", "done"}
    <2>1. CASE Refuse(r) \/ Fail(r) \/ InsertRow(r) \/ WriteBlob(r)
        <3>1. \/ pc' = [pc EXCEPT ![r] = "failed"] \/ pc' = [pc EXCEPT ![r] = "inserted"]
              \/ pc' = [pc EXCEPT ![r] = "written"]
            BY <2>1 DEF Refuse, Fail, InsertRow, WriteBlob, Goto
        <3> QED
            BY <3>1
    <2>2. CASE ReadBlob(r)
        <3>1. pc' = [pc EXCEPT ![r] = "failed"] \/ pc' = [pc EXCEPT ![r] = "read"]
            BY <2>2 DEF ReadBlob, Goto
        <3> QED
            BY <3>1
    <2>3. CASE MarkDeleted(r) \/ MarkVanished(r) \/ Unlink(r) \/ PurgeRow(r)
        BY <2>3 DEF MarkDeleted, MarkVanished, Unlink, PurgeRow, Goto
    <2>4. CASE SyncRecord(r)
        <3>1. pc' = [pc EXCEPT ![r] = "failed"] \/ pc' = [pc EXCEPT ![r] = "synced"]
            BY <2>4 DEF SyncRecord, Goto
        <3> QED
            BY <3>1
    <2> QED
        BY <2>1, <2>2, <2>3, <2>4
<1>5. \A q \in Requests :
          \/ pc'[q] = pc[q]
          \/ pc[q] # "done" /\ pc'[q] \notin {"idle", "done"} /\ (pc[q] = "idle" => kind[q] = "get")
    BY <1>2, <1>3, <1>4
<1> QED
    BY <1>1, <1>5, Underway

(* A request that is no delete comes, or a purge goes on to another record. *)
LEMMA OtherStarts ==
    ASSUME StoreInv, NEW r \in Requests, StartPut(r) \/ StartGet(r) \/ StartPurge(r) \/ PurgeBlob(r)
    PROVE  Asked' = Asked /\ Answered' = Answered
<1>1. /\ pc \in [Requests -> {"idle"} \cup Active \cup Ended] /\ kind \in [Requests -> Kinds]
      /\ rec \in [Requests -> Records]
      /\ pc[r] = "idle" => kind[r] = "get"
      /\ pc[r] = "selected" => kind[r] = "purge"
    BY DEF StoreInv, TypeOK, PlacesOfKinds
<1>2. pc[r] \in {"idle", "selected"} /\ pc'[r] # "done" /\ ~Asks(r) /\ ~Asks(r)'
    BY <1>1 DEF StartPut, StartGet, StartPurge, PurgeBlob, Goto, Asks, Deletes
<1>3. \A q \in Requests \ {r} : pc'[q] = pc[q] /\ kind'[q] = kind[q] /\ rec'[q] = rec[q]
    BY <1>1 DEF StartPut, StartGet, StartPurge, PurgeBlob, Goto
<1>4. Asked' = Asked
    BY <1>2, <1>3, NobodyAsks DEF Asks
<1>5. Answered' = Answered
    BY <1>2, <1>3, NobodyTells DEF Tells
<1> QED
    BY <1>4, <1>5

LEMMA DeleteAsks ==
    ASSUME StoreInv, NEW r \in Requests, StartDelete(r)
    PROVE  \E x \in Records : Asked' = Asked \cup {x} /\ Answered' = Answered
<1>1. /\ pc \in [Requests -> {"idle"} \cup Active \cup Ended] /\ kind \in [Requests -> Kinds]
      /\ rec \in [Requests -> Records]
      /\ pc[r] = "idle" /\ kind[r] = "get"
    BY DEF StoreInv, TypeOK, PlacesOfKinds, StartDelete
<1>2. PICK x \in Records, k \in Deletes :
          /\ rec' = [rec EXCEPT ![r] = x] /\ kind' = [kind EXCEPT ![r] = k]
          /\ pc' = [pc EXCEPT ![r] = "found"]
    BY DEF StartDelete, Goto, Deletes
<1>3. \A q \in Requests \ {r} : pc'[q] = pc[q] /\ kind'[q] = kind[q] /\ rec'[q] = rec[q]
    BY <1>1, <1>2
<1>4. Answered' = Answered
    BY <1>1, <1>2, <1>3, NobodyTells DEF Tells
<1>5. ~Asks(r) /\ Asks(r)' /\ rec'[r] = x
    BY <1>1, <1>2 DEF Asks, Deletes
<1>6. \A q \in Requests \ {r} : (Asks(q) <=> Asks(q)') /\ rec'[q] = rec[q]
    BY <1>3 DEF Asks
<1>7. Asked = {rec[q] : q \in {p \in Requests : Asks(p)}}
    BY DEF Asked, Asks
<1>8. Asked' = {rec'[q] : q \in {p \in Requests : Asks(p)'}}
    BY DEF Asked, Asks
<1>9. Asked' = Asked \cup {x}
    BY <1>5, <1>6, <1>7, <1>8
<1> QED
    BY <1>4, <1>9

(* An answer: one operation more is answered, or none if it was a purge. *)
LEMMA CommitTells ==
    ASSUME StoreInv, NEW r \in Requests, Commit(r)
    PROVE  /\ Asked' = Asked
           /\ Answered' = IF kind[r] = "purge" THEN Answered ELSE Answered \cup {<<kind[r], rec[r]>>}
<1>1. /\ pc \in [Requests -> {"idle"} \cup Active \cup Ended]
      /\ pc' = [pc EXCEPT ![r] = "done"] /\ UNCHANGED <<kind, rec>>
      /\ pc[r] \in {"read", "synced", "selected"}
    BY DEF StoreInv, TypeOK, Commit, MayCommit, Goto, locals
<1>2. Asked' = Asked
    BY <1>1, NobodyAsks DEF Asks
<1>3. CASE kind[r] = "purge"
    BY <1>1, <1>2, <1>3, NobodyTells DEF Tells
<1>4. CASE kind[r] # "purge"
    <2>1. ~Tells(r) /\ Tells(r)' /\ \A q \in Requests \ {r} : Tells(q) <=> Tells(q)'
        BY <1>1, <1>4 DEF Tells
    <2>2. Answered = {<<kind[q], rec[q]>> : q \in {p \in Requests : Tells(p)}}
        BY DEF Answered, Tells
    <2>3. Answered' = {<<kind[q], rec[q]>> : q \in {p \in Requests : Tells(p)'}}
        BY <1>1 DEF Answered, Tells
    <2>4. Answered' = Answered \cup {<<kind[r], rec[r]>>}
        BY <2>1, <2>2, <2>3
    <2> QED
        BY <1>2, <1>4, <2>4
<1> QED
    BY <1>3, <1>4

(* Asked only grows, and rows are removed only where someone asked. *)
LEMMA AskedGrows ==
    ASSUME StoreInv, [Next]_vars PROVE Asked \subseteq Asked'
<1>1. CASE Crash \/ Expire \/ UNCHANGED vars
    <2>1. UNCHANGED <<kind, rec>> /\ \A q \in Requests : pc'[q] = pc[q] \/
             (pc[q] # "done" /\ pc'[q] \notin {"idle", "done"} /\ pc[q] # "idle")
        BY <1>1 DEF Crash, Expire, vars, locals, Active
    <2> QED
        BY <2>1, Underway
<1>2. ASSUME NEW r \in Requests, StartDelete(r) PROVE Asked \subseteq Asked'
    BY <1>2, DeleteAsks
<1>3. ASSUME NEW r \in Requests, Commit(r) PROVE Asked \subseteq Asked'
    BY <1>3, CommitTells
<1> QED
    BY <1>1, <1>2, <1>3, QuietSteps, OtherStarts DEF Next

LEMMA VaultInit == Init => VaultInv
    BY DEF Init, VaultInv, Removable

LEMMA VaultStep == StoreInv /\ VaultInv /\ [Next]_vars => VaultInv'
<1> SUFFICES ASSUME StoreInv, VaultInv, [Next]_vars PROVE VaultInv'
    OBVIOUS
<1>1. ASSUME NEW x \in Records, rows'[x] \in Removable PROVE rows[x] \in Removable \/ x \in Asked
    <2>1. CASE UNCHANGED rows
        BY <1>1, <2>1
    <2>2. ASSUME NEW r \in Requests, Commit(r) PROVE rows[x] \in Removable \/ x \in Asked
        <3>1. kind[r] \in Deletes => rec[r] \in Asked
            BY <2>2 DEF Asked, Commit, MayCommit
        <3> QED
            BY <1>1, <2>2, <3>1, CommittedRows DEF Removable, Deletes
    <2>3. CASE Expire
        BY <1>1, <2>3 DEF Expire, Removable, StoreInv, TypeOK
    <2> QED
        BY <2>1, <2>2, <2>3, RowsChange
<1>2. \A x \in Records : rows'[x] \in Removable => x \in Asked'
    BY <1>1, AskedGrows DEF VaultInv
<1>3. \A x \in Records : rows[x] # "absent" => rows'[x] # "absent"
    <2>1. CASE UNCHANGED rows
        BY <2>1
    <2>2. CASE \E r \in Requests : Commit(r)
        BY <2>2, CommittedRows
    <2>3. CASE Expire
        BY <2>3 DEF Expire, StoreInv, TypeOK
    <2> QED
        BY <2>1, <2>2, <2>3, RowsChange
<1>4. ASSUME NEW q \in Requests, kind'[q] = "get", pc'[q] \in {"found", "read"}
      PROVE  rows[rec'[q]] # "absent" /\ rec'[q] \in Records
    <2>1. /\ pc \in [Requests -> {"idle"} \cup Active \cup Ended] /\ kind \in [Requests -> Kinds]
          /\ rec \in [Requests -> Records]
          /\ \A p \in Requests : pc[p] = "found" => kind[p] \in {"get", "delete", "shred"}
        BY DEF StoreInv, TypeOK, PlacesOfKinds
    <2>2. CASE kind[q] = "get" /\ pc[q] \in {"found", "read"} /\ rec'[q] = rec[q]
        BY <2>1, <2>2 DEF VaultInv
    <2>3. CASE Crash \/ Expire \/ UNCHANGED vars
        BY <1>4, <2>1, <2>2, <2>3 DEF Crash, Expire, vars, locals
    <2>4. ASSUME NEW r \in Requests, StartGet(r) \/ ReadBlob(r) PROVE rows[rec'[q]] # "absent" /\ rec'[q] \in Records
        BY <1>4, <2>1, <2>2, <2>4 DEF StartGet, ReadBlob, Goto, locals
    <2>5. ASSUME NEW r \in Requests,
                 StartPut(r) \/ StartDelete(r) \/ StartPurge(r) \/ PurgeBlob(r) \/ Commit(r) \/ SyncRecord(r)
          PROVE  rows[rec'[q]] # "absent" /\ rec'[q] \in Records
        BY <1>4, <2>1, <2>2, <2>5
           DEF StartPut, StartDelete, StartPurge, PurgeBlob, Commit, SyncRecord, Goto, locals
    <2>6. ASSUME NEW r \in Requests,
                 \/ Refuse(r) \/ Fail(r) \/ InsertRow(r) \/ WriteBlob(r)
                 \/ MarkDeleted(r) \/ MarkVanished(r) \/ Unlink(r) \/ PurgeRow(r)
          PROVE  rows[rec'[q]] # "absent" /\ rec'[q] \in Records
        BY <1>4, <2>1, <2>2, <2>6
           DEF Refuse, Fail, InsertRow, WriteBlob, MarkDeleted, MarkVanished, Unlink, PurgeRow, Goto, locals
    <2> QED
        BY <2>3, <2>4, <2>5, <2>6 DEF Next
<1> QED
    BY <1>2, <1>3, <1>4 DEF VaultInv

(* What a step does to the states: nothing, or one allowed move. *)
St == [x \in Records |-> StateOf(x)]

LEMMA StatesStay == ASSUME UNCHANGED store PROVE St' = St
    BY DEF store, St, StateOf

(* A step that changes the state of no record but x. *)
LEMMA StatesOf ==
    ASSUME NEW x \in Records, NEW s, StateOf(x)' = s,
           \A y \in Records \ {x} : rows'[y] = rows[y] /\ (y \in blobs' <=> y \in blobs)
    PROVE  St' = [St EXCEPT ![x] = s]
<1>1. \A y \in Records \ {x} : StateOf(y)' = StateOf(y)
    BY DEF StateOf
<1>2. St' = [y \in Records |-> StateOf(y)'] /\ St = [y \in Records |-> StateOf(y)]
    BY DEF St
<1> QED
    BY <1>1, <1>2

LEMMA SameStates ==
    ASSUME \A y \in Records : StateOf(y)' = StateOf(y)
    PROVE  St' = St
    BY DEF St

LEMMA StateStays ==
    ASSUME NEW x, x \in blobs' <=> x \in blobs,
           rows'[x] = rows[x] \/ (rows[x] \in Removable /\ rows'[x] \in Removable)
    PROVE  StateOf(x)' = StateOf(x)
<1>1. CASE rows'[x] = rows[x]
    BY <1>1 DEF StateOf
<1>2. CASE rows[x] \in Removable /\ rows'[x] \in Removable
    BY <1>2, StateMeans, StateAfterMeans DEF Removable
<1> QED
    BY <1>1, <1>2

LEMMA WriteBlobUnseen ==
    ASSUME StoreInv, NEW r \in Requests, WriteBlob(r) PROVE St' = St
<1>1. rows' = rows /\ blobs' = blobs \cup {rec[r]} /\ rows[rec[r]] = "absent"
    BY DEF WriteBlob, StoreInv, PutsAlone, PlacesOfKinds
<1> QED
    BY <1>1, SameStates, StateMeans, StateAfterMeans DEF StateOf

(* A secure delete that unlinks erases what someone asked to delete; so does a
   purge. *)
LEMMA UnlinkErases ==
    ASSUME StoreInv, VaultInv, NEW r \in Requests, Unlink(r) \/ PurgeBlob(r)
    PROVE  \E x \in Records : /\ x \in Asked
                              /\ \/ St' = St
                                 \/ /\ St' = [St EXCEPT ![x] = "erased"]
                                    /\ St[x] \in {"readable", "withdrawn"}
<1>1. PICK x \in Records : /\ x \in Asked /\ rows' = rows /\ blobs' = blobs \ {x}
                          /\ rows[x] # "absent"
    <2>1. CASE Unlink(r)
        <3>1. /\ rec[r] \in Records /\ rows[rec[r]] # "absent" /\ rec[r] \in Asked
              /\ rows' = rows /\ blobs' = blobs \ {rec[r]}
            BY <2>1 DEF Unlink, StoreInv, TypeOK, DeletesKnown, Asked, Deletes
        <3> QED
            BY <3>1
    <2>2. CASE PurgeBlob(r)
        <3>1. PICK x \in found[r] : blobs' = blobs \ {x}
            BY <2>2 DEF PurgeBlob
        <3>2. x \in Records /\ rows[x] \in Removable /\ rows' = rows
            BY <2>2, <3>1 DEF PurgeBlob, StoreInv, TypeOK, PurgesSafe
        <3>3. rows[x] # "absent" /\ x \in Asked
            BY <3>2 DEF Removable, VaultInv
        <3> QED
            BY <3>1, <3>2, <3>3
    <2> QED
        BY <2>1, <2>2
<1>2. StateOf(x)' = "erased"
    BY <1>1, StateAfterMeans
<1>3. St' = [St EXCEPT ![x] = "erased"]
    BY <1>1, <1>2, StatesOf
<1>4. CASE x \in blobs
    <2>1. StateOf(x) \in {"readable", "withdrawn"}
        BY <1>1, <1>4, StateMeans, StateIsOne
    <2> QED
        BY <1>1, <1>3, <2>1 DEF St
<1>5. CASE x \notin blobs
    <2>1. blobs' = blobs
        BY <1>1, <1>5
    <2>2. St' = St
        BY <1>1, <2>1, StatesStay DEF store
    <2> QED
        BY <1>1, <2>2
<1> QED
    BY <1>4, <1>5

LEMMA ExpireUnseen == ASSUME StoreInv, Expire PROVE St' = St
<1>1. PICK x \in Records : rows[x] = "deleted" /\ rows' = [rows EXCEPT ![x] = "expired"] /\ blobs' = blobs
    BY DEF Expire
<1>2. \A y \in Records : rows'[y] = rows[y] \/ (rows[y] \in Removable /\ rows'[y] \in Removable)
    BY <1>1 DEF Removable, StoreInv, TypeOK
<1>3. \A y \in Records : StateOf(y)' = StateOf(y)
    BY <1>1, <1>2, StateStays
<1> QED
    BY <1>3, SameStates

(* A commit: a purge changes nothing a user sees, a get finds what there is,
   a put makes a record readable, a delete withdraws it. *)
LEMMA PurgeCommitUnseen ==
    ASSUME StoreInv, NEW r \in Requests, Commit(r), kind[r] \in {"purge", "get"} PROVE St' = St
<1>1. blobs' = blobs
    BY DEF Commit
<1>2. \A y \in Records : rows'[y] = rows[y] \/ (rows[y] \in Removable /\ rows'[y] = "purged")
    BY CommittedRows
<1>3. \A y \in Records : rows'[y] = rows[y] \/ (rows[y] \in Removable /\ rows'[y] \in Removable)
    BY <1>2 DEF Removable
<1>4. \A y \in Records : StateOf(y)' = StateOf(y)
    BY <1>1, <1>3, StateStays
<1> QED
    BY <1>4, SameStates

LEMMA WriteCommits ==
    ASSUME StoreInv, NEW r \in Requests, Commit(r), kind[r] \notin {"purge", "get"}
    PROVE  /\ rec[r] \in Records /\ blobs' = blobs
           /\ \A y \in Records \ {rec[r]} : rows'[y] = rows[y]
           /\ kind[r] = "put" => rows[rec[r]] = "absent" /\ rows'[rec[r]] = "live" /\ rec[r] \in blobs
           /\ kind[r] \in Deletes => /\ rows[rec[r]] \in {"live", "deleted", "expired"}
                                     /\ rows'[rec[r]] = "deleted"
           /\ kind[r] = "shred" => rec[r] \notin blobs
           /\ kind[r] \in {"put", "delete", "shred"}
<1>1. pc[r] = "synced" /\ writer = r /\ kind[r] \in {"put", "delete", "shred"} /\ writer # NoRequest
    BY StoreAssumption DEF Commit, MayCommit, StoreInv, TypeOK, Kinds, PlacesOfKinds, HoldersWrite, Writing
<1>2. rec[r] \in Records /\ blobs' = blobs /\ rows' = Merged
    BY <1>1 DEF Commit, StoreInv, TypeOK
<1>3. \A y \in Records : rows'[y] = IF y \in DOMAIN pending THEN pending[y] ELSE rows[y]
    BY <1>2 DEF Merged
<1>4. DOMAIN pending = {rec[r]}
    BY <1>1 DEF StoreInv, PendingOfHolder
<1>5. kind[r] = "put" => /\ rows[rec[r]] = "absent" /\ rows'[rec[r]] = "live" /\ rec[r] \in blobs
    BY <1>1, <1>2, <1>3, <1>4 DEF StoreInv, PendingOfHolder, PutsAlone
<1>6. kind[r] \in Deletes => /\ rows[rec[r]] \in {"live", "deleted", "expired"}
                            /\ rows'[rec[r]] = "deleted"
    BY <1>1, <1>2, <1>3, <1>4 DEF StoreInv, TypeOK, Status, PendingOfHolder, DeletesKnown, Deletes
<1>7. kind[r] = "shred" => rec[r] \notin blobs
    BY <1>1 DEF StoreInv, DeletesKnown
<1> QED
    BY <1>1, <1>2, <1>3, <1>4, <1>5, <1>6, <1>7

(* A commit is an answer, with the move that makes it true or without one. *)
LEMMA CommitAnswers ==
    ASSUME StoreInv, VaultInv, NEW r \in Requests, Commit(r), kind[r] # "purge"
    PROVE  \E x \in Records, k \in DOMAIN Promise!TrueIn :
              /\ Asked' = Asked /\ Answered' = Answered \cup {<<k, x>>}
              /\ St'[x] \in Promise!TrueIn[k]
              /\ \/ St' = St
                 \/ \E s \in Promise!Follows[St[x]] :
                       /\ s \in {"withdrawn", "erased"} => x \in Asked
                       /\ St' = [St EXCEPT ![x] = s]
<1>1. kind[r] \in {"put", "get", "delete", "shred"} /\ rec[r] \in Records
    BY DEF StoreInv, TypeOK, Kinds
<1>2. Asked' = Asked /\ Answered' = Answered \cup {<<kind[r], rec[r]>>}
    BY CommitTells
<1>3. DOMAIN Promise!TrueIn = {"put", "get", "delete", "shred"}
    BY DEF Promise!TrueIn
<1>0. PICK x \in Records : x = rec[r]
    BY <1>1
<1>4. CASE kind[r] = "get"
    <2>1. rows[x] # "absent"
        BY <1>0, <1>4 DEF VaultInv, Commit, MayCommit, StoreInv, PlacesOfKinds
    <2>2. St' = St
        BY <1>4, PurgeCommitUnseen
    <2>3. St[x] \in {"readable", "withdrawn", "erased"}
        BY <1>0, <1>1, <2>1, StateMeans, StateIsOne DEF St
    <2>4. St'[x] \in Promise!TrueIn["get"]
        BY <2>2, <2>3 DEF Promise!TrueIn
    <2> QED
        BY <1>0, <1>1, <1>2, <1>3, <1>4, <2>2, <2>4
<1>5. CASE kind[r] = "put"
    <2>1. rows[x] = "absent" /\ rows'[x] = "live" /\ x \in blobs'
        BY <1>0, <1>5, WriteCommits
    <2>2. St[x] = "unknown" /\ St' = [St EXCEPT ![x] = "readable"]
        BY <1>0, <1>1, <1>5, <2>1, WriteCommits, StateMeans, StateAfterMeans, StatesOf DEF St
    <2>3. "readable" \in Promise!Follows[St[x]] /\ St'[x] = "readable"
        BY <1>0, <1>1, <2>2 DEF Promise!Follows, St
    <2>4. St'[x] \in Promise!TrueIn["put"]
        BY <2>3 DEF Promise!TrueIn
    <2> QED
        BY <1>0, <1>1, <1>2, <1>3, <1>5, <2>2, <2>3, <2>4
<1>6. CASE kind[r] \in Deletes
    <2>1. /\ rows[x] \in {"live", "deleted", "expired"} /\ rows'[x] = "deleted" /\ blobs' = blobs
          /\ kind[r] = "shred" => x \notin blobs
          /\ \A y \in Records \ {x} : rows'[y] = rows[y]
        BY <1>0, <1>6, WriteCommits DEF Deletes
    <2>2. x \in Asked
        BY <1>0, <1>6 DEF Asked, Commit, MayCommit
    <2>3. CASE x \in blobs
        <3>1. StateOf(x)' = "withdrawn" /\ kind[r] = "delete"
            BY <1>6, <2>1, <2>3, StateAfterMeans DEF Removable, Deletes
        <3>2. St' = [St EXCEPT ![x] = "withdrawn"] /\ St'[x] = "withdrawn"
            BY <1>0, <1>1, <2>1, <3>1, StatesOf DEF St
        <3>3. StateOf(x) \in {"readable", "withdrawn"}
            BY <2>1, <2>3, StateMeans DEF Removable
        <3>4. St[x] = StateOf(x) /\ St = [y \in Records |-> St[y]]
            BY <1>1 DEF St
        <3>5. St' = St \/ "withdrawn" \in Promise!Follows[St[x]]
            BY <3>2, <3>3, <3>4 DEF Promise!Follows
        <3>6. St'[x] \in Promise!TrueIn["delete"]
            BY <3>2 DEF Promise!TrueIn
        <3> QED
            BY <1>0, <1>1, <1>2, <1>3, <2>2, <3>1, <3>2, <3>5, <3>6
    <2>4. CASE x \notin blobs
        <3>1. StateOf(x)' = "erased" /\ StateOf(x) = "erased"
            BY <2>1, <2>4, StateMeans, StateAfterMeans
        <3>2. St' = [St EXCEPT ![x] = "erased"]
            BY <1>0, <1>1, <2>1, <3>1, StatesOf
        <3>3. St[x] = "erased" /\ St = [y \in Records |-> St[y]]
            BY <1>0, <1>1, <3>1 DEF St
        <3>4. St' = St /\ St'[x] = "erased"
            BY <1>0, <1>1, <3>2, <3>3
        <3>5. St'[x] \in Promise!TrueIn["delete"] /\ St'[x] \in Promise!TrueIn["shred"]
            BY <3>4 DEF Promise!TrueIn
        <3> QED
            BY <1>0, <1>1, <1>2, <1>3, <1>6, <3>4, <3>5 DEF Deletes
    <2> QED
        BY <2>3, <2>4
<1> QED
    BY <1>0, <1>1, <1>4, <1>5, <1>6 DEF Deletes

LEMMA InitIsVault == Init => Promise!Init
<1> SUFFICES ASSUME Init PROVE Promise!Init
    OBVIOUS
<1>1. [x \in Records |-> StateOf(x)] = [x \in Records |-> "unknown"]
    BY StateMeans DEF Init
<1>2. Asked = {} /\ Answered = {}
    BY DEF Init, Asked, Answered
<1> QED
    BY <1>1, <1>2 DEF Promise!Init

LEMMA StepIsVault ==
    ASSUME StoreInv, VaultInv, [Next]_vars
    PROVE  Promise!Next \/ UNCHANGED <<St, Asked, Answered>>
<1> USE DEF St
<1>1. ASSUME NEW r \in Requests, Commit(r) PROVE Promise!Next \/ UNCHANGED <<St, Asked, Answered>>
    <2>1. CASE kind[r] = "purge"
        <3>1. St' = St /\ Asked' = Asked /\ Answered' = Answered
            BY <1>1, <2>1, PurgeCommitUnseen, CommitTells
        <3> QED
            BY <3>1
    <2>2. CASE kind[r] # "purge"
        BY <1>1, <2>2, CommitAnswers DEF Promise!Next, Promise!Answer, Promise!Move
    <2> QED
        BY <2>1, <2>2
<1>2. ASSUME NEW r \in Requests, StartDelete(r) PROVE Promise!Next \/ UNCHANGED <<St, Asked, Answered>>
    <2>1. St' = St
        BY <1>2, StatesStay DEF StartDelete
    <2> QED
        BY <1>2, <2>1, DeleteAsks DEF Promise!Next, Promise!Ask
<1>3. ASSUME NEW r \in Requests, Unlink(r) \/ PurgeBlob(r)
      PROVE  Promise!Next \/ UNCHANGED <<St, Asked, Answered>>
    <2>1. Asked' = Asked /\ Answered' = Answered
        BY <1>3, QuietSteps, OtherStarts
    <2>2. PICK x \in Records : /\ x \in Asked
                              /\ \/ St' = St
                                 \/ /\ St' = [St EXCEPT ![x] = "erased"]
                                    /\ St[x] \in {"readable", "withdrawn"}
        BY <1>3, UnlinkErases
    <2>3. CASE St' = St
        BY <2>1, <2>3
    <2>4. CASE St' = [St EXCEPT ![x] = "erased"] /\ St[x] \in {"readable", "withdrawn"}
        <3>1. "erased" \in Promise!Follows[St[x]]
            BY <2>4 DEF Promise!Follows
        <3> HIDE DEF St
        <3>2. \E s \in Promise!Follows[St[x]] :
                 /\ s \in {"withdrawn", "erased"} => x \in Asked
                 /\ St' = [St EXCEPT ![x] = s]
            BY <2>2, <2>4, <3>1
        <3> QED
            BY <2>1, <3>2 DEF St, Promise!Next, Promise!Move
    <2> QED
        BY <2>2, <2>3, <2>4
<1>4. ASSUME NEW r \in Requests,
             \/ Refuse(r) \/ Fail(r) \/ InsertRow(r) \/ WriteBlob(r) \/ ReadBlob(r)
             \/ MarkDeleted(r) \/ MarkVanished(r) \/ SyncRecord(r) \/ PurgeRow(r)
      PROVE  UNCHANGED <<St, Asked, Answered>>
    <2>1. St' = St
        BY <1>4, StatesStay, WriteBlobUnseen
           DEF Refuse, Fail, InsertRow, ReadBlob, MarkDeleted, MarkVanished, SyncRecord, PurgeRow
    <2> QED
        BY <1>4, <2>1, QuietSteps
<1>5. ASSUME NEW r \in Requests, StartPut(r) \/ StartGet(r) \/ StartPurge(r)
      PROVE  UNCHANGED <<St, Asked, Answered>>
    <2>1. St' = St
        BY <1>5, StatesStay DEF StartPut, StartGet, StartPurge
    <2> QED
        BY <1>5, <2>1, OtherStarts
<1>6. CASE Crash \/ Expire \/ UNCHANGED vars
    <2>1. UNCHANGED <<kind, rec>> /\ \A q \in Requests : pc'[q] = pc[q] \/
             (pc[q] # "done" /\ pc'[q] \notin {"idle", "done"} /\ pc[q] # "idle")
        BY <1>6 DEF Crash, Expire, vars, locals, Active
    <2>2. St' = St
        BY <1>6, StatesStay, ExpireUnseen DEF Crash, vars
    <2> QED
        BY <2>1, <2>2, Underway
<1> QED
    BY <1>1, <1>2, <1>3, <1>4, <1>5, <1>6 DEF Next

(* To its users the store is the vault: whatever requests race, fail or are
   lost, a record that was put can be read until someone asks to delete it,
   is never read again once it was withdrawn, and no answer is ever untrue. *)
THEOREM StoreImplementsVault == Spec => ImplementsVault
<1>1. Init => StoreInv /\ VaultInv
    BY StoreInit, VaultInit
<1>2. StoreInv /\ VaultInv /\ [Next]_vars => (StoreInv /\ VaultInv)'
    BY StoreStep, VaultStep
<1>3. Init => Promise!Init
    BY InitIsVault
<1>4. StoreInv /\ VaultInv /\ [Next]_vars =>
          [Promise!Next]_<<[x \in Records |-> StateOf(x)], Asked, Answered>>
    BY StepIsVault DEF St
<1> QED
    BY <1>1, <1>2, <1>3, <1>4, PTL DEF Spec, ImplementsVault, Promise!Spec

==============================================================================
