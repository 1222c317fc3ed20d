----------------------------- MODULE RecordStore -----------------------------
(***************************************************************************)
(* The records of a CryptoDB server: the row each has in the database and  *)
(* the encrypted blob it has on disk, as engine.py's put, get, delete and  *)
(* purge_soft_deleted create, read and remove them.                        *)
(*                                                                         *)
(* The rows are transactional and the blobs are not.  A request works on   *)
(* its own session: a SELECT sees what is committed, the first INSERT,     *)
(* UPDATE or DELETE takes SQLite's only write lock, and a session closed   *)
(* without a commit is rolled back.  A blob is written and unlinked at     *)
(* once, whatever happens to the transaction later.                        *)
(*                                                                         *)
(* Who may read or delete a record is decided before any change of state;  *)
(* it is abstracted to a refusal, which any request may meet.  The ledger  *)
(* entry each operation appends, and its failures, are Ledger's.           *)
(***************************************************************************)
EXTENDS Naturals, FiniteSets, Functions

CONSTANTS
    Records,        \* record identifiers, each given to one put at most
    Users,
    Requests,
    NoRequest,      \* not a request: nobody holds the write lock
    Owner,          \* the user who puts a record
    Size,           \* the length of its plaintext
    Limited,        \* the users with a quota_bytes who are no admins
    Quota           \* their quota_bytes

ASSUME StoreAssumption ==
    /\ NoRequest \notin Requests
    /\ Owner \in [Records -> Users]
    /\ Size \in [Records -> Nat]
    /\ Limited \subseteq Users
    /\ Quota \in Nat
    /\ IsFiniteSet(Records) /\ Records # {}

VARIABLES
    rows,           \* committed: the status of each record
    blobs,          \* the records that have a file
    (* the one open write transaction *)
    writer,         \* the request that holds the write lock
    pending,        \* record -> the status its transaction gives it
    (* the requests *)
    pc, kind,
    rec,            \* the record the request is about
    found,          \* what a purge has selected and not removed yet
    (* history, read by no action *)
    raced           \* users of whom two puts were under way at once

store  == <<rows, blobs>>
tx     == <<writer, pending>>
locals == <<kind, rec, found>>
vars   == <<store, tx, pc, locals, raced>>

(* deleted: is_deleted, until purge_after_days have passed since deleted_at,
   and expired from then on.  purged: the row has been there and is gone. *)
Status == {"absent", "live", "deleted", "expired", "purged"}
Kinds  == {"put", "get", "delete", "shred", "purge"}
Active == {"checked", "inserted", "written", "found", "read", "marked",
           "unlinked", "selected", "dropping", "synced"}
Ended  == {"done", "failed", "lost"}
NoRows == << >>

(* The rows once the open transaction is committed. *)
Merged == [x \in Records |-> IF x \in DOMAIN pending THEN pending[x] ELSE rows[x]]

(* The quota's SELECT: the plaintext bytes of the user's committed live rows. *)
Used(u) == SumFunctionOnSet(Size, {x \in Records : Owner[x] = u /\ rows[x] = "live"})

Init ==
    /\ rows = [x \in Records |-> "absent"] /\ blobs = {}
    /\ writer = NoRequest /\ pending = NoRows
    /\ pc = [r \in Requests |-> "idle"]
    /\ kind = [r \in Requests |-> "get"]
    /\ rec = [r \in Requests |-> CHOOSE x \in Records : TRUE]
    /\ found = [r \in Requests |-> {}]
    /\ raced = {}

-----------------------------------------------------------------------------
MayWrite(r) == writer \in {NoRequest, r}

(* DML of r: its first takes the write lock. *)
Write(r, changes) ==
    /\ MayWrite(r)
    /\ writer' = r
    /\ pending' = changes

(* Mutation: a session that is given up keeps its lock. *)
EndTransactionLocked(r) ==
    /\ UNCHANGED writer
    /\ pending' = IF writer = r THEN NoRows ELSE pending

(* A commit, or the rollback of a session that is closed without one. *)
EndTransaction(r) ==
    /\ writer' = IF writer = r THEN NoRequest ELSE writer
    /\ pending' = IF writer = r THEN NoRows ELSE pending

Goto(r, place) == pc' = [pc EXCEPT ![r] = place]

(* A request the code turns down before it changes anything: no permission,
   no such record, no room. *)
Refuse(r) ==
    /\ pc[r] = "idle"
    /\ Goto(r, "failed")
    /\ UNCHANGED <<store, tx, locals, raced>>

-----------------------------------------------------------------------------
(* put *)

PutsOf(u) == {q \in Requests : kind[q] = "put" /\ pc[q] \in Active /\ Owner[rec[q]] = u}

(* Mutation: the quota is compared without the new record. *)
HasRoomBefore(x) == Owner[x] \in Limited => Used(Owner[x]) <= Quota

HasRoom(x) == Owner[x] \in Limited => Used(Owner[x]) + Size[x] <= Quota

(* The permission and the quota, which is read and compared at once; the row
   is inserted only later. *)
StartPut(r) ==
    /\ pc[r] = "idle"
    /\ \E x \in Records :
          /\ rows[x] = "absent"
          /\ \A q \in Requests : kind[q] = "put" /\ pc[q] # "idle" => rec[q] # x
          /\ HasRoom(x)
          /\ rec' = [rec EXCEPT ![r] = x]
          /\ raced' = IF PutsOf(Owner[x]) # {} THEN raced \cup {Owner[x]} ELSE raced
    /\ kind' = [kind EXCEPT ![r] = "put"]
    /\ Goto(r, "checked")
    /\ UNCHANGED <<store, tx, found>>

(* session.add and flush: the INSERT that gives the record its id. *)
InsertRow(r) ==
    /\ pc[r] = "checked"
    /\ Write(r, [x \in {rec[r]} |-> "live"])
    /\ Goto(r, "inserted")
    /\ UNCHANGED <<store, locals, raced>>

(* BlobStore.write, and the UPDATE of blob_path. *)
WriteBlob(r) ==
    /\ pc[r] = "inserted"
    /\ blobs' = blobs \cup {rec[r]}
    /\ Goto(r, "written")
    /\ UNCHANGED <<rows, tx, locals, raced>>

-----------------------------------------------------------------------------
(* get *)

StartGet(r) ==
    /\ pc[r] = "idle"
    /\ \E x \in Records : rows[x] = "live" /\ rec' = [rec EXCEPT ![r] = x]
    /\ kind' = [kind EXCEPT ![r] = "get"]
    /\ Goto(r, "found")
    /\ UNCHANGED <<store, tx, found, raced>>

(* BlobStore.read, after the await of the row: the file may be gone. *)
ReadBlob(r) ==
    /\ pc[r] = "found"
    /\ kind[r] = "get"
    /\ Goto(r, IF rec[r] \in blobs THEN "read" ELSE "failed")
    /\ UNCHANGED <<store, tx, locals, raced>>

-----------------------------------------------------------------------------
(* delete, secure (shred) or not.  It does not look at is_deleted: a deleted
   record may be deleted again. *)

StartDelete(r) ==
    /\ pc[r] = "idle"
    /\ \E x \in Records, k \in {"delete", "shred"} :
          /\ rows[x] \in {"live", "deleted", "expired"}
          /\ rec' = [rec EXCEPT ![r] = x]
          /\ kind' = [kind EXCEPT ![r] = k]
    /\ Goto(r, "found")
    /\ UNCHANGED <<store, tx, found, raced>>

(* Mutation: the number of rows the UPDATE matched is not looked at, the row
   is written anyway. *)
MarkDeletedBlindly(r) ==
    /\ pc[r] = "found"
    /\ kind[r] \in {"delete", "shred"}
    /\ Write(r, [x \in {rec[r]} |-> "deleted"])
    /\ Goto(r, "marked")
    /\ UNCHANGED <<store, locals, raced>>

(* The UPDATE of is_deleted and deleted_at. *)
MarkDeleted(r) ==
    /\ pc[r] = "found"
    /\ kind[r] \in {"delete", "shred"}
    /\ rows[rec[r]] # "purged"
    /\ Write(r, [x \in {rec[r]} |-> "deleted"])
    /\ Goto(r, "marked")
    /\ UNCHANGED <<store, locals, raced>>

(* A purge has removed the row since it was selected: the UPDATE matches no
   row, which is an error. *)
MarkVanished(r) ==
    /\ pc[r] = "found"
    /\ kind[r] \in {"delete", "shred"}
    /\ rows[rec[r]] = "purged"
    /\ MayWrite(r)
    /\ EndTransaction(r)
    /\ Goto(r, "failed")
    /\ UNCHANGED <<store, locals, raced>>

(* Mutation: the file is left to the next purge. *)
UnlinkLater(r) ==
    /\ pc[r] = "marked"
    /\ kind[r] = "shred"
    /\ Goto(r, "unlinked")
    /\ UNCHANGED <<store, tx, locals, raced>>

(* BlobStore.delete, before the commit; no error if the file is not there. *)
Unlink(r) ==
    /\ pc[r] = "marked"
    /\ kind[r] = "shred"
    /\ blobs' = blobs \ {rec[r]}
    /\ Goto(r, "unlinked")
    /\ UNCHANGED <<rows, tx, locals, raced>>

-----------------------------------------------------------------------------
(* sync_record at the end of a put or a delete: with replication enabled and a
   standby active it reads the file of the record, which a secure delete has
   just removed. *)

WriteDone(r) ==
    \/ pc[r] = "written"
    \/ pc[r] = "marked" /\ kind[r] = "delete"
    \/ pc[r] = "unlinked"

SyncRecord(r) ==
    /\ WriteDone(r)
    /\ \E standby \in BOOLEAN :
          IF standby /\ rec[r] \notin blobs
            THEN EndTransaction(r) /\ Goto(r, "failed")
            ELSE UNCHANGED tx /\ Goto(r, "synced")
    /\ UNCHANGED <<store, locals, raced>>

-----------------------------------------------------------------------------
(* purge_soft_deleted: record by record the file, then the row; one commit at
   the end. *)

(* Mutation: every record flagged is_deleted or not is selected. *)
StartPurgeAll(r) ==
    /\ pc[r] = "idle"
    /\ found' = [found EXCEPT ![r] = {x \in Records : rows[x] \in {"live", "expired"}}]
    /\ kind' = [kind EXCEPT ![r] = "purge"]
    /\ Goto(r, "selected")
    /\ UNCHANGED <<store, tx, rec, raced>>

StartPurge(r) ==
    /\ pc[r] = "idle"
    /\ found' = [found EXCEPT ![r] = {x \in Records : rows[x] = "expired"}]
    /\ kind' = [kind EXCEPT ![r] = "purge"]
    /\ Goto(r, "selected")
    /\ UNCHANGED <<store, tx, rec, raced>>

PurgeBlob(r) ==
    /\ pc[r] = "selected"
    /\ \E x \in found[r] :
          /\ blobs' = blobs \ {x}
          /\ rec' = [rec EXCEPT ![r] = x]
    /\ Goto(r, "dropping")
    /\ UNCHANGED <<rows, tx, kind, found, raced>>

(* DELETE ... WHERE id: it does not matter if the row is gone, or what it has
   become since it was selected. *)
PurgeRow(r) ==
    /\ pc[r] = "dropping"
    /\ Write(r, [x \in DOMAIN pending \cup {rec[r]} |-> "purged"])
    /\ found' = [found EXCEPT ![r] = @ \ {rec[r]}]
    /\ Goto(r, "selected")
    /\ UNCHANGED <<store, kind, rec, raced>>

-----------------------------------------------------------------------------
MayCommit(r) ==
    \/ pc[r] \in {"read", "synced"}
    \/ pc[r] = "selected" /\ found[r] = {}

(* Mutation: the route answers without session.commit. *)
AnswerOnly(r) ==
    /\ MayCommit(r)
    /\ EndTransaction(r)
    /\ Goto(r, "done")
    /\ UNCHANGED <<store, locals, raced>>

(* The entry in the ledger and session.commit. *)
Commit(r) ==
    /\ MayCommit(r)
    /\ rows' = IF writer = r THEN Merged ELSE rows
    /\ EndTransaction(r)
    /\ Goto(r, "done")
    /\ UNCHANGED <<blobs, locals, raced>>

(* An exception: a busy lock, a full disk, a ledger entry persisted twice, a
   replication log that cannot be numbered. *)
Fail(r) ==
    /\ pc[r] \in Active
    /\ EndTransaction(r)
    /\ Goto(r, "failed")
    /\ UNCHANGED <<store, locals, raced>>

(* The process dies: what is on disk stays, the transaction is rolled back. *)
Crash ==
    /\ \E r \in Requests : pc[r] \in Active
    /\ writer' = NoRequest /\ pending' = NoRows
    /\ pc' = [r \in Requests |-> IF pc[r] \in Active THEN "lost" ELSE pc[r]]
    /\ UNCHANGED <<store, locals, raced>>

(* purge_after_days pass since a record was deleted. *)
Expire ==
    /\ \E x \in Records : rows[x] = "deleted" /\ rows' = [rows EXCEPT ![x] = "expired"]
    /\ UNCHANGED <<blobs, tx, pc, locals, raced>>

Next ==
    \/ Crash
    \/ Expire
    \/ \E r \in Requests :
          \/ Refuse(r)       \/ Commit(r)      \/ Fail(r)
          \/ StartPut(r)     \/ InsertRow(r)   \/ WriteBlob(r)
          \/ StartGet(r)     \/ ReadBlob(r)
          \/ StartDelete(r)  \/ MarkDeleted(r) \/ MarkVanished(r) \/ Unlink(r)
          \/ SyncRecord(r)
          \/ StartPurge(r)   \/ PurgeBlob(r)   \/ PurgeRow(r)

Spec == Init /\ [][Next]_vars

-----------------------------------------------------------------------------
(* Properties. *)

(* Every variable holds a value of its kind, and only a request under way
   holds the write lock and has rows that are not committed. *)
TypeOK ==
    /\ rows \in [Records -> Status]
    /\ blobs \subseteq Records
    /\ writer \in Requests \cup {NoRequest}
    /\ DOMAIN pending \subseteq Records
    /\ \A x \in DOMAIN pending : pending[x] \in Status
    /\ writer # NoRequest => pc[writer] \in Active
    /\ writer = NoRequest => DOMAIN pending = {}
    /\ pc \in [Requests -> {"idle"} \cup Active \cup Ended]
    /\ kind \in [Requests -> Kinds]
    /\ rec \in [Requests -> Records]
    /\ found \in [Requests -> SUBSET Records]
    /\ raced \subseteq Users

(* r is a secure delete of x that unlinked, or may have unlinked, the file
   without its transaction being committed. *)
ShredUncommitted(r, x) ==
    kind[r] = "shred" /\ rec[r] = x /\ pc[r] \in {"unlinked", "synced", "failed", "lost"}

(* A live record can be read: its file is there.  The only thing that takes
   it away is a secure delete that unlinks before it commits. *)
LiveHasBlob ==
    \A x \in Records :
        rows[x] = "live" => x \in blobs \/ \E r \in Requests : ShredUncommitted(r, x)

(* A record that no secure delete is about to remove, and that is live, can be
   read: a secure delete that fails has no effect. *)
LiveReadable ==
    \A x \in Records : rows[x] = "live" =>
        x \in blobs \/ \E r \in Requests : kind[r] = "shred" /\ rec[r] = x /\ pc[r] \in Active

(* A purged record has left nothing on disk, and a record whose secure delete
   was answered never has a file again. *)
RemovedForGood ==
    /\ \A x \in Records : rows[x] = "purged" => x \notin blobs
    /\ \A r \in Requests : kind[r] = "shred" /\ pc[r] = "done" => rec[r] \notin blobs

(* A file without a row was left by a put that is under way or has failed,
   and no other put ever gets that identifier. *)
OrphansFromPuts ==
    \A x \in blobs : rows[x] = "absent" =>
        \E r \in Requests : /\ kind[r] = "put" /\ rec[r] = x
                            /\ pc[r] \in {"written", "synced", "failed", "lost"}

(* The live records of a user exceed the quota only if two puts of the user
   were under way at once: both may pass the check before either commits. *)
QuotaUnlessRaced == \A u \in Limited : Used(u) > Quota => u \in raced

(* A record is deleted before it is purged, and neither comes back. *)
NextStatus ==
    [absent |-> {"live"}, live |-> {"deleted"}, deleted |-> {"expired", "purged"},
     expired |-> {"deleted", "purged"}, purged |-> {}]
NeverBack ==
    [][\A x \in Records : rows'[x] \in NextStatus[rows[x]] \cup {rows[x]}]_vars

(* To its users the store is a vault: a record is readable from the commit of
   its put to the first effect of a delete someone asked for, whether that
   delete succeeds or not, and never again; and no answer is ever untrue. *)
StateOf(x) ==
    CASE rows[x] = "absent"                -> "unknown"
      [] rows[x] = "live" /\ x \in blobs   -> "readable"
      [] rows[x] \notin {"absent", "live"} /\ x \in blobs -> "withdrawn"
      [] OTHER                             -> "erased"
Deletes == {"delete", "shred"}
Asked    == {rec[r] : r \in {q \in Requests : kind[q] \in Deletes /\ pc[q] # "idle"}}
Answered == {<<kind[r], rec[r]>> : r \in {q \in Requests : kind[q] # "purge" /\ pc[q] = "done"}}

Promise == INSTANCE Vault WITH
    state <- [x \in Records |-> StateOf(x)], asked <- Asked, answered <- Answered
ImplementsVault == Promise!Spec
==============================================================================
