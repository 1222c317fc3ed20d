----------------------------- MODULE Replication -----------------------------
(***************************************************************************)
(* Push and pull replication: replication/engine.py as the routes and the  *)
(* record engine drive it.                                                 *)
(*                                                                         *)
(* A put or a delete ends in sync_record, inside its transaction: with the *)
(* write lock held it pushes the blob to every active standby and logs the *)
(* outcome.  retry_pending and health_check_nodes read the tables without  *)
(* the lock, talk to the standbys, and write what they concluded later.    *)
(* SQLAlchemy writes only the attributes that differ from what was loaded, *)
(* and fails when a row it updates is gone.                                *)
(*                                                                         *)
(* A push may reach the standby and its answer be lost; the standby keeps  *)
(* the blob, whatever becomes of the primary's transaction.  A standby may *)
(* also pull the log from its cursor on.  How rows and blobs change in     *)
(* detail is RecordStore's: here a write is one step that takes the lock.  *)
(***************************************************************************)
EXTENDS Naturals, FiniteSets, FiniteSetsExt, Functions, TLC

CONSTANTS
    Records, Nodes, Requests,
    NoRequest,      \* not a request: nobody holds the write lock
    RetryMax        \* settings.replication_retry_max

ASSUME ReplicationAssumption ==
    /\ Records # {}
    /\ NoRequest \notin Requests
    /\ RetryMax \in Nat \ {0}

VARIABLES
    db,             \* the committed tables
    draft,          \* the tables as the holder of the write lock sees them
    writer,         \* the request that holds the write lock
    blobs,          \* the records that have a file on the primary
    stored,         \* the blobs each standby has received
    (* the requests *)
    pc,
    rec,            \* the record a write is about
    todo,           \* log rows still to push, retry or delete
    loaded,         \* log rows as retry_pending loaded them
    view,           \* those it has retried or failed, as its session has them
    peers,          \* the node rows it loaded
    (* the standbys that pull *)
    cursor, pulled,
    (* history, read by no action *)
    posted,         \* log rows ever committed
    cleared,        \* log rows reset_sync removed
    contested       \* log rows two retries had in hand at a time

tables == <<db, draft, writer>>
session == <<todo, loaded, view, peers>>
locals == <<rec, session>>
feed   == <<cursor, pulled>>
past   == <<posted, cleared, contested>>
vars   == <<tables, blobs, stored, pc, locals, feed, past>>

(* Each write pushes once to each node it finds active: request and node
   identify a log row. *)
LogIds == Requests \X Nodes
Log    == [record: Records, status: {"acked", "failed"}, retries: Nat, seq: Nat]
NoLogs == << >>
NoPeers == [n \in Nodes |-> "unknown"]

RowStatus  == {"absent", "live", "deleted", "purged"}
NodeStatus == {"unknown", "active", "unhealthy", "gone"}
Active     == {"wrote", "pushing", "loaded", "retrying", "fetched", "read", "resetting", "pinging", "synced"}
Ended      == {"done", "failed", "unnumbered", "lost"}

Init ==
    /\ db = [row  |-> [x \in Records |-> "absent"],
             node |-> NoPeers,
             logs |-> NoLogs, dead |-> {}]
    /\ draft = db /\ writer = NoRequest
    /\ blobs = {} /\ stored = [n \in Nodes |-> {}]
    /\ pc = [r \in Requests |-> "idle"]
    /\ rec = [r \in Requests |-> CHOOSE x \in Records : TRUE]
    /\ todo = [r \in Requests |-> {}]
    /\ loaded = [r \in Requests |-> NoLogs]
    /\ view = [r \in Requests |-> NoLogs]
    /\ peers = [r \in Requests |-> NoPeers]
    /\ cursor = [n \in Nodes |-> 0] /\ pulled = [n \in Nodes |-> {}]
    /\ posted = {} /\ cleared = {} /\ contested = {}

-----------------------------------------------------------------------------
Goto(r, place) == pc' = [pc EXCEPT ![r] = place]

(* The request ends, and its session is closed. *)
Leave(r, how) ==
    /\ Goto(r, how)
    /\ todo' = [todo EXCEPT ![r] = {}]
    /\ loaded' = [loaded EXCEPT ![r] = NoLogs]
    /\ view' = [view EXCEPT ![r] = NoLogs]
    /\ peers' = [peers EXCEPT ![r] = NoPeers]

MayWrite(r) == writer \in {NoRequest, r}

(* DML of r, by which it takes or keeps the write lock. *)
Write(r, tabs) ==
    /\ MayWrite(r)
    /\ writer' = r
    /\ draft' = tabs
    /\ UNCHANGED db

(* Mutation: a session that is given up keeps its lock. *)
RollbackLocked(r) ==
    /\ draft' = IF writer = r THEN db ELSE draft
    /\ UNCHANGED <<db, writer>>

(* The session is closed without a commit. *)
Rollback(r) ==
    /\ writer' = IF writer = r THEN NoRequest ELSE writer
    /\ draft' = IF writer = r THEN db ELSE draft
    /\ UNCHANGED db

(* A statement and its commit with nothing in between. *)
Autocommit(tabs) ==
    /\ writer = NoRequest
    /\ db' = tabs /\ draft' = tabs
    /\ UNCHANGED writer

ActiveNodes(tabs) == {n \in Nodes : tabs.node[n] = "active"}
HighestSeq(logs)  == Max({0} \cup {logs[i].seq : i \in DOMAIN logs})
Acked(log)        == log.status = "acked"

(* A session's rows with one more, or with another version of one. *)
WithRow(rows, i, log) == [j \in DOMAIN rows \cup {i} |-> IF j = i THEN log ELSE rows[j]]

(* Mutation: a log row is given up only past the maximum. *)
ExhaustedPast(log) == log.status = "failed" /\ log.retries > RetryMax

Exhausted(log)    == log.status = "failed" /\ log.retries >= RetryMax

(* Mutation: the row is deleted, the dead letter never added. *)
WithoutDeadLetters(tabs, seen) ==
    LET dead == {i \in DOMAIN seen : Exhausted(seen[i])}
    IN  [tabs EXCEPT !.logs = Restrict(@, DOMAIN @ \ dead)]

(* _process_dead_letter of the rows in seen, as the session has them. *)
WithDeadLetters(tabs, seen) ==
    LET dead == {i \in DOMAIN seen : Exhausted(seen[i])}
    IN  [tabs EXCEPT !.dead = @ \cup dead,
                     !.logs = Restrict(@, DOMAIN @ \ dead)]

-----------------------------------------------------------------------------
(* A write: the row and the blob, then sync_record. *)

PutRecord(r) ==
    /\ pc[r] = "idle"
    /\ writer = NoRequest
    /\ \E x \in Records \ blobs :
          /\ db.row[x] = "absent"
          /\ Write(r, [db EXCEPT !.row[x] = "live"])
          /\ blobs' = blobs \cup {x}
          /\ rec' = [rec EXCEPT ![r] = x]
    /\ Goto(r, "wrote")
    /\ UNCHANGED <<stored, todo, loaded, view, peers, feed, past>>

(* A secure delete unlinks the blob at once. *)
DeleteRecord(r) ==
    /\ pc[r] = "idle"
    /\ writer = NoRequest
    /\ \E x \in Records :
          /\ db.row[x] \in {"live", "deleted"}
          /\ Write(r, [db EXCEPT !.row[x] = "deleted"])
          /\ blobs' \in {blobs, blobs \ {x}}
          /\ rec' = [rec EXCEPT ![r] = x]
    /\ Goto(r, "wrote")
    /\ UNCHANGED <<stored, todo, loaded, view, peers, feed, past>>

(* No standby is active: there is nothing to do. *)
SyncNobody(r) ==
    /\ pc[r] = "wrote"
    /\ ActiveNodes(draft) = {}
    /\ Goto(r, "synced")
    /\ UNCHANGED <<tables, blobs, stored, locals, feed, past>>

(* The blob to push is the one a secure delete has just removed. *)
SyncNoBlob(r) ==
    /\ pc[r] = "wrote"
    /\ ActiveNodes(draft) # {}
    /\ rec[r] \notin blobs
    /\ Rollback(r)
    /\ Leave(r, "failed")
    /\ UNCHANGED <<blobs, stored, rec, feed, past>>

(* The highest sequence number is read with scalar_one_or_none from a query
   without LIMIT: a second row in the log makes it raise. *)
SyncUnnumbered(r) ==
    /\ pc[r] = "wrote"
    /\ ActiveNodes(draft) # {}
    /\ rec[r] \in blobs
    /\ Cardinality(DOMAIN draft.logs) > 1
    /\ Rollback(r)
    /\ Leave(r, "unnumbered")
    /\ UNCHANGED <<blobs, stored, rec, feed, past>>

SyncStart(r) ==
    /\ pc[r] = "wrote"
    /\ ActiveNodes(draft) # {}
    /\ rec[r] \in blobs
    /\ Cardinality(DOMAIN draft.logs) <= 1
    /\ todo' = [todo EXCEPT ![r] = {<<r, n>> : n \in ActiveNodes(draft)}]
    /\ Goto(r, "pushing")
    /\ UNCHANGED <<tables, blobs, stored, rec, loaded, view, peers, feed, past>>

(* Mutations: max_seq is not advanced from node to node; a push without an
   answer counts as acked. *)
NextSeqStuck(logs, r) == 1 + HighestSeq(Restrict(logs, {i \in DOMAIN logs : i[1] # r}))
OutcomeHopeful(answered) == "acked"

NextSeq(logs, r)  == 1 + HighestSeq(logs)
Outcome(answered) == IF answered THEN "acked" ELSE "failed"

(* Whether node n gets the blob of x, and whether the primary hears of it. *)
Deliver(n, x, received, answered) ==
    /\ answered => received
    /\ stored' = IF received THEN [stored EXCEPT ![n] = @ \cup {x}] ELSE stored

(* The log row of the next node, flushed, and the push to it. *)
Push(r) ==
    /\ pc[r] = "pushing"
    /\ \E i \in todo[r], received, answered \in BOOLEAN :
          /\ Deliver(i[2], rec[r], received, answered)
          /\ Write(r, [draft EXCEPT !.logs = WithRow(@, i,
                [record |-> rec[r], status |-> Outcome(answered),
                 retries |-> IF answered THEN 0 ELSE 1, seq |-> NextSeq(@, r)])])
          /\ todo' = [todo EXCEPT ![r] = @ \ {i}]
    /\ Goto(r, "pushing")
    /\ UNCHANGED <<blobs, rec, loaded, view, peers, feed, past>>

(* The last flush and the dead letters of this sync. *)
SyncEnd(r) ==
    /\ pc[r] = "pushing"
    /\ todo[r] = {}
    /\ Write(r, WithDeadLetters(draft, RestrictDomain(draft.logs, LAMBDA i : i[1] = r)))
    /\ Goto(r, "synced")
    /\ UNCHANGED <<blobs, stored, locals, feed, past>>

-----------------------------------------------------------------------------
(* retry_pending *)

(* Contested: rows that another retry has in hand. *)
RetrySelect(r) ==
    /\ pc[r] = "idle"
    /\ loaded' = [loaded EXCEPT ![r] = RestrictValues(db.logs,
                     LAMBDA log : log.status = "failed" /\ log.retries < RetryMax)]
    /\ todo' = [todo EXCEPT ![r] = DOMAIN loaded'[r]]
    /\ contested' = contested \cup {i \in todo'[r] : \E q \in Requests : i \in DOMAIN loaded[q]}
    /\ Goto(r, IF todo'[r] = {} THEN "done" ELSE "loaded")
    /\ UNCHANGED <<tables, blobs, stored, rec, view, peers, feed, posted, cleared>>

RetryNodes(r) ==
    /\ pc[r] = "loaded"
    /\ peers' = [peers EXCEPT ![r] = db.node]
    /\ Goto(r, "retrying")
    /\ UNCHANGED <<tables, blobs, stored, rec, todo, loaded, view, feed, past>>

(* The next row, by sequence number. *)
IsNext(r, i) == i \in todo[r] /\ \A j \in todo[r] : loaded[r][i].seq <= loaded[r][j].seq

RetrySkip(r) ==
    /\ pc[r] = "retrying"
    /\ \E i \in LogIds :
          /\ IsNext(r, i)
          /\ peers[r][i[2]] # "active"
          /\ todo' = [todo EXCEPT ![r] = @ \ {i}]
    /\ UNCHANGED <<tables, blobs, stored, pc, rec, loaded, view, peers, feed, past>>

(* The record is gone: the row is marked failed, and not counted as retried. *)
RetryMissing(r) ==
    /\ pc[r] = "retrying"
    /\ \E i \in LogIds :
          /\ IsNext(r, i)
          /\ peers[r][i[2]] = "active"
          /\ db.row[loaded[r][i].record] = "purged"
          /\ view' = [view EXCEPT ![r] = WithRow(@, i, loaded[r][i])]
          /\ todo' = [todo EXCEPT ![r] = @ \ {i}]
    /\ UNCHANGED <<tables, blobs, stored, pc, rec, loaded, peers, feed, past>>

RetryFetch(r) ==
    /\ pc[r] = "retrying"
    /\ \E i \in LogIds :
          /\ IsNext(r, i)
          /\ peers[r][i[2]] = "active"
          /\ db.row[loaded[r][i].record] # "purged"
    /\ Goto(r, "fetched")
    /\ UNCHANGED <<tables, blobs, stored, locals, feed, past>>

(* The file of the record it fetched is read, and then pushed, whatever has
   become of either. *)
RetryRead(r) ==
    /\ pc[r] = "fetched"
    /\ \E i \in LogIds : IsNext(r, i) /\ loaded[r][i].record \in blobs
    /\ Goto(r, "read")
    /\ UNCHANGED <<tables, blobs, stored, locals, feed, past>>

(* The file is gone: the whole retry fails. *)
RetryNoBlob(r) ==
    /\ pc[r] = "fetched"
    /\ \E i \in LogIds : IsNext(r, i) /\ loaded[r][i].record \notin blobs
    /\ Rollback(r)
    /\ Leave(r, "failed")
    /\ UNCHANGED <<blobs, stored, rec, feed, past>>

Retried(log, answered) == [log EXCEPT !.retries = @ + 1, !.status = Outcome(answered)]

RetryPush(r) ==
    /\ pc[r] = "read"
    /\ \E i \in LogIds, received, answered \in BOOLEAN :
          /\ IsNext(r, i)
          /\ Deliver(i[2], loaded[r][i].record, received, answered)
          /\ view' = [view EXCEPT ![r] = WithRow(@, i, Retried(loaded[r][i], answered))]
          /\ todo' = [todo EXCEPT ![r] = @ \ {i}]
    /\ Goto(r, "retrying")
    /\ UNCHANGED <<tables, blobs, rec, loaded, peers, feed, past>>

(* An UPDATE sets what the session changed since it loaded the row. *)
Updated(log, old, new) ==
    [log EXCEPT !.status = IF new.status = old.status THEN @ ELSE new.status,
                !.retries = IF new.retries = old.retries THEN @ ELSE new.retries]

(* Mutation: what a retry concluded is merged, a row that is gone brought back. *)
RetryFlushMerges(r) ==
    /\ pc[r] = "retrying" /\ todo[r] = {}
    /\ writer = NoRequest
    /\ Write(r, WithDeadLetters([db EXCEPT !.logs = view[r] @@ @], view[r]))
    /\ Goto(r, "synced")
    /\ UNCHANGED <<blobs, stored, locals, feed, past>>

(* The flush of the rows retried, then their dead letters. *)
RetryFlush(r) ==
    /\ pc[r] = "retrying"
    /\ todo[r] = {}
    /\ DOMAIN view[r] \subseteq DOMAIN db.logs
    /\ IF view[r] = NoLogs
         THEN UNCHANGED tables
         ELSE /\ writer = NoRequest
              /\ Write(r, WithDeadLetters(
                    [db EXCEPT !.logs = [i \in DOMAIN @ |->
                        IF i \in DOMAIN view[r] THEN Updated(@[i], loaded[r][i], view[r][i])
                                                ELSE @[i]]],
                    view[r]))
    /\ Goto(r, "synced")
    /\ UNCHANGED <<blobs, stored, locals, feed, past>>

(* One of them is gone: a dead letter of another retry, or reset meanwhile. *)
RetryStale(r) ==
    /\ pc[r] = "retrying"
    /\ todo[r] = {}
    /\ ~(DOMAIN view[r] \subseteq DOMAIN db.logs)
    /\ writer = NoRequest
    /\ Rollback(r)
    /\ Leave(r, "failed")
    /\ UNCHANGED <<blobs, stored, rec, feed, past>>

-----------------------------------------------------------------------------
(* reset_sync, health_check_nodes, register_node and unregister_node *)

ResetSelect(r) ==
    /\ pc[r] = "idle"
    /\ \E n \in Nodes : todo' = [todo EXCEPT ![r] = {i \in DOMAIN db.logs : i[2] = n}]
    /\ Goto(r, "resetting")
    /\ UNCHANGED <<tables, blobs, stored, rec, loaded, view, peers, feed, past>>

ResetDelete(r) ==
    /\ pc[r] = "resetting"
    /\ IF todo[r] = {}
         THEN UNCHANGED tables
         ELSE /\ writer = NoRequest
              /\ Write(r, [db EXCEPT !.logs = Restrict(@, DOMAIN @ \ todo[r])])
    /\ Goto(r, "synced")
    /\ UNCHANGED <<blobs, stored, locals, feed, past>>

Known(nodes) == {n \in Nodes : nodes[n] \in {"active", "unhealthy"}}

HealthSelect(r) ==
    /\ pc[r] = "idle"
    /\ Known(db.node) # {}
    /\ peers' = [peers EXCEPT ![r] = db.node]
    /\ Goto(r, "pinging")
    /\ UNCHANGED <<tables, blobs, stored, rec, todo, loaded, view, feed, past>>

(* The pings, whose outcome is anything, and the flush of the statuses. *)
HealthFlush(r) ==
    /\ pc[r] = "pinging"
    /\ writer = NoRequest
    /\ Known(peers[r]) \subseteq Known(db.node)
    /\ \E up \in SUBSET Known(peers[r]) :
          LET status(n) == IF n \in up THEN "active" ELSE "unhealthy"
          IN  Write(r, [db EXCEPT !.node = [n \in Nodes |->
                    IF n \in Known(peers[r]) /\ status(n) # peers[r][n] THEN status(n) ELSE @[n]]])
    /\ Goto(r, "synced")
    /\ UNCHANGED <<blobs, stored, locals, feed, past>>

(* A node was unregistered meanwhile. *)
HealthStale(r) ==
    /\ pc[r] = "pinging"
    /\ writer = NoRequest
    /\ ~(Known(peers[r]) \subseteq Known(db.node))
    /\ Rollback(r)
    /\ Leave(r, "failed")
    /\ UNCHANGED <<blobs, stored, rec, feed, past>>

RegisterNode(n) ==
    /\ db.node[n] = "unknown"
    /\ Autocommit([db EXCEPT !.node[n] = "active"])
    /\ UNCHANGED <<blobs, stored, pc, locals, feed, past>>

(* Its log rows that are pending or sent would be failed; what is committed
   is acked or failed already. *)
UnregisterNode(n) ==
    /\ n \in Known(db.node)
    /\ Autocommit([db EXCEPT !.node[n] = "gone"])
    /\ UNCHANGED <<blobs, stored, pc, locals, feed, past>>

(* purge_soft_deleted of one record. *)
PurgeRecord(x) ==
    /\ db.row[x] = "deleted"
    /\ Autocommit([db EXCEPT !.row[x] = "purged"])
    /\ blobs' = blobs \ {x}
    /\ UNCHANGED <<stored, pc, locals, feed, past>>

-----------------------------------------------------------------------------
Commit(r) ==
    /\ pc[r] = "synced"
    /\ IF writer = r
         THEN /\ db' = draft /\ writer' = NoRequest /\ UNCHANGED draft
              /\ posted' = posted \cup DOMAIN draft.logs \cup draft.dead
              /\ cleared' = cleared \cup todo[r]     \* what a reset deleted
              /\ UNCHANGED contested
         ELSE UNCHANGED <<tables, past>>
    /\ Leave(r, "done")
    /\ UNCHANGED <<blobs, stored, rec, feed>>

(* Mutation: the file of a write that fails is removed with its row. *)
FailUnlinks(r) ==
    /\ pc[r] \in Active
    /\ Rollback(r)
    /\ Leave(r, "failed")
    /\ blobs' = IF writer = r THEN blobs \ {rec[r]} ELSE blobs
    /\ UNCHANGED <<stored, rec, feed, past>>

(* A busy lock, or an error of what follows in the request. *)
Fail(r) ==
    /\ pc[r] \in Active
    /\ Rollback(r)
    /\ Leave(r, "failed")
    /\ UNCHANGED <<blobs, stored, rec, feed, past>>

(* The primary dies and is restarted. *)
Crash ==
    /\ \E r \in Requests : pc[r] \in Active
    /\ draft' = db /\ writer' = NoRequest /\ UNCHANGED db
    /\ pc' = [r \in Requests |-> IF pc[r] \in Active THEN "lost" ELSE pc[r]]
    /\ todo' = [r \in Requests |-> {}] /\ peers' = [r \in Requests |-> NoPeers]
    /\ loaded' = [r \in Requests |-> NoLogs] /\ view' = loaded'
    /\ UNCHANGED <<blobs, stored, rec, feed, past>>

(* Mutation: only what the standby has acked is in the feed. *)
AckedChangesSince(since) == RestrictValues(db.logs, LAMBDA log : Acked(log) /\ log.seq > since)

(* get_changes_since, below its limit. *)
ChangesSince(since) == RestrictValues(db.logs, LAMBDA log : log.seq > since)

(* A standby fetches the changes after the last sequence number it has. *)
Pull(n) ==
    LET new == ChangesSince(cursor[n])
    IN  /\ new # NoLogs
        /\ cursor' = [cursor EXCEPT ![n] = HighestSeq(new)]
        /\ pulled' = [pulled EXCEPT ![n] = @ \cup DOMAIN new]
        /\ UNCHANGED <<tables, blobs, stored, pc, locals, past>>

Next ==
    \/ Crash
    \/ \E n \in Nodes : RegisterNode(n) \/ UnregisterNode(n) \/ Pull(n)
    \/ \E x \in Records : PurgeRecord(x)
    \/ \E r \in Requests :
          \/ PutRecord(r)    \/ DeleteRecord(r)
          \/ SyncNobody(r)   \/ SyncNoBlob(r)  \/ SyncUnnumbered(r)
          \/ SyncStart(r)    \/ Push(r)        \/ SyncEnd(r)
          \/ RetrySelect(r)  \/ RetryNodes(r)  \/ RetrySkip(r)  \/ RetryMissing(r)
          \/ RetryFetch(r)   \/ RetryNoBlob(r) \/ RetryRead(r)  \/ RetryPush(r)
          \/ RetryFlush(r)   \/ RetryStale(r)
          \/ ResetSelect(r)  \/ ResetDelete(r)
          \/ HealthSelect(r) \/ HealthFlush(r) \/ HealthStale(r)
          \/ Commit(r)       \/ Fail(r)

Spec == Init /\ [][Next]_vars

-----------------------------------------------------------------------------
(* Properties. *)

TablesOK(tabs) ==
    /\ tabs.row \in [Records -> RowStatus]
    /\ tabs.node \in [Nodes -> NodeStatus]
    /\ DOMAIN tabs.logs \subseteq LogIds
    /\ \A i \in DOMAIN tabs.logs : tabs.logs[i] \in Log
    /\ tabs.dead \subseteq LogIds

(* Every variable holds a value of its kind; the tables are as committed when
   nobody holds the write lock, and only a request under way holds it. *)
TypeOK ==
    /\ TablesOK(db) /\ TablesOK(draft)
    /\ writer \in Requests \cup {NoRequest}
    /\ writer = NoRequest => draft = db
    /\ writer # NoRequest => pc[writer] \in Active
    /\ blobs \subseteq Records
    /\ stored \in [Nodes -> SUBSET Records]
    /\ pc \in [Requests -> {"idle"} \cup Active \cup Ended]
    /\ rec \in [Requests -> Records]
    /\ todo \in [Requests -> SUBSET LogIds]
    /\ \A r \in Requests : DOMAIN view[r] \subseteq DOMAIN loaded[r]
    /\ \A r \in Requests : \A i \in DOMAIN loaded[r] : loaded[r][i] \in Log
    /\ \A r \in Requests : \A i \in DOMAIN view[r] : view[r][i] \in Log
    /\ peers \in [Requests -> [Nodes -> NodeStatus]]
    /\ cursor \in [Nodes -> Nat]
    /\ pulled \in [Nodes -> SUBSET LogIds]

(* No two rows of the log have the same sequence number: the numbers a sync
   gives its rows are above those of every other. *)
SeqUnique ==
    \A i, j \in DOMAIN db.logs : db.logs[i].seq = db.logs[j].seq => i = j

(* What the log says a standby has acked, the standby has received. *)
AckedStored ==
    \A i \in DOMAIN db.logs : Acked(db.logs[i]) => db.logs[i].record \in stored[i[2]]

(* A standby is ahead of the primary, with a record that has no committed row
   there, only by a put that is under way or was not committed, and the file
   of that put is still on the primary. *)
AheadOfPut(x) ==
    \E r \in Requests : rec[r] = x /\ pc[r] \in {"pushing", "synced", "failed", "lost"}
AheadIsOrphaned ==
    \A n \in Nodes : \A x \in stored[n] :
        db.row[x] = "absent" => x \in blobs /\ AheadOfPut(x)

(* A row that has used up its retries is a dead letter, and not in the log
   where no retry would select it again. *)
ExhaustedAreDead ==
    \A i \in DOMAIN db.logs : db.logs[i].status = "failed" => db.logs[i].retries < RetryMax

(* No change is lost silently: the standby has received the blob, or a retry
   would still select the row, or it is a dead letter, or reset_sync removed
   it. *)
NoSilentLoss ==
    \A i \in posted :
        \/ rec[i[1]] \in stored[i[2]]
        \/ i \in db.dead
        \/ i \in cleared
        \/ i \in DOMAIN db.logs /\ db.logs[i].status = "failed"

(* The fate of a row of the log, here or gone. *)
Fate(i) ==
    IF i \notin posted THEN "none" ELSE
    IF i \in DOMAIN db.logs
      THEN IF Acked(db.logs[i]) THEN "acked" ELSE IF Exhausted(db.logs[i]) THEN "stuck" ELSE "owed"
      ELSE IF i \in db.dead THEN "dead" ELSE IF i \in cleared THEN "reset" ELSE "lost"

Arrived == {i \in LogIds : pc[i[1]] # "idle" /\ rec[i[1]] \in stored[i[2]]}

(* The log keeps the promise of Delivery.  A retry that concludes late brings
   back no row that is gone, makes an acked change owed again by none, and
   leaves no row that no retry would select.  It may take an ack back in one
   way, which the code does (_process_dead_letter): where two retries had the
   row in hand at a time, the one that gives up files it as a dead letter
   although the other was acked. *)
Promise == INSTANCE Delivery WITH
    Changes <- LogIds, fate <- [i \in LogIds |-> Fate(i)], received <- Arrived,
    contested <- contested
ImplementsDelivery == Promise!Spec

(* A standby that follows the log by sequence number has seen every row up to
   its cursor, unless a row was ever taken out of the log. *)
FeedOrdered ==
    db.dead = {} /\ cleared = {} =>
        \A n \in Nodes : \A i \in DOMAIN db.logs :
            db.logs[i].seq <= cursor[n] => i \in pulled[n]

(* A standby that follows the log by sequence number misses no row. *)
FeedComplete ==
    \A n \in Nodes : \A i \in DOMAIN db.logs :
        db.logs[i].seq <= cursor[n] => i \in pulled[n]

(* A write that finds an active standby and the blob gets its log rows. *)
SyncNumbers == \A r \in Requests : pc[r] # "unnumbered"
==============================================================================
