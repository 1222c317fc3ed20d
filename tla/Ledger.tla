------------------------------- MODULE Ledger -------------------------------
(***************************************************************************)
(* The audit ledger of a CryptoDB server: concurrent requests that append  *)
(* to the hash chain in memory and persist it with engine.py's             *)
(* _persist_audit, the database transaction of each request, the engine    *)
(* that unlocking the master key installs, and crashes of the process.     *)
(*                                                                         *)
(* One asyncio process serves the requests, so what runs between two       *)
(* awaits is atomic and one action here.  Every request has a session of   *)
(* its own; a SELECT outside a transaction sees what is committed; the     *)
(* first INSERT, UPDATE or DELETE takes SQLite's only write lock, which    *)
(* commit or rollback releases.  The commit is the route's last step.      *)
(*                                                                         *)
(* get_engine() runs when the handler starts, so a request keeps the       *)
(* engine, and the chain, it started with even if another one is installed *)
(* meanwhile.  HotUnlock says whether an engine may be installed while     *)
(* another is in use; the code never prevents it.                          *)
(***************************************************************************)
EXTENDS HashChain

CONSTANTS
    NoRequest,      \* not a request: nobody holds the write lock
    Interval,       \* settings.ledger_checkpoint_interval
    MaxPurge,       \* bound: records one purge finds
    MaxEngines,     \* bound: engines installed, over all restarts
    HotUnlock       \* may unlock, unseal, combine or rotate run on a live server

ASSUME LedgerAssumption ==
    /\ NoRequest \notin Requests
    /\ Interval \in Nat
    /\ MaxPurge \in Nat
    /\ MaxEngines \in Nat
    /\ HotUnlock \in BOOLEAN

VARIABLES
    (* committed tables *)
    auditLog,       \* entry_number -> row
    checkpoints,    \* checkpoint_number -> last_entry_hash
    (* the one open write transaction *)
    writer,         \* the request that holds the write lock
    inserted,       \* its audit rows not committed yet
    signed,         \* its checkpoint rows not committed yet
    (* the server process *)
    engine,         \* the current _engine, 0 when none is loaded
    installed,      \* engines installed so far
    chain,          \* the _chain of each engine
    unlocking,      \* "idle", or "loaded" between load_chain and the assignment
    loadedChain,    \* what load_chain returned
    (* the requests *)
    pc, kind,
    eng,            \* the engine get_engine() returned to the request
    ops,            \* operations the request has to record
    step,           \* operations it has recorded in the chain
    snap,           \* its copy of the chain in _persist_audit
    seen            \* max(entry_number) as it read it

db      == <<auditLog, checkpoints, writer, inserted, signed>>
server  == <<engine, installed, chain, unlocking, loadedChain>>
locals  == <<kind, eng, ops, step, snap, seen>>
vars    == <<db, server, pc, locals>>

(* A write is a put or a delete: row DML, then one entry.  A purge does that
   once per record it found.  A read appends without any DML before it. *)
Kinds   == {"read", "write", "purge"}
Active  == {"begun", "locked", "appended", "numbered", "flushed", "signed"}
Ended   == {"done", "failed", "lost"}
Engines == 1 .. MaxEngines
Empty   == << >>        \* the function with no element: an empty table

Merge(old, new) ==
    [n \in DOMAIN old \cup DOMAIN new |-> IF n \in DOMAIN old THEN old[n] ELSE new[n]]

Init ==
    /\ auditLog = Empty /\ checkpoints = Empty
    /\ writer = NoRequest /\ inserted = Empty /\ signed = Empty
    /\ engine = 0 /\ installed = 0
    /\ chain = [g \in Engines |-> EmptyChain]
    /\ unlocking = "idle" /\ loadedChain = EmptyChain
    /\ pc = [r \in Requests |-> "idle"]
    /\ kind = [r \in Requests |-> "read"]
    /\ eng = [r \in Requests |-> 0]
    /\ ops = [r \in Requests |-> 0]
    /\ step = [r \in Requests |-> 0]
    /\ snap = [r \in Requests |-> << >>]
    /\ seen = [r \in Requests |-> 0]

-----------------------------------------------------------------------------
(* The routes that install an engine: load_chain awaits the rows, then the
   module global is replaced in one synchronous stretch. *)

LoadChain ==
    /\ unlocking = "idle"
    /\ installed < MaxEngines
    /\ HotUnlock \/ engine = 0
    /\ unlocking' = "loaded"
    /\ loadedChain' = LoadedChain(auditLog)
    /\ UNCHANGED <<db, engine, installed, chain, pc, locals>>

InstallEngine ==
    /\ unlocking = "loaded"
    /\ installed' = installed + 1
    /\ engine' = installed + 1
    /\ chain' = [chain EXCEPT ![installed + 1] = loadedChain]
    /\ unlocking' = "idle"
    /\ loadedChain' = EmptyChain
    /\ UNCHANGED <<db, pc, locals>>

-----------------------------------------------------------------------------
(* One request. *)

(* The handler starts: get_engine(), the checks, the rows a purge selects. *)
Begin(r) ==
    /\ pc[r] = "idle"
    /\ engine # 0
    /\ \E k \in Kinds :
          /\ kind' = [kind EXCEPT ![r] = k]
          /\ \E n \in IF k = "purge" THEN 0 .. MaxPurge ELSE {1} :
                ops' = [ops EXCEPT ![r] = n]
    /\ eng' = [eng EXCEPT ![r] = engine]
    /\ pc' = [pc EXCEPT ![r] = "begun"]
    /\ UNCHANGED <<db, server, step, snap, seen>>

MayWrite(r) == writer \in {NoRequest, r}

(* Mutation: the row is only added to the session, its flush is forgotten. *)
WriteRowUnflushed(r) ==
    /\ pc[r] = "begun"
    /\ kind[r] # "read"
    /\ step[r] < ops[r]
    /\ pc' = [pc EXCEPT ![r] = "locked"]
    /\ UNCHANGED <<db, server, locals>>

(* The record row is inserted, updated or deleted: the lock is taken here
   unless the request already holds it. *)
WriteRow(r) ==
    /\ pc[r] = "begun"
    /\ kind[r] # "read"
    /\ step[r] < ops[r]
    /\ MayWrite(r)
    /\ writer' = r
    /\ pc' = [pc EXCEPT ![r] = "locked"]
    /\ UNCHANGED <<auditLog, checkpoints, inserted, signed, server, locals>>

(* chain.append, and, after the last one, the copy of the entries that
   _persist_audit takes before its first await. *)
AppendAudit(r) ==
    /\ pc[r] = IF kind[r] = "read" THEN "begun" ELSE "locked"
    /\ LET c == AppendEntry(chain[eng[r]], r, step[r] + 1)
       IN  /\ chain' = [chain EXCEPT ![eng[r]] = c]
           /\ IF step[r] + 1 = ops[r]
                THEN /\ pc' = [pc EXCEPT ![r] = "appended"]
                     /\ snap' = [snap EXCEPT ![r] = c.entries]
                ELSE /\ pc' = [pc EXCEPT ![r] = "begun"]
                     /\ UNCHANGED snap
    /\ step' = [step EXCEPT ![r] = @ + 1]
    /\ UNCHANGED <<db, engine, installed, unlocking, loadedChain, kind, eng, ops, seen>>

(* A purge that finds nothing still persists what the chain has. *)
PurgeNothing(r) ==
    /\ pc[r] = "begun"
    /\ ops[r] = 0
    /\ pc' = [pc EXCEPT ![r] = "appended"]
    /\ snap' = [snap EXCEPT ![r] = chain[eng[r]].entries]
    /\ UNCHANGED <<db, server, kind, eng, ops, step, seen>>

(* The await of select(max(entry_number)): what is committed, the request
   having inserted no audit row yet. *)
ReadMax(r) ==
    /\ pc[r] = "appended"
    /\ seen' = [seen EXCEPT ![r] = HighestNumber(auditLog)]
    /\ pc' = [pc EXCEPT ![r] = "numbered"]
    /\ UNCHANGED <<db, server, kind, eng, ops, step, snap>>

(* Mutations: only the request's own entry is new; the first new one is not. *)
NewNumbersOwn(r)  == {n \in {Len(snap[r])} : n > seen[r]}
NewNumbersSkip(r) == {n \in {snap[r][i].num : i \in DOMAIN snap[r]} : n > seen[r] + 1}

(* new_entries, by entry_number, and the entry of the copy with a number *)
NewNumbers(r) == {n \in {snap[r][i].num : i \in DOMAIN snap[r]} : n > seen[r]}
CopyOf(r, n)  == snap[r][CHOOSE i \in DOMAIN snap[r] : snap[r][i].num = n]
Collides(r)   == NewNumbers(r) \cap DOMAIN auditLog # {}

(* All entries of the copy are persisted already: the flush does nothing. *)
FlushNothing(r) ==
    /\ pc[r] = "numbered"
    /\ NewNumbers(r) = {}
    /\ pc' = [pc EXCEPT ![r] = "flushed"]
    /\ UNCHANGED <<db, server, locals>>

(* The INSERTs of the flush, which wait for the lock. *)
FlushAudit(r) ==
    /\ pc[r] = "numbered"
    /\ NewNumbers(r) # {}
    /\ MayWrite(r)
    /\ ~Collides(r)
    /\ writer' = r
    /\ inserted' = [n \in NewNumbers(r) |-> RowOf(CopyOf(r, n))]
    /\ pc' = [pc EXCEPT ![r] = "flushed"]
    /\ UNCHANGED <<auditLog, checkpoints, signed, server, locals>>

(* The session is closed without a commit. *)
Rollback(r) ==
    /\ writer' = IF writer = r THEN NoRequest ELSE writer
    /\ inserted' = IF writer = r THEN Empty ELSE inserted
    /\ signed' = IF writer = r THEN Empty ELSE signed
    /\ UNCHANGED <<auditLog, checkpoints>>

(* Mutations: the IntegrityError is swallowed; the rows are inserted under the
   next free numbers instead. *)
RejectFlushSwallowed(r) ==
    /\ pc[r] = "numbered"
    /\ MayWrite(r)
    /\ Collides(r)
    /\ pc' = [pc EXCEPT ![r] = "flushed"]
    /\ UNCHANGED <<db, server, locals>>
RejectFlushRenumbered(r) ==
    /\ pc[r] = "numbered"
    /\ MayWrite(r)
    /\ Collides(r)
    /\ writer' = r
    /\ LET shift == HighestNumber(auditLog) - seen[r]
       IN  inserted' = [n \in {m + shift : m \in NewNumbers(r)} |->
                           [RowOf(CopyOf(r, n - shift)) EXCEPT !.num = n]]
    /\ pc' = [pc EXCEPT ![r] = "flushed"]
    /\ UNCHANGED <<auditLog, checkpoints, signed, server, locals>>

(* entry_number is UNIQUE: someone persisted one of the entries meanwhile. *)
RejectFlush(r) ==
    /\ pc[r] = "numbered"
    /\ MayWrite(r)
    /\ Collides(r)
    /\ Rollback(r)
    /\ pc' = [pc EXCEPT ![r] = "failed"]
    /\ UNCHANGED <<server, locals>>

CheckpointDue(r) ==
    /\ Interval > 0
    /\ writer = r
    /\ inserted # Empty
    /\ Len(snap[r]) % Interval = 0

(* Mutation: the checkpoint is committed in a session of its own. *)
SignCheckpointApart(r) ==
    /\ pc[r] = "flushed"
    /\ CheckpointDue(r)
    /\ checkpoints' =
          Merge(checkpoints, [n \in {Len(snap[r]) \div Interval} |-> chain[eng[r]].last])
    /\ pc' = [pc EXCEPT ![r] = "signed"]
    /\ UNCHANGED <<auditLog, writer, inserted, signed, server, locals>>

(* create_checkpoint signs the _last_hash the chain has now, after the await
   of the flush; the number comes from the copy taken before it. *)
SignCheckpoint(r) ==
    /\ pc[r] = "flushed"
    /\ CheckpointDue(r)
    /\ LET number == Len(snap[r]) \div Interval
       IN  /\ number \notin DOMAIN checkpoints
           /\ signed' = [n \in {number} |-> chain[eng[r]].last]
    /\ pc' = [pc EXCEPT ![r] = "signed"]
    /\ UNCHANGED <<auditLog, checkpoints, writer, inserted, server, locals>>

MayCommit(r) == pc[r] = "signed" \/ (pc[r] = "flushed" /\ ~CheckpointDue(r))

(* Mutations: the route of a read has no commit; the lock outlives a commit. *)
CommitWritesOnly(r) ==
    /\ MayCommit(r)
    /\ IF writer = r
         THEN /\ auditLog' = IF kind[r] = "read" THEN auditLog ELSE Merge(auditLog, inserted)
              /\ checkpoints' = Merge(checkpoints, signed)
              /\ writer' = NoRequest
              /\ inserted' = Empty
              /\ signed' = Empty
         ELSE UNCHANGED db
    /\ pc' = [pc EXCEPT ![r] = "done"]
    /\ UNCHANGED <<server, locals>>
CommitKeepsLock(r) ==
    /\ MayCommit(r)
    /\ auditLog' = IF writer = r THEN Merge(auditLog, inserted) ELSE auditLog
    /\ checkpoints' = IF writer = r THEN Merge(checkpoints, signed) ELSE checkpoints
    /\ pc' = [pc EXCEPT ![r] = "done"]
    /\ UNCHANGED <<writer, inserted, signed, server, locals>>

(* The route's session.commit(), then the answer to the client. *)
Commit(r) ==
    /\ MayCommit(r)
    /\ IF writer = r
         THEN /\ auditLog' = Merge(auditLog, inserted)
              /\ checkpoints' = Merge(checkpoints, signed)
              /\ writer' = NoRequest
              /\ inserted' = Empty
              /\ signed' = Empty
         ELSE UNCHANGED db
    /\ pc' = [pc EXCEPT ![r] = "done"]
    /\ UNCHANGED <<server, locals>>

(* An exception anywhere after the handler started: a record that is gone, a
   blob that cannot be read or written, replication, a lock that stays busy
   past its timeout.  The entries appended in memory stay there. *)
Fail(r) ==
    /\ pc[r] \in Active
    /\ Rollback(r)
    /\ pc' = [pc EXCEPT ![r] = "failed"]
    /\ UNCHANGED <<server, locals>>

(* The process dies and is started again: it forgets everything it has in
   memory, and the open transaction is rolled back. *)
Crash ==
    /\ engine # 0
    /\ writer' = NoRequest /\ inserted' = Empty /\ signed' = Empty
    /\ engine' = 0
    /\ chain' = [g \in Engines |-> EmptyChain]
    /\ unlocking' = "idle" /\ loadedChain' = EmptyChain
    /\ pc' = [r \in Requests |-> IF pc[r] \in Active THEN "lost" ELSE pc[r]]
    /\ UNCHANGED <<auditLog, checkpoints, installed, locals>>

-----------------------------------------------------------------------------
Progress(r) ==
    \/ WriteRow(r)     \/ AppendAudit(r)  \/ PurgeNothing(r)
    \/ ReadMax(r)      \/ FlushNothing(r) \/ FlushAudit(r)
    \/ RejectFlush(r)  \/ SignCheckpoint(r) \/ Commit(r)

Next ==
    \/ LoadChain
    \/ InstallEngine
    \/ Crash
    \/ \E r \in Requests : Begin(r) \/ Progress(r) \/ Fail(r)

Spec == Init /\ [][Next]_vars

(* The event loop runs every task that can go on: a handler never stops
   between two awaits, and a wait for the lock ends when the lock is free. *)
FairSpec == Spec /\ \A r \in Requests : WF_vars(Progress(r))

-----------------------------------------------------------------------------
(* Properties. *)

(* Every variable holds a value of its kind; only a request that is under way
   holds the write lock, and only its holder has rows not committed yet. *)
TypeOK ==
    /\ DOMAIN auditLog \subseteq Nat \ {0}
    /\ \A n \in DOMAIN auditLog : auditLog[n] \in Entry
    /\ DOMAIN checkpoints \subseteq Nat
    /\ \A n \in DOMAIN checkpoints : checkpoints[n] \in Digest
    /\ writer \in Requests \cup {NoRequest}
    /\ DOMAIN inserted \subseteq Nat \ {0}
    /\ \A n \in DOMAIN inserted : inserted[n] \in Entry
    /\ DOMAIN signed \subseteq Nat
    /\ \A n \in DOMAIN signed : signed[n] \in Digest
    /\ writer # NoRequest => pc[writer] \in Active
    /\ writer = NoRequest => DOMAIN inserted = {} /\ DOMAIN signed = {}
    /\ installed \in 0 .. MaxEngines
    /\ engine \in 0 .. installed
    /\ chain \in [Engines -> Chain]
    /\ unlocking \in {"idle", "loaded"}
    /\ loadedChain \in Chain
    /\ pc \in [Requests -> {"idle"} \cup Active \cup Ended]
    /\ kind \in [Requests -> Kinds]
    /\ eng \in [Requests -> 0 .. MaxEngines]
    /\ ops \in [Requests -> Nat]
    /\ step \in [Requests -> Nat]
    /\ snap \in [Requests -> Seq(Entry)]
    /\ seen \in [Requests -> Nat]

(* The persisted ledger has no hole and no duplicate: its entry numbers are
   1 .. n.  _persist_audit inserts what it believes to be new from a maximum
   it read before the insert, while other requests commit. *)
LogContiguous ==
    /\ DOMAIN auditLog = 1 .. HighestNumber(auditLog)
    /\ \A n \in DOMAIN auditLog : auditLog[n].num = n

(* Each persisted row is linked to the row before it by previous_hash, and
   its hash is the one computed when it was appended, with its UTC offset. *)
LogLinked ==
    \A n \in DOMAIN auditLog :
        /\ auditLog[n].prev = IF n = 1 THEN GenesisHash ELSE auditLog[n - 1].hash
        /\ auditLog[n].hash = ComputeHash([auditLog[n] EXCEPT !.stamp = "aware"])

(* What is persisted is a prefix of the chain the server extends: the memory
   and the table never disagree on an entry. *)
PersistedIsPrefix ==
    engine # 0 =>
        \A n \in DOMAIN auditLog :
            /\ n \in DOMAIN chain[engine].entries
            /\ RowOf(chain[engine].entries[n]) = auditLog[n]

(* Every operation of a request that was answered is in the persisted ledger:
   "every create, read, and delete operation is recorded". *)
AuditComplete ==
    \A r \in Requests : pc[r] = "done" =>
        \A k \in 1 .. ops[r] :
            \E n \in DOMAIN auditLog : auditLog[n].req = r /\ auditLog[n].op = k

(* No operation is recorded twice, although every request that runs persists
   the entries of the others. *)
AuditOnce ==
    \A m, n \in DOMAIN auditLog :
        auditLog[m].req = auditLog[n].req /\ auditLog[m].op = auditLog[n].op => m = n

(* A put, a delete or a purge that found something never runs into the UNIQUE
   entry_number, and so never fails because of a concurrent request: the
   maximum it read is still the maximum when it inserts.  Only a read may. *)
WritesNeverCollide ==
    \A r \in Requests :
        kind[r] # "read" /\ ops[r] > 0 /\ pc[r] = "numbered" =>
            seen[r] = HighestNumber(auditLog)

(* A committed checkpoint k comes with the k * Interval entries it stands for,
   and never signs one of the earlier ones. *)
CheckpointsSound ==
    \A k \in DOMAIN checkpoints :
        /\ k * Interval <= HighestNumber(auditLog)
        /\ \A n \in DOMAIN auditLog : auditLog[n].hash = checkpoints[k] => n >= k * Interval

(* verify() on the running server never reports a broken link, and blames the
   hash of no entry the server appended itself. *)
OwnEntriesVerify ==
    engine # 0 =>
        /\ BadLinks(chain[engine]) = {}
        /\ \A i \in BadHashes(chain[engine]) : chain[engine].entries[i].stamp = "naive"

(* verify() reports nothing on a ledger nobody tampered with. *)
UntamperedLedgerVerifies == engine # 0 => Verify(chain[engine]) = {}

(* When no request is under way, the hash a checkpoint signs is the hash of a
   persisted entry, so that the ledger can be checked against it. *)
CheckpointAnchored ==
    (engine # 0 /\ \A r \in Requests : pc[r] \notin Active) =>
        \A k \in DOMAIN checkpoints :
            \E n \in DOMAIN auditLog : auditLog[n].hash = checkpoints[k]

(* Every request that starts ends: with its commit, an error or the loss of
   the process.  Whoever waits for the write lock gets it or gives up. *)
RequestsEnd == \A r \in Requests : pc[r] \in Active ~> pc[r] \in Ended

(* The ledger a reader of the table sees is an append-only audit trail. *)
Trail == INSTANCE AuditTrail WITH
    trail <- [n \in DOMAIN auditLog |-> <<auditLog[n].req, auditLog[n].op>>],
    acked <- {o \in Requests \X (1 .. MaxPurge + 1) :
                 pc[o[1]] = "done" /\ o[2] <= ops[o[1]]}
ImplementsAuditTrail == Trail!Spec
==============================================================================
