# CryptoDB, specified and verified

TLA+ models of the CryptoDB server, the TLC runs that check them on small
instances, and TLAPS proofs of what holds for every instance. Paths are
relative to the repository; `engine.py` and the like are under
`src/src/cryptodb/`.

## The system

CryptoDB is a FastAPI server that stores encrypted records: a row per record in
SQLite (through SQLAlchemy's asyncio sessions), an encrypted blob per record on
disk, and a hash-chained audit ledger. One asyncio process serves every
request, so code between two `await`s is atomic, and the interleavings are those
of whole stretches between awaits. Each request has its own database session
(`db/connection.py:49`): a SELECT outside a transaction sees what is committed,
the first INSERT, UPDATE or DELETE takes SQLite's only write lock, others that
want it wait and give up after a timeout, and a session closed without
`commit()` is rolled back. The route, not the engine, commits, as its last step.
Files and module globals are not transactional. Most of what can go wrong comes
from these three facts. One process is an assumption: `serve` of the command line
offers `--workers`, and with several of them each would have its own chain,
challenges, rate windows and `settings`; the models are of one, the default.

### Inventory

| Component | State | Operations | Correct when |
|---|---|---|---|
| Hash chain (`ledger/chain.py`, `verify.py`) | `_entries`, `_last_hash` of each engine | `append`, `verify`, `create_checkpoint`, `load_chain` | linked; what the server appended verifies |
| Audit persistence (`engine.py:521`) | `audit_log`, `ledger_checkpoints` | `_persist_audit`, called by every put, get, delete and purge | every answered operation recorded once, numbered without holes; checkpoints stand for what they say |
| Record engine (`engine.py`, `storage/blob.py`) | `records` rows, blob files | put, get, delete (secure or not), purge; list, search, scan | rows and files agree; deleted stays deleted; quota |
| Replication (`replication/engine.py`) | `replication_logs`, `replication_dead_letters`, `replication_nodes`; the standbys | `sync_record`, `retry_pending`, `reset_sync`, health checks, `get_changes_since` | no change lost silently; acked means received; retries bounded; the pull feed ordered |
| Key store (`crypto/keystore.py`) | `<id>.enc` and `<id>.salt` files, cached key | create, load, rotate | a key that was answered can be loaded again |
| Key rotation (`crypto/rotation.py`, `api/main.py:32`) | `rotation_state.json`, `settings.master_key_id`, keys in the engine, `encrypted_dek` and `master_key_id` of rows | configure, `run_auto_rotation`, `rotate_all_records` | every live record can be unwrapped by a key the server has, after restarts too |
| Sessions (`auth/session.py`, `api/dependencies.py`) | `sessions`, `token_blacklist`; tokens at clients | login, refresh, logout, check of a token | a refresh token gives one pair; a revoked token does not work |
| MFA (`auth/mfa.py`, `auth/hardware.py`) | challenges in memory, credentials | begin, finish; seal and unseal a key | a challenge is answered once |
| Access control (`auth/acl.py`, `rbac.py`, `users.py`) | `record_acls`, roles, active flags | register, set role, disable, grant, revoke, `can_access` | granting more never denies; a disabled user keeps nothing a role permits |
| Rate limiter (`api/rate_limit.py`) | request times per key | `is_allowed` | at most the limit in any window |
| Geofencing (`auth/geo.py`) | none | `is_allowed` | a refusal like the others |
| Recovery (`crypto/recovery.py`) | none | split and combine over GF(2^8) | any threshold of shares gives the secret back, fewer tell nothing |
| SDK, CLI (`sdk/client.py`, `cli/main.py`) | the token a client keeps | one method or command per route | see sessions and access control |
| Routes and application (`api/`) | `_engine`, `_repl_engine` globals | unlock, unseal, combine, rotate replace them | see the ledger |
| Export, anomaly, compliance, ciphers, HE, search index, compression, shredding, webhook, metrics | none of their own, or nothing another part reads | pure functions, reports | outside the models, see the end |

How they interact. A route calls the engine; the engine changes a row and a
blob, appends to the chain of *its* engine, persists the chain's new entries
(its own and those of other requests), and with replication enabled ends in
`sync_record`, all inside the route's transaction. Unlocking, unsealing,
recovering and rotating the master key load a chain from the table and replace
the engine; requests under way keep the one they started with. Rotation
re-wraps the keys of the rows other requests read. Standbys are reached over
HTTP from inside the transaction. Every route that is not open to all resolves a bearer
token to a user (`api/dependencies.py:18`): rate, networks, black list and user
in that order, each with an await of its own, and decides by the row it loaded.

What is hard: the maximum entry number, the quota, the highest sequence number
and the rows of a retry or a purge are read in one await and used in a later
one; blobs, key files, the state file, the chain in memory and the standbys do
not roll back with the transaction; a crash between any two steps; pushes whose
answer is lost; tokens and challenges that several requests present at once;
settings of the process that a restart forgets; and one write lock held across
HTTP calls. `PROJECT.json` lists
each at its line under `hazards`.

## Modules

| Module | Models | Size of an action |
|---|---|---|
| `HashChain` | chain, entries, verification, the table's rows and the loader, as operators | - |
| `Ledger` | requests that append and persist, the write lock, commits, failures, crashes, installation of engines | what runs between two awaits |
| `AuditTrail` | the promise of the ledger to a reader of the table | one commit |
| `LedgerProofs`, `LedgerAuditProofs`, `LedgerHotProofs` | theorems about `Ledger` | |
| `RecordStore` | rows, blobs and quota through put, get, delete, secure delete and purge | between two awaits |
| `Vault` | the promise of the record engine to its users | an answer |
| `RecordStoreProofs` | theorems about `RecordStore` | |
| `Replication` | push, retry, dead letters, reset, node health, the pull feed | between two awaits that matter; a put or delete up to `sync_record` is one step |
| `Delivery` | the promise of push replication to an operator | an arrival, or one commit |
| `ReplicationProofs` | theorems about `Replication` | |
| `KeyRotation` | key files, the scheduler's file, the settings, engines with sets of keys, sealed and split keys, rows wrapped under a key, through puts, rotations, commands, crashes | between two awaits |
| `Custody` | the promise of the key files to the records they hold | one command, creation or commit |
| `Shamir` | splitting and combining one byte over GF(2^8), as operators | - |
| `KeyRotationProofs`, `KeyLossProofs` | theorems about `KeyRotation` | |
| `Policy` | rate limit, networks, roles, grants, what each route asks for, as operators | - |
| `Clients` | the routes of the SDK's methods and the CLI's commands | - |
| `Access` | users, roles, grants, sessions, black list, challenges, credentials, the token a client keeps; the calls that read and change them | between two awaits |
| `Sessions` | the promise of tokens: from their issue to what a call with one comes to | one commit, or one step of a call |
| `AccessProofs` | theorems about `Access` | |
| `MCLedger`, `MCRecordStore`, `MCReplication`, `MCKeyRotation`, `MCAccess` | the instances TLC checks | |

`KeyRotation` uses `Shamir` in its instance, for the keys that are split there;
`Access` extends `Clients`, which extends `Policy`. The other components meet in
`engine.py` and are kept apart by one observation each: the ledger's entry is
the last thing an operation does before it commits, and that it may fail is an
action of the others; a pushed blob is only read; a key is only a name to the
rows of `RecordStore`.

### HashChain and Ledger

`auditLog` and `checkpoints` are the committed tables, `inserted` and `signed`
the rows of the one open write transaction, `writer` who holds the lock.
`engine` is the module global of `routes.py:32` (0: no engine), `chain[g]` the
chain of the g-th engine installed. For a request, `eng`, `step`, `snap` and
`seen` are the engine it got from `get_engine()`, the operations it has
appended, the copy of the entries and the maximum entry number that
`_persist_audit` holds across its awaits. `Begin`, `WriteRow`, `AppendAudit`,
`ReadMax`, `FlushAudit`/`FlushNothing`/`RejectFlush`, `SignCheckpoint`,
`Commit` are its stretches of code in order; `LoadChain` and `InstallEngine`
those of an unlock. `Fail` is any exception after the handler started; `Crash`
forgets memory and rolls the open transaction back.

A digest is the sequence of contents hashed so far, an injective stand-in for
SHA3-256 over bytes that include the previous hash. Who acted on what is
reduced to request and operation index. A timestamp is reduced to whether it
carries its UTC offset, because that is what the column loses and the hash
depends on. `HotUnlock` says whether an engine may be replaced while another is
in use: the code never prevents it, and several guarantees need that it does
not happen.

### RecordStore

`rows[x]` is absent, live, deleted, expired (deleted for `purge_after_days`) or
purged; `blobs` the records with a file; `pending` the rows of the open
transaction, `writer` its owner; `found[r]` the records a purge selected. A put
is `StartPut` (permission and quota), `InsertRow`, `WriteBlob`, `SyncRecord`,
`Commit`; a delete `StartDelete`, `MarkDeleted`, `Unlink` if secure,
`SyncRecord`, `Commit`; a purge alternates `PurgeBlob` and `PurgeRow` and
commits once. `Expire` lets time pass. Who may do what is a refusal any
request may meet. The entry in the ledger is left to `Ledger`; that it can fail
is `Fail`.

### Replication

`db` holds the committed rows, nodes, log and dead letters, `draft` the same
tables as the holder of the lock sees them. `stored[n]` are the blobs a standby
received, whether or not the primary heard of it (`Deliver`). `loaded` and
`view` are the log rows of a retry as it loaded them and as it has changed them;
`Updated` writes only what differs, as SQLAlchemy does, and a row that is gone
makes the flush fail (`RetryStale`). `cursor` and `pulled` are a standby that
follows `GET /replication/changes`. A row of a retry is taken up in the steps of
its awaits: `RetryFetch` reads the record, `RetryRead` its blob (or `RetryNoBlob`
ends the retry), `RetryPush` sends what was read, whatever has become of the
record meanwhile. `posted`, `cleared` and `contested` are history and no guard
reads them; a row is contested when a retry selects it while another has it in
hand.

### KeyRotation and Shamir

A key is a number, the n-th generated is n, 0 is none. `Garbled(k)` is what the
file of `k` yields under another passphrase: the stream cipher of
`keystore.py` carries no tag, so nothing tells that key from the right one.
`files` are the `.enc` and `.salt` files with what they were made with, `sched`
the state file, `active` the setting `master_key_id` of the process, `engine`
the module global with its set of keys by name. A row has the key its data key
is wrapped under, the key of its integrity token, and the name it is labelled
with, which are three things in the code too. `job[r]` is what a request does
and has in hand: a put is `StartPut`, `SealRecord`, `InsertRow`, `CommitPut`; a
rotation `StartRotation`, `SelectRows` or `SelectFails`, `PublishKey`,
`InstallAll`, `CommitRotation`; the four routes that install a key end in
`Install`. `CliCreate` and `RotatePassphrase` are processes of their own, which
may be killed between their two files; `Crash` restarts the server with the
configured setting, on the same machine or on another. `mixed`, `misled`,
`lapsed` and `stranded` are history: a rotation ran together with something
else; a key came under a name that stands for another; what was published was
lost; a record was re-wrapped or its key reissued. Each is set by a legal
course of the code, and a property that excuses one says which.

`Custody` sees files and records only. `file[n]` is the key a name stands for and
whether its file can be loaded, `record` the committed rows, `sound` that neither
`mixed` nor `misled` is set, `seeded` that the state file has a last rotation. A
name is given a key once (`Make`), only `Reissue` takes one away and ends
`sound`, `Put` adds a record, and `Rewrap` turns all the records it found to a
key that the file of its name holds, leaving the tokens; while `sound` holds it
leaves out no record.

A byte in `Shamir` is the set of its one bits; multiplication, inversion,
Horner's rule and interpolation follow `recovery.py` step by step.

### Access, Policy and Clients

The n-th pair of tokens issued is n: `pairs` are the sessions, `black` the black
list, `held[c]` the pair whose access token a client keeps. `chal` are the
challenges in memory. `job[k]` is a call: it comes with a token (`Ask`) and goes
through `CheckBlacklist` and `LoadUser` to its route, or needs none (`Login`,
`Refresh`, `Logout`, `Register`, `AuthenticateBegin`, `AuthenticateFinish`); it
is decided (`Decide`), or goes on to `Flush` under the write lock and `Commit`.
What it writes shows when it commits. `Ask` may find the window full, since a
client may have called before; what a full window means is the function
`Limiter`, which goes through a sequence of arrivals as `is_allowed` does, and
of the workload (`arrivals`, `limit`, `window`), and which `WithinLimit` compares
with all windows of that length. Arrivals are in order: `get_current_user`
calls `is_allowed` on the one event loop, without an await between the reading
of the clock and the end of the call. A refresh may be
presented with any pair ever issued. The route tables of `Policy` (what each of
55 routes requires) and `Clients` (where each method and command goes) are the
code's, one entry per function; two methods of the SDK send no token to routes
that ask for one and are always refused.

`Sessions` sees a server from outside (`Handed`, `Spent`, `Withdrawn`,
`Standings`): which pairs were issued and to whom, which refresh tokens are
spent, which access tokens revoked, and of each call that carries a token whose
it was, whether it was good when the call came, and whether it was served.

A refused call keeps nothing of what it asked for. A grant may name a user, a
role, both or neither, as its payload may; NULL matches nobody. A logout with a
token that has expired answers like one that black-lists and writes nothing.

A state space over all operations at once is out of reach, so a behaviour
belongs to a workload (named as a bound): a set of operations, users and roles
that run together, two calls at a time. They are chosen by what decides and what
changes it, and not every pair of operations meets: logins, refreshes and
logouts meet each other and a call with a token (`Tokens`); the steps of an
enrolment and of a login by hardware token meet each other (`Enrol`, `Mfa`);
registration meets what a new user may not do (`Joining`); a change of role meets
what roles decide (`Changes`); grants and revocations meet each other (`Rights`)
and what they decide (`Listing`, `Doubled`, `Commands`); and disabling a user
meets every kind of decision: the roles' (`audit`, `find`, `set_user_role`) in
`Demoted`, the record's (`read`, `grants`, grant and revoke) in `Barred`, `delete`
in `Ousted` and `Evicted`. In the workloads of `Bursts` nothing runs but the
limiter: up to five arrivals, every limit the routes have, windows up to 3.

## Runs

Symmetry is over requests, and over standbys, passphrases and calls where there are any: the models
neither order them nor choose among them. `CHECK_DEADLOCK FALSE` everywhere: a model whose requests have all
ended stops, as a server without clients does.

| Run | Instance | Shows |
|---|---|---|
| `ledger_cold` | 3 requests of any kind, a purge finds up to 2 records, checkpoint every 2 entries, 2 engines, an engine installed only when none is loaded | type correctness; the table is contiguous, linked, complete and a prefix of memory; a write never runs into the UNIQUE number; what the server appended verifies; the ledger implements `AuditTrail`, so no operation is there twice |
| `ledger_hot` | 2 requests, engines replaced under load, fairness | no operation recorded twice and sound checkpoints all the same; every request ends (numbering and fresh writes are proved for it) |
| `ledger_hot_loses` | as above | finding: an answered operation may be missing from the table |
| `ledger_reload` | 2 requests, one restart | finding: after a restart `verify()` blames entries nobody touched |
| `ledger_anchor` | 3 requests | finding: a checkpoint may sign a hash that no persisted entry has |
| `record_store` | 2 records (sizes 2 and 1, quota 2), one user, 4 requests | rows and files agree except where a secure delete failed; removed is removed for good; orphans come from puts; the quota holds but for overlapping puts; statuses only move forward; the store implements `Vault` |
| `record_store_shred` | the same | finding: a secure delete that fails leaves a live record without its blob |
| `replication` | 1 record, 2 standbys, 3 requests, 2 retries | numbers are unique, acked is received, exhausted rows are dead letters, nothing is lost silently, a standby is ahead of the primary only by a put that failed or is under way, the pull feed is ordered while no row leaves the log; the log implements `Delivery`: a retry that concludes late brings back no row that is gone and makes no acked row owed again, and it takes an ack back only where two retries had the row in hand at a time and it is the one that gives up (`engine.py:192`, which the run reaches) |
| `replication_numbers` | the same | finding: with two rows in the log every put and delete fails |
| `replication_feed` | the same | finding: a standby that pulls misses rows whose number is used again |
| `keys` | 2 key names, 2 keys, 1 record, 2 requests, 2 passphrases, 1 key sealed or split | a label tells the key of its row, through rotations that fail anywhere, crashes and restarts; a rotation that went well can be repeated; what is stranded is so for good; key files are never replaced but by the command; files and records keep the promise of `Custody`, which has an installation without a first rotation never rotate; shares recover the key and one tells nothing |
| `access` | 3 users, 2 calls, 1 client, 13 workloads and those of `Bursts`, 2 challenges, up to 2 grants | the server implements `Sessions`, so a refresh token gives one pair and a call is served only as the user of a token that was good; one pair per challenge, revoked tokens are refused, a user disabled before a call came is let through as the record's owner, for a live grant that fits or where no flag is looked at, and never for what the role permits, a grant takes nothing away but by a second match, the limiter lets no more and no less through than it says |

Why the bounds are enough. The races of the ledger are between one request that
read the maximum and one that commits after it; a third is needed for an entry
persisted by someone else while its owner and another writer are under way, and
for a purge to leave two entries at once. Two engines give one restart or one
replacement. Two records of which the quota admits one give the quota race
beside any two requests on the same record; four requests are a put and a
delete, a purge and one more. One record and two standbys give logs of two rows,
the number at which numbering fails; three requests are a write and two retries
that race, and two retries let one of them be answered and the other use the row
up. A second key is the one a rotation makes; two requests are a
rotation and the put or unlock that meets it; a second passphrase is a wrong
one; one record is what fits, and it cannot show that a rotation leaves out no
record: that part of `Custody` is shown by `RotationImplementsCustody` alone. A request that has ended may be used again, so
these behaviours have no fixed length. Two calls are the two that present one
token or one challenge, or the one that changes a right and the one that uses
it; three pairs are a login and a chain of two refreshes; two grants are the two
that fit at once; the third user is one to whom something is granted or taken.
Where more matter the theorems below hold for any number.

Fairness. Only `ledger_hot` uses it: weak fairness of `Progress(r)`, the
request's own steps. The event loop resumes every coroutine whose await is done,
SQLite answers or times out, and the steps that wait for the lock are disabled
while another request holds it; since that request progresses too, the lock
becomes free. No fairness is assumed of unlocking, crashes or failures.

Every property of a passing run has a mutant in `PROJECT.json`: a variant of one
definition, kept beside it in the module and marked `Mutation`, under which TLC
finds the property violated. No specification uses these variants.

## Findings

Each of these has a run that shows it.

1. `api/routes.py:532`: replacing the engine under load loses audit entries,
   silently, as `_persist_audit` takes entries up to the persisted maximum for
   persisted (`engine.py:528`).
2. `ledger/chain.py:33`: the hash covers the UTC offset, which SQLite does not
   keep; after a restart verification reports tampering.
3. `engine.py:553`: a checkpoint signs the live last hash, which may never be
   persisted.
4. `engine.py:296`: a secure delete unlinks before it commits; with an active
   standby it always fails afterwards, since `sync_record` reads the blob.
5. `replication/engine.py:162`: `scalar_one_or_none` on the whole log.
6. `replication/engine.py:361`: sequence numbers are reused.

Met while reading, and part of the models, without a run of their own:

- `crypto/rotation.py:152`: a rotation keeps the integrity tokens, which `get`
  verifies with the new key: what was stored before cannot be read, now or later
  (`StrandedStay` shows it as a property).
- `crypto/keystore.py:113`: `rotate_master_key` generates a new key, where line
  107 says it encrypts the old one under the new passphrase (`Reissue`).
- `replication/engine.py:192`: a retry that gives up on a row deletes it and files
  a dead letter by its own copy, although another retry that had the row in hand
  was acked meanwhile: a change the standby has is reported as lost (`GivenUp` of
  `Delivery` admits it, for contested rows only).
- `auth/acl.py:42`: `can_access` looks at no flag: a disabled user still reads and
  deletes by a grant to them or to their role (`DisabledHaveNoRole` says so).
- `auth/acl.py:49`: `scalar_one_or_none` on the grants that fit, which may be
  several: a second one takes the access away (`GrantsOnlyAdd` excuses it).
- `crypto/rotation.py:105`: no rotation is due before a first one, so in a fresh
  installation none ever is (`NeverDueOnAFreshInstall` proves it, and `seeded` of
  `Custody` has it in the run).
- `crypto/keystore.py:68`: the key file carries no tag, so a wrong passphrase
  loads a wrong key without an error (`misled`).
- `auth/hardware.py`: with a TPM the sealing key has 20 bytes where the cipher
  takes 32, so sealing with one always fails (`Seals`).
- `api/rate_limit.py`: the limits for logins and hardware tokens of the
  README (lines 103 and 104) are chosen by paths without the prefix `/api/v1`, and
  those routes do not ask for a user, so they are never applied (`LimitOf`).
- `sdk/client.py:48` and `:56`: the methods that set up and unlock the master key
  send no token; the routes ask for one (`Clients`). `sdk/client.py:439` sends
  `format` where the route takes `fmt`.
- A logout black-lists the access token only; the refresh token stays good
  (`Logout`). Logging in and refreshing do not look at the flag of a disabled
  user (`DisabledHaveNoRole` says what such a user is left with).

## Proofs

All proofs are for arbitrary constants under the named assumptions of the
modules, which TLC evaluates on every run.

`LedgerProofs` shows `BaseInv` inductive. Contiguity is not inductive by
itself: an insert starts at a maximum that may be stale. The invariant adds that
every chain and copy is numbered by position (`ChainsNumbered`), that a maximum
read is never above the current one (`SeenBounded`), that whoever wrote a row
holds the lock and has read a current maximum (`WriterLocked`, `LockedFresh`),
and that the rows about to be committed continue the log (`InsertedNext`); the
UNIQUE column then excludes the stale cases. It holds with engines replaced
under load. From it: `TypeCorrect`, `LogAlwaysContiguous`, `WritesAlwaysFresh`.

`LedgerAuditProofs` assumes no engine is replaced under load (`~HotUnlock`) and
strengthens `BaseInv` to `AuditInv`: one engine is live (`OneEngine`), its chain
is linked, has each operation once and contains the table, every copy and every
row about to be committed as prefixes. From it: completeness, uniqueness,
linkage, the prefix property, verification of own entries, and
`LedgerImplementsAuditTrail`, where every step of the ledger is a `CommitBatch`
of the abstract trail or leaves it alone. `ledger_hot_loses` shows that
the assumption is needed. The module ends with `TamperEvident`, which is about
chains and assumes nothing of the server: two chains of any origin that both
verify and that share the hash of one entry, at whatever positions, have that
entry at the same position and are the same up to it. So a hash kept elsewhere
vouches for all that came before it; `ledger_reload` shows what it does not
vouch for, the UTC offset of what comes back from the table.

`RecordStoreProofs` shows `StoreInv` inductive: a put is alone with its record
and its row absent until it commits (`PutsAlone`), a delete works on a row that
has existed (`DeletesKnown`), a purge only on rows that are deleted
(`PurgesSafe`), and the holder of the lock is about to commit just these
(`PendingOfHolder`). The key observation is that a file is created only while
its row is absent and removed only when it is not, so neither can undo the
other. From it: type correctness, `LiveHasBlob`, `RemovedForGood`,
`OrphansFromPuts` and the action property `NeverBack`.

For the quota `StoreInv` is not enough: `QuotaInv` speaks of what is *booked*,
the live records of a user and those of its puts under way, so that the commit
of a put books nothing and the sum grows at `StartPut` only, which has just
compared it with the quota. It holds for users none of whose puts overlapped
(`raced`). The sum is a fold of the community modules; that an element more adds
its size, and that a subset has no larger sum, is proved from the definition of
the fold. From it: `QuotaKeptUnlessRaced`.

`StoreImplementsVault` maps the store to `Vault`: a row and its file are one
state of the record, and what was asked and answered is read off the requests.
Beside `StoreInv` it needs `VaultInv`: a row is deleted only where somebody
asked, and a get that goes on has found a row. The commit of a put, a get or a
delete is an answer, with the move that makes it true or without one; an unlink,
of a secure delete or a purge, erases one record that was asked for; the commit
of a purge is not seen at all.

`LedgerHotProofs` shows `DepthInv` inductive beside `BaseInv`, with
engines replaced or not. A checkpoint is numbered by the copy and signs the live
last hash, so what is needed is that the two agree well enough: the digest of
the i-th entry is i digests deep in every chain, copy and table (`ChainsDeep`,
`TablesDeep`), a copy is never longer than the chain of its engine
(`CopiesBehind`), and a checkpoint about to be committed comes with rows up to
the end of its copy (`SignedWithRows`). From it: `CheckpointsAlwaysSound`. A
second invariant, `KeptInv`, is about all places an entry is kept in, chains of
every engine, copies, the open transaction, a chain being loaded and the table:
an operation has the same number wherever it is kept (`OneNumber`), and what is
kept of a request it has done (`DoneBefore`), so that the operation it appends
next is new. With the numbers of the table unique that gives
`RecordedOnceUnderLoad`: replacing engines loses entries and never doubles one.

`ReplicationProofs` shows `ReplInv` inductive: the tables as the lock's holder
sees them differ from the committed ones by what it is doing (`DraftKeeps`,
`RowsOfWrites`, `Tasks`), what a retry loaded were failed rows of committed
writes (`LoadedFailed`, `Named`), acked rows are received wherever a copy of
them is kept (`AckedReceived`), only the write that is pushing may have an
exhausted row (`NoneSpent`), and it numbers above what is committed
(`Numbered`). That the highest number exists needs the log to be finite, which
is part of the invariant; that a finite set of numbers has a greatest one is
proved from the well-foundedness of strict inclusion. Assumed: some record,
`RetryMax >= 1`, `NoRequest` is not a request. From it: the invariants of the
run `replication`. `AheadIsAnOrphan` takes `AheadInv` beside it: a row once
there never disappears from the tables, the lock holder's or the committed ones,
whatever is loaded or logged is of such a row (`RowsKnown`), so that what a
standby has received without one is the record of a put that holds the lock or
failed (`Ahead`).

`ReplicationImplementsDelivery` maps a row of the log to its fate. That needs
`DeliveryInv`: a row ever committed is in the log, or dead or reset, and not
both; what the holder of the lock is about to commit brings none of the gone
back, and a row it declares dead is in the log, dead already, or its own. A
commit then settles fates, each going where `Follows` lets it; every other
step changes no fate, and no standby loses what it received. The exception is an
acked change that becomes a dead letter: of two retries that overlap, the one that
gives up last sees the row exhausted, deletes it and files it, although the other
was acked (`engine.py:192`). `Delivery` allows it for contested changes alone, and
`ContestInv` proves that no other row is concerned: the rows in the hands of two
retries at a time were contested when the second selected them, and a row that is
contested for the first time is owed. The theorem says nothing of when an owed
change is settled, and by it none is stuck only in that no row stays in the log
where no retry would select it.

`KeyRotationProofs` shows `KeyInv` inductive, in three layers as the history
variables excuse more or less. Always (`Lawful`): the lock is held by a request
that wrote, a rotation was due. While no rotation met another request and
no key came under a wrong name (`Sound`): rotations run alone, the label of every
row names the file of its key, in the tables and in hand, the engine's keys are
those of the files, and what each request is about to use is so too (`Backed`).
While nothing published was lost as well (`Labelled`): all rows carry the
active name. The first layer is needed to say what a rotation that fails leaves,
the second is what each step of a rotation relies on. Assumed:
`KeyAssumption`. From it: type correctness, `NamesTellKeys`, `RotationsRepeat`,
the action property `KeyFilesStay`, and `NeverDueOnAFreshInstall`.

`KeyLossProofs` shows `LossInv` inductive beside `KeyInv`. That a row whose
token and wrap are of different keys is lost for good needs that the key a
rotation re-wraps with is the key of no token yet: the keys of two files differ
(`FilesDiffer`), a key not yet generated is in nobody's hands (`NextUnseen`),
nor is that of a rotation under way, which is neither the configured nor the
active one (`PendingUnseen`), what the holder of the lock wrote over a row
leaves it as it was or lost (`DraftFollows`), and every stranded row is lost
(`StrandedLost`). No history variable excuses anything here: it holds with
rotations side by side, wrong passphrases and crashes anywhere. From it:
`StrandedForGood`, that is, `StrandedStay`.

`RotationImplementsCustody`, in the same module, maps every step to one of
`Custody` or a stutter. What the two invariants do not say is what the write
lock hides: which rows a commit is about to make. `CustodyInv` adds it: the table
of a put that holds the lock has one row more, under the key it was signed with
(`Adds`), that of a rotation differs from the committed one in the rows it found,
which it turned to a key its file keeps (`Turns`), and what a rotation found is
there still, with the tokens it had, and is all there is as long as it met nobody
(`Handy`). That last part stands on `Onward`, what no step undoes: a key file
other than the configured one, a row and its token, a doubt, and a last
rotation. A creation is a `Make`, since the next key is in no file and on no row
(`NextUnseen`), the command a `Reissue`, the two commits a `Put` and a `Rewrap`;
that the new key signs no record a rotation found is in `DraftFollows`, and that
a put of a sound server is labelled rightly in `Sound`, after the step. TLC
checked `CustodyInv` as an invariant of the instance before it was proved.
`KeyLossIsFinal` follows from the steps of `Custody` alone: a record no key file
can read, by its label, wrap and token, is read by none later, doubt or not,
since no step gives a name an old key, and a re-wrapping only parts wrap and
token further. It says of files what `StrandedForGood` says of engines.

`AccessProofs` shows `AccessInv` inductive: what a call in hand is about to
write exists (`InHand`), a call whose token was revoked waits for the black list
and finds it there (`Listed`), one of a user disabled before it came finds the
user disabled (`Disabled`), a pair that gave another one has its
refresh token black-listed and the flag and the list agree on every session
(`Refreshed`), and a challenge that no two calls had
in hand together is used, or in hand, at most once (`Challenged`). Assumed:
`AccessAssumption`. From it: type correctness, `RefreshOnce`, `RevokedRefused`,
`ChallengeOnce` and the action properties `DisabledHaveNoRole` and
`GrantsOnlyAdd`. For `DisabledHaveNoRole`, only the decision of a call's own route
lets it through (`LetThroughByRoute`), and the user it loaded is not active, so
that no permission of a role is left to decide by (`Powerless`).

`AccessImplementsSessions` follows from the same invariant, action by action:
`Ask` is the coming of a call, an answer with success serves it, any other
answer, a restart and the end of the call make it nothing, and the commit of a
login, a refresh or a logout issues, renews or revokes. That a refresh commits
only for a session nobody spent, and a logout only for a token nobody revoked,
is in `Listed`: between `Flush` and `Commit` the name of the token is taken by
the one call that holds the lock. That a renewed pair goes to the user of its
session needs that a session never changes hands (`Grown`).

`LimiterIsFair` is about the limiter alone, for any sorted sequence of arrivals,
any limit and any window: what is kept after each arrival is in order, no longer
than the limit, and the end of what was let through; what was dropped is out of
the window, and stays so, as later calls come no earlier; entries `limit` apart
are a window apart (`LimiterOK`). So `WithinLimit` holds whatever the workload,
which the run shows for short bursts.

Induction over data. The induction theorems of the library take an operator as a
parameter and cannot be used here. Where a proof needs one, it takes the set of
the counterexamples and its least element instead: the natural numbers, and the
subsets of a finite set, are well-founded (`NatLessThanWellFounded`,
`FS_StrictSubsetOrderingWellFounded`, `WFMin`). That a recursive function has
the values its definition says follows in the same way from the existence of one
that does (`StepsExist`), and determines it.

Only model-checked: `RequestsEnd`, as liveness is out of the prover's reach, and
`SharesRecover`, which rests on the field laws of GF(2^8) as computed bit by bit.

## Plan

Done, in this order: the ledger with its proofs, the record store with its
proofs, replication and then its proofs, keys and rotation with Shamir's
sharing, sessions, challenges, access control and the rate limiter in one
module with the clients, the proofs of both, the theorems about checkpoints
and about stranded records, those about the quota, the limiter and entries under
load, and the promises `Vault`, `Delivery`, `Sessions` and `Custody` with their
refinements. What is left, most useful first:

1. The standby's side: `POST /replication/push` writes the blob where the
   standby's own engine would, so a primary and a standby that both serve
   writes could be two instances of `RecordStore` joined by `Replication`.
2. The read-only operations of the record engine (list, search, scan) as
   observers of `RecordStore`, to say what a scan may report while deletes run.
3. The batch methods of the SDK: ten calls at once, of which some fail.

## Not modelled

Exports, anomaly detection and compliance reports only read, and no other part
uses what they give. Ciphers, envelope encryption, the search index, Paillier
arithmetic and compression are library calls: a ciphertext is a pair of key and
plaintext to the models. `crypto/shredding.py` is called by nothing in the
server. The webhook's outcome is only logged. Middleware, metrics, logging and
configuration hold no state another part decides on.

Of the parts that are modelled, these details are left out: the batch methods of
the SDK; the CLI commands that create directories and start the server; the sign
count of a hardware token, which nothing compares; deleted rows in a rotation,
which it skips and which can never be read again anyway; the text form of shares, and shares
given twice, with which the combination divides by zero and fails; the parsing
of networks; `sync_audit_entry`, whose outcome nothing uses; and how a standby
stores what it receives, which is a set here. PostgreSQL, which the database URL
could name, has row locks instead of one write lock and is not covered: the
models are of the default, SQLite.
