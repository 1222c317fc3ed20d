----------------------------- MODULE KeyRotation -----------------------------
(***************************************************************************)
(* The master keys of a CryptoDB server: the files of crypto/keystore.py,  *)
(* the rotation of crypto/rotation.py, the key set of each engine, the     *)
(* routes that install an engine, and what the rows say of the keys they   *)
(* were sealed with.                                                       *)
(*                                                                         *)
(* A key is a number: 0 is no key, the n-th key generated is n, and        *)
(* Garbled(k) is what a load of k under another passphrase returns, since  *)
(* nothing in the file tells a right passphrase from a wrong one.  A row   *)
(* keeps the name of a key, the key its data key is wrapped under, and the *)
(* key of its integrity token.  One action is what a request does between  *)
(* two awaits; a request that has ended may be used again.                 *)
(***************************************************************************)
EXTENDS Naturals, FiniteSets

CONSTANTS
    KeyIds,
    Configured,     \* the master_key_id of the configuration
    Passphrases, NoPassphrase,
    Records, Requests,
    NoRequest,      \* not a request: nobody holds the write lock
    MaxKeys,        \* bound: keys ever generated
    MaxSealed       \* bound: keys ever sealed or split

ASSUME KeyAssumption ==
    /\ Configured \in KeyIds
    /\ Passphrases # {} /\ NoPassphrase \notin Passphrases
    /\ NoRequest \notin Requests
    /\ MaxKeys \in Nat
    /\ MaxSealed \in Nat

VARIABLES
    files,          \* <id>.enc and <id>.salt
    sched,          \* rotation_state.json
    active,         \* settings.master_key_id, in the memory of the process
    engine,         \* the module global of routes.py
    rows,           \* the committed records
    draft, writer,  \* as the holder of the write lock sees them, and who it is
    job,            \* what each request is doing, and has in hand
    made,           \* how many keys were ever generated
    escrow,         \* keys that operators hold as sealed blobs or shares
    (* history, read by no action *)
    mixed,          \* a rotation ran together with another request, or stopped
                    \* after it had named its key and before it installed it
    misled,         \* a key came under a name whose file holds another one
    lapsed,         \* settings or the state file do not match what is committed
    stranded        \* rows re-wrapped, or whose key was reissued

disk    == <<files, sched, made, escrow>>
memory  == <<active, engine>>
tables  == <<rows, draft, writer>>
past    == <<mixed, misled, lapsed, stranded>>
vars    == <<disk, memory, tables, job, past>>

Key     == 0 .. 2 * MaxKeys + 1
Wrong   == 2 * MaxKeys + 1              \* what no file holds
Garbled(k) == k + MaxKeys
KeySet  == [KeyIds -> Key]              \* 0: not in the engine
NoKeys  == [kid \in KeyIds |-> 0]
File    == [key : Key, pass : Passphrases \cup {NoPassphrase}, salt : BOOLEAN]
Absent  == [key |-> 0, pass |-> NoPassphrase, salt |-> FALSE]
Engine  == [id : KeyIds, keys : KeySet]
NoEngine == [id |-> Configured, keys |-> NoKeys]
Row     == [label : KeyIds, wrap : Key, token : Key]
NoRow   == [label |-> Configured, wrap |-> 0, token |-> 0]
Put     == {"checked", "sealed", "inserted"}
Rotate  == {"selecting", "rewrapping", "reloading", "committing"}
Job     == [at : {"idle", "installing"} \cup Put \cup Rotate, eng : Engine,
            row : Row, key : Key, id : KeyIds, pass : Passphrases \cup {NoPassphrase},
            auto : BOOLEAN, found : [Records -> Row], keys : KeySet]
NoJob   == [at |-> "idle", eng |-> NoEngine, row |-> NoRow, key |-> 0,
            id |-> Configured, pass |-> NoPassphrase, auto |-> FALSE,
            found |-> [x \in Records |-> NoRow], keys |-> NoKeys]
NoState == [saved |-> FALSE, last |-> "none", current |-> Configured, auto |-> FALSE]

Init ==
    /\ files = [kid \in KeyIds |-> Absent]
    /\ made = 0 /\ escrow = {}
    /\ sched \in {NoState, [NoState EXCEPT !.saved = TRUE, !.last = "old", !.auto = TRUE]}
    /\ active = Configured /\ engine = NoEngine
    /\ rows = [x \in Records |-> NoRow] /\ draft = rows /\ writer = NoRequest
    /\ job = [r \in Requests |-> NoJob]
    /\ mixed = FALSE /\ misled = FALSE /\ lapsed = FALSE /\ stranded = {}

-----------------------------------------------------------------------------
(* The key store. *)

(* Mutation: create_master_key does not look whether the file exists. *)
MayCreateOver(kid) == made < MaxKeys

MayCreate(kid) == files[kid].key = 0 /\ made < MaxKeys

(* create_master_key: a new key in the .enc file, then its .salt file. *)
Create(kid, p, whole) ==
    /\ MayCreate(kid)
    /\ made' = made + 1
    /\ files' = [files EXCEPT ![kid] = [key |-> made + 1, pass |-> p, salt |-> whole]]

Loadable(kid)  == files[kid].key # 0 /\ files[kid].salt
Opened(kid, p) == IF files[kid].pass = p THEN files[kid].key ELSE Garbled(files[kid].key)

(* What a load returns to someone who knows the passphrase; 0: an error. *)
Stored(kid) == IF Loadable(kid) THEN files[kid].key ELSE 0

(* The create-master-key command, a process of its own; whole: it is not
   killed between the two files. *)
CliCreate ==
    /\ \E p \in Passphrases, whole \in BOOLEAN : Create(Configured, p, whole)
    /\ UNCHANGED <<sched, escrow, memory, tables, job, past>>

(* How far a command comes before it is killed, if it is. *)
Outcomes == {"gone", "torn", "whole"}

(* Mutation: the old key stays, only its passphrase changes. *)
ReissueKept(p, outcome) ==
    /\ files' = [files EXCEPT ![Configured].pass = p]
    /\ UNCHANGED made

(* What rotate_master_key leaves: both files removed, then a new key. *)
Reissue(p, outcome) ==
    IF outcome = "gone"
      THEN files' = [files EXCEPT ![Configured] = Absent] /\ UNCHANGED made
      ELSE /\ made < MaxKeys /\ made' = made + 1
           /\ files' = [files EXCEPT ![Configured] =
                            [key |-> made + 1, pass |-> p, salt |-> outcome = "whole"]]

(* The rotate-master-key command.  The old passphrase is not checked. *)
RotatePassphrase ==
    /\ Loadable(Configured)
    /\ \E p \in Passphrases, outcome \in Outcomes : Reissue(p, outcome)
    /\ misled' = TRUE
    /\ stranded' = stranded \cup {x \in Records : rows[x].wrap # 0 /\ rows[x].label = Configured}
    /\ UNCHANGED <<sched, escrow, memory, tables, job, mixed, lapsed>>

-----------------------------------------------------------------------------
(* Requests. *)

Rotating(q)  == job[q].at \in Rotate
Published(q) == job[q].at \in {"reloading", "committing"}
Under(q)     == job[q].at # "idle"

Begin(r, j) ==
    /\ ~Under(r)
    /\ job' = [job EXCEPT ![r] = j]
    /\ mixed' = (mixed \/ \E q \in Requests \ {r} :
                     Rotating(q) \/ (Under(q) /\ j.at \in Rotate))

Carry(r, j) == job' = [job EXCEPT ![r] = j]

(* DML of r takes or keeps SQLite's only write lock. *)
Write(r, table) ==
    /\ writer \in {NoRequest, r}
    /\ writer' = r
    /\ draft' = table
    /\ UNCHANGED rows

(* Mutation: the lock is let go, what was written stays. *)
RollbackKept(r) ==
    /\ writer' = IF writer = r THEN NoRequest ELSE writer
    /\ UNCHANGED <<draft, rows>>

Rollback(r) ==
    /\ writer' = IF writer = r THEN NoRequest ELSE writer
    /\ draft' = IF writer = r THEN rows ELSE draft
    /\ UNCHANGED rows

-----------------------------------------------------------------------------
(* The routes that install an engine with one key, named as the settings name
   the active key when it is installed. *)

(* POST /master-key *)
SetupKey(r) ==
    /\ \E p \in Passphrases : Create(active, p, TRUE)
    /\ Begin(r, [NoJob EXCEPT !.at = "installing", !.key = made + 1])
    /\ UNCHANGED <<sched, escrow, memory, tables, misled, lapsed, stranded>>

(* POST /master-key/unlock *)
UnlockKey(r) ==
    /\ Loadable(active)
    /\ \E p \in Passphrases :
          Begin(r, [NoJob EXCEPT !.at = "installing", !.key = Opened(active, p)])
    /\ UNCHANGED <<disk, memory, tables, misled, lapsed, stranded>>

(* TPMBackend.  Without a TPM a blob is encrypted under the fingerprint of the
   machine, and opened by the same machine only.  With one, the bytes 12 to 44
   of a digest are to be the key of the cipher. *)
DigestBytes == 32
CipherKeyBytes == 32
TpmKeyBytes == DigestBytes - 12

Seals(tpm, k) == IF tpm /\ TpmKeyBytes # CipherKeyBytes
                   THEN {}
                   ELSE {[how |-> "sealed", key |-> k]}

Openable(same) == {e \in escrow : e.how = "sealed" => same}

Keep(e) == Cardinality(escrow) < MaxSealed /\ escrow' = escrow \cup {e}

(* POST /master-key/seal, with the right passphrase: a wrong one is left to
   UnlockKey, as it makes a wrong key of either. *)
SealKey ==
    /\ Loadable(active)
    /\ \E tpm \in BOOLEAN : \E e \in Seals(tpm, files[active].key) : Keep(e)
    /\ UNCHANGED <<files, sched, made, memory, tables, job, past>>

(* POST /master-key/recovery/split; the parameters are checked, the key is not. *)
SplitKey ==
    /\ Loadable(active)
    /\ Keep([how |-> "split", key |-> files[active].key])
    /\ UNCHANGED <<files, sched, made, memory, tables, job, past>>

(* POST /master-key/unseal: the key that was sealed, which need not be the one
   the active name stands for. *)
UnsealKey(r) ==
    /\ \E e \in escrow :
          /\ e.how = "sealed"
          /\ Begin(r, [NoJob EXCEPT !.at = "installing", !.key = e.key])
    /\ UNCHANGED <<disk, memory, tables, misled, lapsed, stranded>>

(* POST /master-key/recovery/combine: the key that was split, or another one
   when the shares are too few or of different splits, which nothing tells. *)
CombineShares(r) ==
    /\ \E e \in escrow : \E got \in {e.key, Wrong} :
          /\ e.how = "split"
          /\ Begin(r, [NoJob EXCEPT !.at = "installing", !.key = got])
    /\ UNCHANGED <<disk, memory, tables, misled, lapsed, stranded>>

(* The chain is loaded; the constructor names the key. *)
Install(r) ==
    /\ job[r].at = "installing"
    /\ engine' = [id |-> active, keys |-> [NoKeys EXCEPT ![active] = job[r].key]]
    /\ misled' = (misled \/ job[r].key # Stored(active))
    /\ Carry(r, NoJob)
    /\ UNCHANGED <<disk, active, tables, mixed, lapsed, stranded>>

-----------------------------------------------------------------------------
(* put and get *)

StartPut(r) ==
    /\ engine # NoEngine
    /\ NoRow \in {rows[x] : x \in Records}        \* the bound on records
    /\ Begin(r, [NoJob EXCEPT !.at = "checked", !.eng = engine])
    /\ UNCHANGED <<disk, memory, tables, misled, lapsed, stranded>>

(* Mutation: the row is labelled with the name the engine had first. *)
SealedFirst(e) == [label |-> Configured, wrap |-> e.keys[e.id], token |-> e.keys[e.id]]

(* The data key is wrapped, and the token computed, with the active key of the
   engine of the request; the label comes from the settings. *)
Sealed(e) == [label |-> active, wrap |-> e.keys[e.id], token |-> e.keys[e.id]]

SealRecord(r) ==
    /\ job[r].at = "checked"
    /\ Carry(r, [NoJob EXCEPT !.at = "sealed", !.row = Sealed(job[r].eng)])
    /\ UNCHANGED <<disk, memory, tables, past>>

InsertRow(r) ==
    /\ job[r].at = "sealed"
    /\ \E x \in Records : rows[x] = NoRow /\ Write(r, [rows EXCEPT ![x] = job[r].row])
    /\ Carry(r, [NoJob EXCEPT !.at = "inserted"])
    /\ UNCHANGED <<disk, memory, past>>

CommitPut(r) ==
    /\ job[r].at = "inserted"
    /\ rows' = draft /\ writer' = NoRequest /\ UNCHANGED draft
    /\ Carry(r, NoJob)
    /\ UNCHANGED <<disk, memory, past>>

(* What get and integrity_scan need: the token is verified with the engine's
   active key, then the data key unwrapped with the key the row names. *)
Verifies(e, row) == row.token = e.keys[e.id]
Unwraps(e, row)  == e.keys[row.label] = row.wrap
Readable(e, row) == row # NoRow /\ Verifies(e, row) /\ Unwraps(e, row)

-----------------------------------------------------------------------------
(* Rotation. *)

Publishing == {q \in Requests : Published(q)}

(* What _load_state finds: the file, or the defaults. *)
State == IF sched.saved THEN sched ELSE [NoState EXCEPT !.current = active]

(* Mutation: an installation that never rotated is due. *)
DueAtFirst(state) == state.auto /\ state.last \in {"none", "old"}

(* should_rotate; the hourly task logs the same and changes nothing. *)
Due(state) == state.auto /\ state.last = "old"

(* POST /master-key/scheduler; another interval may make the rotation due or not. *)
Configure ==
    /\ \E a \in BOOLEAN, l \in (IF State.last = "none" THEN {"none"} ELSE {"recent", "old"}) :
          sched' = [State EXCEPT !.saved = TRUE, !.auto = a, !.last = l]
    /\ UNCHANGED <<files, made, escrow, memory, tables, job, past>>

(* interval_hours pass. *)
IntervalPasses ==
    /\ sched.last = "recent"
    /\ sched' = [sched EXCEPT !.last = "old"]
    /\ UNCHANGED <<files, made, escrow, memory, tables, job, past>>

(* POST /master-key/rotate: the check, the old key, the new key under an id
   made of the active one and the time. *)
StartRotation(r) ==
    /\ Due(State)
    /\ Loadable(State.current)
    /\ \E p \in Passphrases, kid \in KeyIds \ {Configured} :
          /\ Create(kid, p, TRUE)
          /\ Begin(r, [NoJob EXCEPT !.at = "selecting", !.id = kid, !.pass = p,
                                    !.key = Opened(State.current, p), !.auto = State.auto])
    /\ UNCHANGED <<sched, escrow, memory, tables, misled, lapsed, stranded>>

Kept(table) == {x \in Records : table[x] # NoRow}

(* Every data key unwraps with the old key. *)
OpensAll(r, table) == \A x \in Kept(table) : table[x].wrap = job[r].key

SelectRows(r) ==
    /\ job[r].at = "selecting"
    /\ OpensAll(r, rows)
    /\ Carry(r, [job[r] EXCEPT !.at = "rewrapping", !.key = 0, !.found = rows])
    /\ UNCHANGED <<disk, memory, tables, past>>

(* One does not: the rotation fails, and leaves its key file. *)
SelectFails(r) ==
    /\ job[r].at = "selecting"
    /\ ~OpensAll(r, rows)
    /\ Carry(r, NoJob)
    /\ UNCHANGED <<disk, memory, tables, past>>

(* Mutation: the row keeps its old label. *)
RewrappedSilent(row, kid, k) == [row EXCEPT !.wrap = k]

Rewrapped(row, kid, k) == [row EXCEPT !.label = kid, !.wrap = k]

(* The rows are flushed; the state file and the settings name the new key; the
   keys of every file that can be read are loaded with the one passphrase. *)
PublishKey(r) ==
    LET j   == job[r]
        new == files[j.id].key
    IN  /\ j.at = "rewrapping"
        /\ IF Kept(j.found) = {}
             THEN UNCHANGED tables
             ELSE Write(r, [x \in Records |->
                     IF j.found[x] = NoRow THEN rows[x] ELSE Rewrapped(j.found[x], j.id, new)])
        /\ sched' = [saved |-> TRUE, last |-> "recent", current |-> j.id, auto |-> j.auto]
        /\ active' = j.id
        /\ Carry(r, [j EXCEPT !.at = "reloading", !.pass = NoPassphrase, !.auto = FALSE,
                !.keys = [kid \in KeyIds |-> IF Loadable(kid) THEN Opened(kid, j.pass) ELSE 0]])
        /\ UNCHANGED <<files, made, escrow, engine, past>>

(* The chain is loaded. *)
InstallAll(r) ==
    /\ job[r].at = "reloading"
    /\ engine' = [id |-> job[r].id, keys |-> job[r].keys]
    /\ misled' = (misled \/ \E kid \in KeyIds : job[r].keys[kid] \notin {0, Stored(kid)})
    /\ Carry(r, [NoJob EXCEPT !.at = "committing", !.found = job[r].found])
    /\ UNCHANGED <<disk, active, tables, mixed, lapsed, stranded>>

CommitRotation(r) ==
    /\ job[r].at = "committing"
    /\ IF writer = r THEN /\ rows' = draft /\ writer' = NoRequest /\ UNCHANGED draft
                          /\ stranded' = stranded \cup Kept(job[r].found)
                     ELSE UNCHANGED <<tables, stranded>>
    /\ Carry(r, NoJob)
    /\ UNCHANGED <<disk, memory, mixed, misled, lapsed>>

-----------------------------------------------------------------------------
(* An exception, a lock that stays busy, a client that is gone. *)
Fail(r) ==
    /\ Under(r)
    /\ Rollback(r)
    /\ Carry(r, NoJob)
    /\ mixed' = (mixed \/ job[r].at = "reloading")
    /\ lapsed' = (lapsed \/ Published(r))
    /\ UNCHANGED <<disk, memory, misled, stranded>>

(* The server dies, perhaps between the two files of a key it creates, and is
   started again, perhaps on a machine (a container) of another name: the settings come from the configuration. *)
Crash ==
    /\ engine # NoEngine \/ \E r \in Requests : Under(r)
    /\ \/ UNCHANGED <<files, made>>
       \/ /\ Due(State) /\ Loadable(State.current)
          /\ \E kid \in KeyIds \ {Configured}, p \in Passphrases : Create(kid, p, FALSE)
    /\ escrow' \in {Openable(TRUE), Openable(FALSE)}
    /\ lapsed' = (lapsed \/ active # Configured \/ \E r \in Requests : Published(r))
    /\ active' = Configured /\ engine' = NoEngine
    /\ job' = [r \in Requests |-> NoJob]
    /\ writer' = NoRequest /\ draft' = rows /\ UNCHANGED rows
    /\ UNCHANGED <<sched, mixed, misled, stranded>>

Next ==
    \/ CliCreate \/ RotatePassphrase \/ SealKey \/ SplitKey \/ Configure \/ IntervalPasses \/ Crash
    \/ \E r \in Requests :
          \/ SetupKey(r) \/ UnlockKey(r) \/ UnsealKey(r) \/ CombineShares(r) \/ Install(r)
          \/ StartPut(r) \/ SealRecord(r) \/ InsertRow(r) \/ CommitPut(r)
          \/ StartRotation(r) \/ SelectRows(r) \/ SelectFails(r)
          \/ PublishKey(r) \/ InstallAll(r) \/ CommitRotation(r)
          \/ Fail(r)

Spec == Init /\ [][Next]_vars

-----------------------------------------------------------------------------
(* Properties. *)

(* Every variable holds a value of its kind; what is not committed belongs to
   the request that holds the write lock. *)
TypeOK ==
    /\ files \in [KeyIds -> File]
    /\ sched \in [saved : BOOLEAN, last : {"none", "recent", "old"}, current : KeyIds, auto : BOOLEAN]
    /\ active \in KeyIds
    /\ engine \in Engine
    /\ rows \in [Records -> Row] /\ draft \in [Records -> Row]
    /\ writer \in Requests \cup {NoRequest}
    /\ writer = NoRequest => draft = rows
    /\ writer # NoRequest => job[writer].at \in Rotate \cup {"inserted"}
    /\ job \in [Requests -> Job]
    /\ made \in 0 .. MaxKeys
    /\ escrow \subseteq [how : {"sealed", "split"}, key : Key]
    /\ <<mixed, misled, lapsed>> \in BOOLEAN \X BOOLEAN \X BOOLEAN
    /\ stranded \subseteq Records

(* The key a record is labelled with is on disk and is the one its data key is
   wrapped under, and the engine holds the keys of the files under their names:
   through puts, rotations that fail anywhere, crashes and restarts.  It takes a
   request that overlaps a rotation, or a wrong passphrase, share, blob or
   reissued key, to break it. *)
NamesTellKeys ==
    ~mixed /\ ~misled =>
        /\ \A x \in Kept(rows) : rows[x].wrap = Stored(rows[x].label)
        /\ \A kid \in KeyIds : engine.keys[kid] \in {0, Stored(kid)}

(* The next rotation can unwrap every record with the key the state file
   names, unless a request mixed a rotation, a wrong key was installed, a
   rotation was lost after it had published its key, or the server was
   restarted and fell back to the configured key. *)
RotationsRepeat ==
    ~mixed /\ ~misled /\ ~lapsed /\ Publishing = {} =>
        \A x \in Kept(rows) : rows[x].label = State.current

(* The engine an unlock with the right passphrase installs. *)
Unlocked == [id |-> active, keys |-> [NoKeys EXCEPT ![active] = Stored(active)]]

(* A record that a rotation has re-wrapped keeps the token of its old key, and a
   record whose key was reissued keeps its old wrap: no unlock makes either
   readable, now or later, nor does the engine a rotation installs. *)
StrandedStay ==
    \A x \in stranded :
        /\ Loadable(active) => ~Readable(Unlocked, rows[x])
        /\ rows[x].label = engine.id /\ rows[x].token # rows[x].wrap => ~Readable(engine, rows[x])

(* The files of a key never change but by rotate_master_key; a key without its
   salt can be neither loaded nor created nor rotated, ever. *)
KeyFilesStay ==
    [][\A kid \in KeyIds : files[kid].key # 0 /\ files'[kid] # files[kid] =>
           Loadable(kid) /\ RotatePassphrase]_vars

Promise == INSTANCE Custody WITH
               Names <- KeyIds, First <- Configured, Keys <- Key \ {0}, NoKey <- 0,
               file <- [kid \in KeyIds |-> [key |-> files[kid].key, whole |-> Loadable(kid)]],
               record <- rows, sound <- ~mixed /\ ~misled, seeded <- sched.last # "none"

(* The keys and the records they hold keep the promise of Custody, through
   overlapping requests, rollbacks, crashes and restarts: a name gets a key once,
   only rotate-master-key takes one away, and rows change by puts and by whole
   rotations, to a key their label names.  Only an installation whose state file
   has a last_rotation ever rotates, and no other becomes one. *)
ImplementsCustody == Promise!Spec
==============================================================================
