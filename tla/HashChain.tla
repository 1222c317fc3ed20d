------------------------------ MODULE HashChain ------------------------------
(***************************************************************************)
(* The in-memory hash chain of the audit ledger: ledger/chain.py (class    *)
(* HashChain, dataclass LedgerEntry), ledger/verify.py, and the loader of  *)
(* engine.py that rebuilds a chain from the audit_log table.               *)
(*                                                                         *)
(* A chain is a record [entries, last]: the list _entries and the field    *)
(* _last_hash, which the code updates side by side and never derives from  *)
(* one another.  Who acted on which record is abstracted to the request    *)
(* and the index of the operation inside that request.                     *)
(*                                                                         *)
(* A digest is the sequence of the contents hashed so far, genesis being   *)
(* the empty one: appending the content to the previous digest is an       *)
(* injective stand-in for SHA3-256 over canonical_bytes, which include     *)
(* previous_hash.                                                          *)
(***************************************************************************)
EXTENDS Integers, Sequences, FiniteSets, FiniteSetsExt

CONSTANT Requests       \* the requests that ever reach the server

(* A timestamp is written with its UTC offset by datetime.now(timezone.utc)
   and without it once it has been through a DateTime column of SQLite. *)
Stamps == {"aware", "naive"}

Content == [num : Nat, req : Requests, op : Nat, stamp : Stamps]
Digest  == Seq(Content)
Entry   == [num : Nat, req : Requests, op : Nat, stamp : Stamps,
            prev : Digest, hash : Digest]
Chain   == [entries : Seq(Entry), last : Digest]

GenesisHash == << >>

(* canonical_bytes and compute_hash: every field except entry_hash itself. *)
ContentOf(e)   == [num |-> e.num, req |-> e.req, op |-> e.op, stamp |-> e.stamp]
ComputeHash(e) == Append(e.prev, ContentOf(e))

EmptyChain == [entries |-> << >>, last |-> GenesisHash]

(* The entry append() builds: numbered after the list, linked to _last_hash. *)
NextEntry(c, r, k) ==
    LET body == [num |-> Len(c.entries) + 1, req |-> r, op |-> k, stamp |-> "aware"]
    IN  [num |-> body.num, req |-> r, op |-> k, stamp |-> body.stamp,
         prev |-> c.last, hash |-> Append(c.last, body)]

(* Mutation: _last_hash is not moved to the new entry. *)
AppendEntryUnlinked(c, r, k) ==
    [entries |-> Append(c.entries, NextEntry(c, r, k)), last |-> c.last]

AppendEntry(c, r, k) ==
    [entries |-> Append(c.entries, NextEntry(c, r, k)),
     last    |-> NextEntry(c, r, k).hash]

(* verify(): walk the entries with the hash the previous one claims. *)
ExpectedPrev(c, i) == IF i = 1 THEN GenesisHash ELSE c.entries[i - 1].hash
BadLinks(c)  == {i \in DOMAIN c.entries : c.entries[i].prev # ExpectedPrev(c, i)}
BadHashes(c) == {i \in DOMAIN c.entries : ComputeHash(c.entries[i]) # c.entries[i].hash}
Verify(c)    == {<<c.entries[i].num, "previous_hash mismatch">> : i \in BadLinks(c)}
                    \cup {<<c.entries[i].num, "entry_hash mismatch">> : i \in BadHashes(c)}

(***************************************************************************)
(* The audit_log table, a function from entry_number (a UNIQUE column) to  *)
(* the row.  A row is the entry with its timestamp as the column keeps it. *)
(***************************************************************************)
RowOf(e) == [e EXCEPT !.stamp = "naive"]

(* select(func.max(AuditLog.entry_number)) or 0 *)
HighestNumber(table) == IF DOMAIN table = {} THEN 0 ELSE Max(DOMAIN table)

(* The i-th smallest entry_number: ORDER BY entry_number. *)
NthNumber(table, i) ==
    CHOOSE n \in DOMAIN table : Cardinality({m \in DOMAIN table : m <= n}) = i

(* Mutations: the rows are loaded but _last_hash is left at genesis; nothing
   is loaded. *)
LoadedChainUnlinked(table) ==
    [entries |-> [i \in 1 .. Cardinality(DOMAIN table) |-> table[NthNumber(table, i)]],
     last |-> GenesisHash]
LoadedChainEmpty(table) == EmptyChain

(* load_chain(): the rows in order, _last_hash that of the last one read. *)
LoadedChain(table) ==
    LET n    == Cardinality(DOMAIN table)
        rows == [i \in 1 .. n |-> table[NthNumber(table, i)]]
    IN  [entries |-> rows, last |-> IF n = 0 THEN GenesisHash ELSE rows[n].hash]
==============================================================================
