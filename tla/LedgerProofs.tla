---------------------------- MODULE LedgerProofs ----------------------------
(***************************************************************************)
(* What the ledger guarantees for every set of requests, every checkpoint  *)
(* interval and every number of restarts.                                  *)
(***************************************************************************)
EXTENDS Ledger, FiniteSetTheorems, TLAPS

-----------------------------------------------------------------------------
(* Tables numbered 1 .. n and the operators that read them. *)

(* max(entry_number) of a table numbered 1 .. n is n. *)
LEMMA HighestOfRange ==
    ASSUME NEW t, NEW n \in Nat, DOMAIN t = 1 .. n
    PROVE  HighestNumber(t) = n
<1>1. CASE n = 0
    BY <1>1, SMT DEF HighestNumber
<1>2. CASE n > 0
    <2>1. n \in DOMAIN t /\ \A m \in DOMAIN t : n >= m
        BY <1>2
    <2>2. Max(DOMAIN t) = n
        BY <2>1, SMT DEF Max
    <2> QED
        BY <2>1, <2>2 DEF HighestNumber
<1> QED
    BY <1>1, <1>2

(* In a table numbered 1 .. n, the i-th smallest number is i. *)
LEMMA NthOfRange ==
    ASSUME NEW t, NEW n \in Nat, DOMAIN t = 1 .. n, NEW i \in 1 .. n
    PROVE  NthNumber(t, i) = i
<1>1. \A m \in 1 .. n : {x \in DOMAIN t : x <= m} = 1 .. m
    OBVIOUS
<1>2. \A m \in 1 .. n : Cardinality({x \in DOMAIN t : x <= m}) = m
    <2> SUFFICES ASSUME NEW m \in 1 .. n
                 PROVE  Cardinality({x \in DOMAIN t : x <= m}) = m
        OBVIOUS
    <2>1. Cardinality(1 .. m) = m
        BY FS_Interval
    <2> QED
        BY <1>1, <2>1
<1> QED
    BY <1>2 DEF NthNumber

(* load_chain of a table numbered 1 .. n is the table itself, in order. *)
LEMMA LoadedOfRange ==
    ASSUME NEW t, NEW n \in Nat, DOMAIN t = 1 .. n,
           \A i \in 1 .. n : t[i] \in Entry
    PROVE  /\ LoadedChain(t) \in Chain
           /\ Len(LoadedChain(t).entries) = n
           /\ \A i \in 1 .. n : LoadedChain(t).entries[i] = t[i]
           /\ LoadedChain(t).last = IF n = 0 THEN GenesisHash ELSE t[n].hash
<1> DEFINE rows == [i \in 1 .. n |-> t[NthNumber(t, i)]]
<1>1. Cardinality(DOMAIN t) = n
    BY FS_Interval
<1>2. LoadedChain(t) = [entries |-> rows,
                        last |-> IF n = 0 THEN GenesisHash ELSE rows[n].hash]
    BY <1>1 DEF LoadedChain
<1>3. \A i \in 1 .. n : rows[i] = t[i]
    BY NthOfRange
<1>4. rows \in Seq(Entry) /\ Len(rows) = n
    <2>1. rows \in [1 .. n -> Entry]
        BY <1>3
    <2> HIDE DEF rows
    <2> QED
        BY <2>1
<1>5. GenesisHash \in Digest
    BY DEF GenesisHash, Digest
<1>6. n > 0 => rows[n] \in Entry /\ rows[n].hash \in Digest
    BY <1>3 DEF Entry
<1> HIDE DEF rows
<1> QED
    BY <1>2, <1>3, <1>4, <1>5, <1>6 DEF Chain

(* The entry append() builds is an entry, and the chain stays a chain. *)
LEMMA AppendEntryType ==
    ASSUME NEW c \in Chain, NEW r \in Requests, NEW k \in Nat
    PROVE  /\ NextEntry(c, r, k) \in Entry
           /\ AppendEntry(c, r, k) \in Chain
           /\ AppendEntry(c, r, k).entries = Append(c.entries, NextEntry(c, r, k))
           /\ AppendEntry(c, r, k).last = NextEntry(c, r, k).hash
<1>1. c.entries \in Seq(Entry) /\ c.last \in Digest
    BY DEF Chain
<1>2. Len(c.entries) + 1 \in Nat
    BY <1>1
<1> DEFINE body == [num |-> Len(c.entries) + 1, req |-> r, op |-> k, stamp |-> "aware"]
<1>3. body \in Content
    BY <1>2 DEF Content, Stamps
<1>4. Append(c.last, body) \in Digest
    BY <1>1, <1>3 DEF Digest
<1>5. NextEntry(c, r, k) \in Entry
    BY <1>1, <1>2, <1>4 DEF NextEntry, Entry, Stamps
<1>6. NextEntry(c, r, k).hash \in Digest
    BY <1>5 DEF Entry
<1> QED
    BY <1>1, <1>5, <1>6 DEF AppendEntry, Chain

(* What the column keeps of an entry is an entry with the same number. *)
LEMMA RowOfType ==
    ASSUME NEW e \in Entry
    PROVE  /\ RowOf(e) \in Entry
           /\ RowOf(e).num = e.num /\ RowOf(e).req = e.req /\ RowOf(e).op = e.op
           /\ RowOf(e).prev = e.prev /\ RowOf(e).hash = e.hash
           /\ RowOf(e).stamp = "naive"
    BY DEF RowOf, Entry, Stamps

-----------------------------------------------------------------------------
(* The inductive invariant that holds whether or not engines are replaced
   under load: what is numbered how, and who holds the lock. *)

Numbered(s) == \A i \in 1 .. Len(s) : s[i].num = i

LogNumbered == HighestNumber(auditLog) \in Nat /\ LogContiguous

ChainsNumbered ==
    /\ \A g \in Engines : Numbered(chain[g].entries)
    /\ Numbered(loadedChain.entries)
    /\ \A r \in Requests : Numbered(snap[r])

EnginesKnown ==
    /\ \A r \in Requests : pc[r] \in Active => eng[r] \in 1 .. installed
    /\ unlocking = "loaded" => installed < MaxEngines

SeenBounded ==
    \A r \in Requests : pc[r] = "numbered" => seen[r] <= HighestNumber(auditLog)

(* How far a request is with the operations it has to record. *)
Copied == {"appended", "numbered", "flushed", "signed"}
StepsCounted ==
    \A r \in Requests :
        /\ step[r] <= ops[r]
        /\ pc[r] = "idle" => step[r] = 0
        /\ pc[r] = "begun" /\ kind[r] = "read" => step[r] = 0 /\ ops[r] = 1
        /\ pc[r] = "locked" => step[r] < ops[r]
        /\ pc[r] \in Copied \cup {"done"} => step[r] = ops[r]

(* Who wrote a row holds the lock, and the maximum it read is still the one. *)
WriterLocked ==
    \A r \in Requests :
        /\ pc[r] = "locked" => writer = r
        /\ kind[r] # "read" /\ step[r] > 0 /\ pc[r] \in Active => writer = r
LockedFresh ==
    \A r \in Requests :
        writer = r /\ pc[r] = "numbered" => seen[r] = HighestNumber(auditLog)

(* What the holder of the lock is about to commit continues the log up to the
   end of its copy. *)
InsertedNext ==
    /\ DOMAIN inserted # {} =>
          /\ writer # NoRequest
          /\ pc[writer] \in {"flushed", "signed"}
          /\ DOMAIN inserted = HighestNumber(auditLog) + 1 .. Len(snap[writer])
    /\ \A n \in DOMAIN inserted : inserted[n].num = n

BaseInv ==
    /\ TypeOK
    /\ LogNumbered
    /\ ChainsNumbered
    /\ EnginesKnown
    /\ SeenBounded
    /\ StepsCounted
    /\ WriterLocked
    /\ LockedFresh
    /\ InsertedNext

LEMMA BaseInit == Init => BaseInv
<1> SUFFICES ASSUME Init PROVE BaseInv
    OBVIOUS
<1> USE LedgerAssumption DEF Init
<1>1. DOMAIN auditLog = 1 .. 0 /\ HighestNumber(auditLog) = 0
    <2>1. DOMAIN auditLog = 1 .. 0
        BY DEF Empty
    <2> QED
        BY <2>1, HighestOfRange
<1>2. EmptyChain \in Chain /\ Numbered(EmptyChain.entries)
    BY DEF EmptyChain, Chain, GenesisHash, Digest, Numbered
<1>3. << >> \in Seq(Entry) /\ Numbered(<< >>)
    BY DEF Numbered
<1>4. TypeOK
    BY <1>2, <1>3 DEF TypeOK, Empty, Active, Ended, Kinds
<1>5. LogNumbered
    BY <1>1 DEF LogNumbered, LogContiguous
<1>6. ChainsNumbered
    BY <1>2, <1>3 DEF ChainsNumbered
<1>7. EnginesKnown /\ SeenBounded /\ LockedFresh /\ InsertedNext
    BY DEF EnginesKnown, SeenBounded, LockedFresh, InsertedNext, Empty, Active
<1>8. StepsCounted /\ WriterLocked
    BY DEF StepsCounted, WriterLocked, Copied, Active
<1> QED
    BY <1>4, <1>5, <1>6, <1>7, <1>8 DEF BaseInv

(* The actions of the server that are not a request's. *)
LEMMA BaseLoadChain == BaseInv /\ LoadChain => BaseInv'
<1> SUFFICES ASSUME BaseInv, LoadChain PROVE BaseInv'
    OBVIOUS
<1> USE LedgerAssumption DEF LoadChain, db, locals
<1> DEFINE H == HighestNumber(auditLog)
<1>1. /\ loadedChain' \in Chain
      /\ Numbered(loadedChain'.entries)
    <2>1. H \in Nat /\ DOMAIN auditLog = 1 .. H /\ \A i \in 1 .. H : auditLog[i] \in Entry
        BY DEF BaseInv, LogNumbered, LogContiguous, TypeOK
    <2> HIDE DEF H
    <2>2. /\ LoadedChain(auditLog) \in Chain
          /\ Len(LoadedChain(auditLog).entries) = H
          /\ \A i \in 1 .. H : LoadedChain(auditLog).entries[i] = auditLog[i]
        BY <2>1, LoadedOfRange
    <2>3. \A i \in 1 .. H : auditLog[i].num = i
        BY <2>1 DEF BaseInv, LogNumbered, LogContiguous
    <2> QED
        BY <2>2, <2>3 DEF Numbered
<1>2. TypeOK'
    BY <1>1 DEF BaseInv, TypeOK
<1>3. LogNumbered'
    BY DEF BaseInv, LogNumbered, LogContiguous
<1>4. ChainsNumbered'
    BY <1>1 DEF BaseInv, ChainsNumbered
<1>5. (EnginesKnown /\ SeenBounded /\ LockedFresh /\ InsertedNext)'
    BY DEF BaseInv, EnginesKnown, SeenBounded, LockedFresh, InsertedNext
<1>6. (StepsCounted /\ WriterLocked)'
    BY DEF BaseInv, StepsCounted, WriterLocked
<1> QED
    BY <1>2, <1>3, <1>4, <1>5, <1>6 DEF BaseInv

LEMMA BaseInstallEngine == BaseInv /\ InstallEngine => BaseInv'
<1> SUFFICES ASSUME BaseInv, InstallEngine PROVE BaseInv'
    OBVIOUS
<1> USE LedgerAssumption DEF InstallEngine, db, locals
<1>1. EmptyChain \in Chain /\ Numbered(EmptyChain.entries)
    BY DEF EmptyChain, Chain, GenesisHash, Digest, Numbered
<1>2. TypeOK'
    BY <1>1 DEF BaseInv, TypeOK, EnginesKnown, Engines
<1>3. LogNumbered'
    BY DEF BaseInv, LogNumbered, LogContiguous
<1>4. ChainsNumbered'
    BY <1>1 DEF BaseInv, ChainsNumbered, TypeOK
<1>5. (EnginesKnown /\ SeenBounded /\ LockedFresh /\ InsertedNext)'
    BY DEF BaseInv, EnginesKnown, SeenBounded, LockedFresh, InsertedNext, TypeOK
<1>6. (StepsCounted /\ WriterLocked)'
    BY DEF BaseInv, StepsCounted, WriterLocked
<1> QED
    BY <1>2, <1>3, <1>4, <1>5, <1>6 DEF BaseInv

LEMMA BaseCrash == BaseInv /\ Crash => BaseInv'
<1> SUFFICES ASSUME BaseInv, Crash PROVE BaseInv'
    OBVIOUS
<1> USE LedgerAssumption DEF Crash, locals
<1>1. EmptyChain \in Chain /\ Numbered(EmptyChain.entries)
    BY DEF EmptyChain, Chain, GenesisHash, Digest, Numbered
<1>2. TypeOK'
    BY <1>1 DEF BaseInv, TypeOK, Empty, Active, Ended
<1>3. LogNumbered'
    BY DEF BaseInv, LogNumbered, LogContiguous
<1>4. ChainsNumbered'
    BY <1>1 DEF BaseInv, ChainsNumbered
<1>5. (EnginesKnown /\ SeenBounded /\ LockedFresh /\ InsertedNext)'
    BY DEF BaseInv, TypeOK, EnginesKnown, SeenBounded, LockedFresh,
           InsertedNext, Empty, Active
<1>6. (StepsCounted /\ WriterLocked)'
    BY DEF BaseInv, TypeOK, StepsCounted, WriterLocked, Copied, Active
<1> QED
    BY <1>2, <1>3, <1>4, <1>5, <1>6 DEF BaseInv

(* The actions of a request. *)
LEMMA BaseBegin == ASSUME NEW r \in Requests PROVE BaseInv /\ Begin(r) => BaseInv'
<1> SUFFICES ASSUME BaseInv, Begin(r) PROVE BaseInv'
    OBVIOUS
<1> USE LedgerAssumption DEF db, server
<1>1. PICK k \in Kinds, n \in Nat :
          /\ k = "read" => n = 1
          /\ kind' = [kind EXCEPT ![r] = k]
          /\ ops' = [ops EXCEPT ![r] = n]
    <2>1. PICK k \in Kinds :
              /\ kind' = [kind EXCEPT ![r] = k]
              /\ \E n \in IF k = "purge" THEN 0 .. MaxPurge ELSE {1} :
                    ops' = [ops EXCEPT ![r] = n]
        BY DEF Begin
    <2>2. PICK n \in IF k = "purge" THEN 0 .. MaxPurge ELSE {1} :
              ops' = [ops EXCEPT ![r] = n]
        BY <2>1
    <2>3. n \in Nat /\ (k = "read" => n = 1)
        OBVIOUS
    <2> QED
        BY <2>1, <2>2, <2>3
<1>2. /\ pc[r] = "idle" /\ engine # 0
      /\ eng' = [eng EXCEPT ![r] = engine]
      /\ pc' = [pc EXCEPT ![r] = "begun"]
      /\ UNCHANGED <<db, server, step, snap, seen>>
    BY DEF Begin
<1>3. TypeOK'
    <2>1. /\ kind' \in [Requests -> Kinds]
          /\ ops' \in [Requests -> Nat]
        BY <1>1 DEF BaseInv, TypeOK
    <2>2. eng' \in [Requests -> 0 .. MaxEngines]
        BY <1>2 DEF BaseInv, TypeOK
    <2>3. pc' \in [Requests -> {"idle"} \cup Active \cup Ended]
        BY <1>2 DEF BaseInv, TypeOK, Active
    <2>4. writer # NoRequest => pc'[writer] \in Active
        BY <1>2 DEF BaseInv, TypeOK, Active
    <2> QED
        BY <1>2, <2>1, <2>2, <2>3, <2>4 DEF BaseInv, TypeOK
<1>4. LogNumbered'
    BY <1>2 DEF BaseInv, LogNumbered, LogContiguous
<1>5. ChainsNumbered'
    BY <1>2 DEF BaseInv, ChainsNumbered
<1>6. (EnginesKnown /\ SeenBounded /\ LockedFresh)'
    BY <1>2, SMTT(30) DEF BaseInv, TypeOK, EnginesKnown, SeenBounded, LockedFresh, Active
<1>7. InsertedNext'
    BY <1>2 DEF BaseInv, TypeOK, InsertedNext
<1>8. step[r] = 0 /\ step \in [Requests -> Nat]
    BY <1>2 DEF BaseInv, TypeOK, StepsCounted
<1>9. /\ kind'[r] = k /\ ops'[r] = n /\ pc'[r] = "begun"
      /\ \A q \in Requests \ {r} :
            kind'[q] = kind[q] /\ ops'[q] = ops[q] /\ pc'[q] = pc[q]
    BY <1>1, <1>2 DEF BaseInv, TypeOK
<1>10. StepsCounted'
    <2> SUFFICES ASSUME NEW q \in Requests
                 PROVE  (/\ step[q] <= ops[q]
                         /\ pc[q] = "idle" => step[q] = 0
                         /\ pc[q] = "begun" /\ kind[q] = "read" => step[q] = 0 /\ ops[q] = 1
                         /\ pc[q] = "locked" => step[q] < ops[q]
                         /\ pc[q] \in Copied \cup {"done"} => step[q] = ops[q])'
        BY DEF StepsCounted
    <2>1. CASE q = r
        BY <1>1, <1>2, <1>8, <1>9, <2>1 DEF Copied
    <2>2. CASE q # r
        BY <1>2, <1>9, <2>2 DEF BaseInv, StepsCounted
    <2> QED
        BY <2>1, <2>2
<1>11. WriterLocked'
    <2>1. ASSUME NEW q \in Requests \ {r}
          PROVE  (/\ pc[q] = "locked" => writer = q
                  /\ kind[q] # "read" /\ step[q] > 0 /\ pc[q] \in Active => writer = q)'
        BY <1>2, <1>9 DEF BaseInv, WriterLocked
    <2> QED
        BY <1>2, <1>8, <1>9, <2>1 DEF WriterLocked
<1> QED
    BY <1>3, <1>4, <1>5, <1>6, <1>7, <1>10, <1>11 DEF BaseInv

LEMMA BaseWriteRow == ASSUME NEW r \in Requests PROVE BaseInv /\ WriteRow(r) => BaseInv'
<1> SUFFICES ASSUME BaseInv, WriteRow(r) PROVE BaseInv'
    OBVIOUS
<1> USE LedgerAssumption DEF WriteRow, MayWrite, server, locals
<1>1. TypeOK'
    <2>1. pc' \in [Requests -> {"idle"} \cup Active \cup Ended]
        BY DEF BaseInv, TypeOK, Active
    <2>2. writer' # NoRequest => pc'[writer'] \in Active
        BY DEF BaseInv, TypeOK, Active
    <2> QED
        BY <2>1, <2>2 DEF BaseInv, TypeOK
<1>2. LogNumbered'
    BY DEF BaseInv, LogNumbered, LogContiguous
<1>3. ChainsNumbered'
    BY DEF BaseInv, ChainsNumbered
<1>4. (EnginesKnown /\ SeenBounded /\ LockedFresh)'
    BY DEF BaseInv, TypeOK, EnginesKnown, SeenBounded, LockedFresh, Active
<1>5. InsertedNext'
    BY DEF BaseInv, TypeOK, InsertedNext
<1>6. (StepsCounted /\ WriterLocked)'
    BY DEF BaseInv, TypeOK, StepsCounted, WriterLocked, Copied, Active
<1> QED
    BY <1>1, <1>2, <1>3, <1>4, <1>5, <1>6 DEF BaseInv

LEMMA BaseAppendAudit == ASSUME NEW r \in Requests PROVE BaseInv /\ AppendAudit(r) => BaseInv'
<1> SUFFICES ASSUME BaseInv, AppendAudit(r) PROVE BaseInv'
    OBVIOUS
<1> USE LedgerAssumption DEF db
<1> DEFINE old == chain[eng[r]]
           new == AppendEntry(old, r, step[r] + 1)
<1>1. eng[r] \in Engines /\ step[r] + 1 \in Nat /\ pc[r] \in {"begun", "locked"}
    BY DEF BaseInv, TypeOK, EnginesKnown, AppendAudit, Active, Engines
<1>2. old \in Chain /\ Numbered(old.entries)
    BY <1>1 DEF BaseInv, TypeOK, ChainsNumbered
<1>3. /\ new \in Chain
      /\ new.entries = Append(old.entries, NextEntry(old, r, step[r] + 1))
      /\ NextEntry(old, r, step[r] + 1).num = Len(old.entries) + 1
      /\ NextEntry(old, r, step[r] + 1) \in Entry
    BY <1>1, <1>2, AppendEntryType DEF NextEntry
<1>4. new.entries \in Seq(Entry) /\ Numbered(new.entries)
    <2>1. old.entries \in Seq(Entry) /\ new.entries \in Seq(Entry)
        BY <1>2, <1>3 DEF Chain
    <2> DEFINE e == NextEntry(old, r, step[r] + 1)
    <2>2. new.entries = Append(old.entries, e) /\ e.num = Len(old.entries) + 1
        BY <1>3
    <2> HIDE DEF old, new, e
    <2>3. \A i \in 1 .. Len(new.entries) :
              new.entries[i] = IF i <= Len(old.entries) THEN old.entries[i] ELSE e
        BY <2>1, <2>2
    <2> QED
        BY <1>2, <2>1, <2>2, <2>3 DEF Numbered
<1>5. /\ chain' = [chain EXCEPT ![eng[r]] = new]
      /\ \/ pc' = [pc EXCEPT ![r] = "appended"] /\ snap' = [snap EXCEPT ![r] = new.entries]
         \/ pc' = [pc EXCEPT ![r] = "begun"] /\ snap' = snap
      /\ step' = [step EXCEPT ![r] = step[r] + 1]
      /\ UNCHANGED <<db, engine, installed, unlocking, loadedChain, kind, eng, ops, seen>>
    BY DEF AppendAudit
<1> HIDE DEF old, new
<1>6. TypeOK'
    <2>1. pc' \in [Requests -> {"idle"} \cup Active \cup Ended]
        BY <1>1, <1>5 DEF BaseInv, TypeOK, Active
    <2>2. writer' # NoRequest => pc'[writer'] \in Active
        BY <1>1, <1>5 DEF BaseInv, TypeOK, Active
    <2>3. chain' \in [Engines -> Chain] /\ step' \in [Requests -> Nat]
        BY <1>1, <1>3, <1>5 DEF BaseInv, TypeOK
    <2>4. snap' \in [Requests -> Seq(Entry)]
        BY <1>4, <1>5 DEF BaseInv, TypeOK
    <2> QED
        BY <1>5, <2>1, <2>2, <2>3, <2>4 DEF BaseInv, TypeOK
<1>7. LogNumbered'
    BY <1>5 DEF BaseInv, LogNumbered, LogContiguous
<1>8. ChainsNumbered'
    BY <1>4, <1>5 DEF BaseInv, ChainsNumbered, TypeOK
<1>9. (EnginesKnown /\ SeenBounded /\ LockedFresh)'
    BY <1>1, <1>5 DEF BaseInv, TypeOK, EnginesKnown, SeenBounded,
                      LockedFresh, Active
<1>10. InsertedNext'
    BY <1>1, <1>5 DEF BaseInv, TypeOK, InsertedNext
<1>11. /\ step'[r] = step[r] + 1 /\ step[r] < ops[r]
       /\ pc'[r] = IF step[r] + 1 = ops[r] THEN "appended" ELSE "begun"
       /\ kind[r] = "read" => step[r] = 0 /\ ops[r] = 1
       /\ kind[r] # "read" => writer = r
       /\ \A q \in Requests \ {r} : step'[q] = step[q] /\ pc'[q] = pc[q]
    <2>1. step'[r] = step[r] + 1 /\ pc'[r] = IF step[r] + 1 = ops[r] THEN "appended" ELSE "begun"
        BY DEF AppendAudit, BaseInv, TypeOK
    <2>2. \A q \in Requests \ {r} : step'[q] = step[q] /\ pc'[q] = pc[q]
        BY <1>5 DEF BaseInv, TypeOK
    <2>3. /\ step[r] < ops[r]
          /\ kind[r] = "read" => step[r] = 0 /\ ops[r] = 1
          /\ kind[r] # "read" => writer = r
        BY DEF AppendAudit, BaseInv, StepsCounted, WriterLocked
    <2> QED
        BY <2>1, <2>2, <2>3
<1>12. ops \in [Requests -> Nat] /\ step \in [Requests -> Nat]
    BY DEF BaseInv, TypeOK
<1>13. StepsCounted'
    BY <1>5, <1>11, <1>12 DEF BaseInv, StepsCounted, Copied
<1>14. WriterLocked'
    BY <1>5, <1>11 DEF BaseInv, WriterLocked
<1> QED
    BY <1>6, <1>7, <1>8, <1>9, <1>10, <1>13, <1>14 DEF BaseInv

LEMMA BasePurgeNothing == ASSUME NEW r \in Requests PROVE BaseInv /\ PurgeNothing(r) => BaseInv'
<1> SUFFICES ASSUME BaseInv, PurgeNothing(r) PROVE BaseInv'
    OBVIOUS
<1> USE LedgerAssumption DEF PurgeNothing, db, server
<1>1. /\ eng[r] \in Engines
      /\ chain[eng[r]].entries \in Seq(Entry)
      /\ Numbered(chain[eng[r]].entries)
    BY DEF BaseInv, TypeOK, EnginesKnown, ChainsNumbered, Active, Engines, Chain
<1>2. TypeOK'
    <2>1. pc' \in [Requests -> {"idle"} \cup Active \cup Ended]
        BY DEF BaseInv, TypeOK, Active
    <2>2. writer' # NoRequest => pc'[writer'] \in Active
        BY DEF BaseInv, TypeOK, Active
    <2>3. snap' \in [Requests -> Seq(Entry)]
        BY <1>1 DEF BaseInv, TypeOK
    <2> QED
        BY <2>1, <2>2, <2>3 DEF BaseInv, TypeOK
<1>3. LogNumbered'
    BY DEF BaseInv, LogNumbered, LogContiguous
<1>4. ChainsNumbered'
    BY <1>1 DEF BaseInv, ChainsNumbered, TypeOK
<1>5. (EnginesKnown /\ SeenBounded /\ LockedFresh /\ InsertedNext)'
    BY DEF BaseInv, TypeOK, EnginesKnown, SeenBounded, LockedFresh,
           InsertedNext, Active
<1>6. (StepsCounted /\ WriterLocked)'
    BY SMTT(30) DEF BaseInv, TypeOK, StepsCounted, WriterLocked, Copied, Active
<1> QED
    BY <1>2, <1>3, <1>4, <1>5, <1>6 DEF BaseInv

LEMMA BaseReadMax == ASSUME NEW r \in Requests PROVE BaseInv /\ ReadMax(r) => BaseInv'
<1> SUFFICES ASSUME BaseInv, ReadMax(r) PROVE BaseInv'
    OBVIOUS
<1> USE LedgerAssumption DEF ReadMax, db, server
<1>1. TypeOK'
    <2>1. pc' \in [Requests -> {"idle"} \cup Active \cup Ended]
        BY DEF BaseInv, TypeOK, Active
    <2>2. writer' # NoRequest => pc'[writer'] \in Active
        BY DEF BaseInv, TypeOK, Active
    <2>3. seen' \in [Requests -> Nat]
        BY DEF BaseInv, TypeOK, LogNumbered
    <2> QED
        BY <2>1, <2>2, <2>3 DEF BaseInv, TypeOK
<1>2. LogNumbered'
    BY DEF BaseInv, LogNumbered, LogContiguous
<1>3. ChainsNumbered'
    BY DEF BaseInv, ChainsNumbered
<1>4. (EnginesKnown /\ InsertedNext)'
    BY DEF BaseInv, TypeOK, EnginesKnown, InsertedNext, Active
<1>6. /\ seen'[r] = HighestNumber(auditLog) /\ HighestNumber(auditLog) \in Nat
      /\ \A q \in Requests \ {r} : seen'[q] = seen[q] /\ pc'[q] = pc[q]
    BY DEF BaseInv, TypeOK, LogNumbered
<1>7. SeenBounded'
    BY <1>6 DEF BaseInv, SeenBounded
<1>8. LockedFresh'
    BY <1>6 DEF BaseInv, LockedFresh
<1>5. (StepsCounted /\ WriterLocked)'
    BY DEF BaseInv, TypeOK, StepsCounted, WriterLocked, Copied, Active
<1> QED
    BY <1>1, <1>2, <1>3, <1>4, <1>5, <1>7, <1>8 DEF BaseInv

(* In a numbered copy the new entries are those past the maximum read, each
   at the position of its number. *)
LEMMA NewNumbersOf ==
    ASSUME NEW r \in Requests, TypeOK, Numbered(snap[r])
    PROVE  /\ NewNumbers(r) = {n \in 1 .. Len(snap[r]) : n > seen[r]}
           /\ \A n \in NewNumbers(r) : /\ CopyOf(r, n) = snap[r][n]
                                       /\ CopyOf(r, n) \in Entry
                                       /\ CopyOf(r, n).num = n
<1>1. /\ snap[r] \in Seq(Entry)
      /\ DOMAIN snap[r] = 1 .. Len(snap[r])
      /\ \A i \in 1 .. Len(snap[r]) : snap[r][i] \in Entry
    BY DEF TypeOK
<1>2. \A i \in DOMAIN snap[r] : snap[r][i].num = i
    BY <1>1 DEF Numbered
<1>3. {snap[r][i].num : i \in DOMAIN snap[r]} = 1 .. Len(snap[r])
    BY <1>1, <1>2
<1>4. NewNumbers(r) = {n \in 1 .. Len(snap[r]) : n > seen[r]}
    BY <1>3 DEF NewNumbers
<1>5. ASSUME NEW n \in NewNumbers(r)
      PROVE  CopyOf(r, n) = snap[r][n]
    <2>1. n \in DOMAIN snap[r]
        BY <1>1, <1>4
    <2>2. (CHOOSE i \in DOMAIN snap[r] : snap[r][i].num = n) = n
        BY <1>2, <2>1
    <2> QED
        BY <2>2 DEF CopyOf
<1> QED
    BY <1>1, <1>2, <1>4, <1>5

LEMMA BaseFlushNothing == ASSUME NEW r \in Requests PROVE BaseInv /\ FlushNothing(r) => BaseInv'
<1> SUFFICES ASSUME BaseInv, FlushNothing(r) PROVE BaseInv'
    OBVIOUS
<1> USE LedgerAssumption DEF FlushNothing, db, server, locals
<1>1. TypeOK'
    <2>1. pc' \in [Requests -> {"idle"} \cup Active \cup Ended]
        BY DEF BaseInv, TypeOK, Active
    <2>2. writer' # NoRequest => pc'[writer'] \in Active
        BY DEF BaseInv, TypeOK, Active
    <2> QED
        BY <2>1, <2>2 DEF BaseInv, TypeOK
<1>2. LogNumbered'
    BY DEF BaseInv, LogNumbered, LogContiguous
<1>3. ChainsNumbered'
    BY DEF BaseInv, ChainsNumbered
<1>4. (EnginesKnown /\ SeenBounded /\ LockedFresh /\ InsertedNext)'
    BY DEF BaseInv, TypeOK, EnginesKnown, SeenBounded, LockedFresh,
           InsertedNext, Active
<1>5. (StepsCounted /\ WriterLocked)'
    BY DEF BaseInv, TypeOK, StepsCounted, WriterLocked, Copied, Active
<1> QED
    BY <1>1, <1>2, <1>3, <1>4, <1>5 DEF BaseInv

(* A flush that does not collide read the maximum that still is one: the rows
   it inserts start right after the log. *)
LEMMA FlushContinuesLog ==
    ASSUME NEW r \in Requests, BaseInv, FlushAudit(r)
    PROVE  /\ seen[r] = HighestNumber(auditLog)
           /\ NewNumbers(r) = HighestNumber(auditLog) + 1 .. Len(snap[r])
           /\ Len(snap[r]) > HighestNumber(auditLog)
<1>1. /\ NewNumbers(r) = {n \in 1 .. Len(snap[r]) : n > seen[r]}
      /\ Len(snap[r]) \in Nat /\ seen[r] \in Nat
    <2>1. TypeOK /\ Numbered(snap[r])
        BY DEF BaseInv, ChainsNumbered
    <2>2. Len(snap[r]) \in Nat /\ seen[r] \in Nat
        BY <2>1 DEF TypeOK
    <2> QED
        BY <2>1, <2>2, NewNumbersOf
<1>2. /\ HighestNumber(auditLog) \in Nat
      /\ DOMAIN auditLog = 1 .. HighestNumber(auditLog)
      /\ seen[r] <= HighestNumber(auditLog)
    BY DEF BaseInv, LogNumbered, LogContiguous, SeenBounded, FlushAudit
<1>3. PICK n \in 1 .. Len(snap[r]) : n > seen[r]
    BY <1>1 DEF FlushAudit
<1>4. seen[r] + 1 \in NewNumbers(r)
    BY <1>1, <1>3
<1>5. seen[r] + 1 \notin DOMAIN auditLog
    BY <1>4 DEF FlushAudit, Collides
<1>6. seen[r] = HighestNumber(auditLog)
    BY <1>1, <1>2, <1>5
<1> QED
    BY <1>1, <1>2, <1>3, <1>6

LEMMA BaseFlushAudit == ASSUME NEW r \in Requests PROVE BaseInv /\ FlushAudit(r) => BaseInv'
<1> SUFFICES ASSUME BaseInv, FlushAudit(r) PROVE BaseInv'
    OBVIOUS
<1> USE LedgerAssumption DEF server, locals
<1> DEFINE H == HighestNumber(auditLog)
<1>1. /\ pc[r] = "numbered" /\ writer \in {NoRequest, r}
      /\ writer' = r /\ pc' = [pc EXCEPT ![r] = "flushed"]
      /\ inserted' = [n \in NewNumbers(r) |-> RowOf(CopyOf(r, n))]
      /\ UNCHANGED <<auditLog, checkpoints, signed, server, locals>>
    BY DEF FlushAudit, MayWrite
<1>2. NewNumbers(r) = H + 1 .. Len(snap[r]) /\ H \in Nat /\ Len(snap[r]) \in Nat
    <2>1. H \in Nat /\ Len(snap[r]) \in Nat
        BY DEF BaseInv, LogNumbered, TypeOK
    <2> QED
        BY <2>1, FlushContinuesLog
<1>3. \A n \in NewNumbers(r) : CopyOf(r, n) \in Entry /\ CopyOf(r, n).num = n
    BY NewNumbersOf DEF BaseInv, ChainsNumbered
<1>4. /\ DOMAIN inserted' = H + 1 .. Len(snap[r])
      /\ \A n \in DOMAIN inserted' : inserted'[n] \in Entry /\ inserted'[n].num = n
    BY <1>1, <1>2, <1>3, RowOfType
<1>5. DOMAIN inserted' \subseteq Nat \ {0}
    BY <1>2, <1>4
<1>6. TypeOK'
    <2>1. pc' \in [Requests -> {"idle"} \cup Active \cup Ended]
        BY <1>1 DEF BaseInv, TypeOK, Active
    <2>2. writer' # NoRequest => pc'[writer'] \in Active
        BY <1>1 DEF BaseInv, TypeOK, Active
    <2>3. writer' \in Requests \cup {NoRequest} /\ writer' # NoRequest
        BY <1>1
    <2> QED
        BY <1>1, <1>4, <1>5, <2>1, <2>2, <2>3 DEF BaseInv, TypeOK
<1>7. LogNumbered'
    BY <1>1 DEF BaseInv, LogNumbered, LogContiguous
<1>8. ChainsNumbered'
    BY <1>1 DEF BaseInv, ChainsNumbered
<1>9. (EnginesKnown /\ SeenBounded /\ LockedFresh)'
    BY <1>1 DEF BaseInv, TypeOK, EnginesKnown, SeenBounded, LockedFresh, Active
<1>10. InsertedNext'
    BY <1>1, <1>4 DEF BaseInv, TypeOK, InsertedNext
<1>11. (StepsCounted /\ WriterLocked)'
    BY <1>1 DEF BaseInv, TypeOK, StepsCounted, WriterLocked, Copied, Active
<1> QED
    BY <1>6, <1>7, <1>8, <1>9, <1>10, <1>11 DEF BaseInv

(* A rollback of r, whatever made it end, keeps the invariant. *)
LEMMA BaseRollback ==
    ASSUME NEW r \in Requests, BaseInv, pc[r] \in Active, Rollback(r),
           pc' = [pc EXCEPT ![r] = "failed"], UNCHANGED <<server, locals>>
    PROVE  BaseInv'
<1> USE LedgerAssumption DEF server, locals
<1>1. UNCHANGED auditLog
    BY DEF Rollback
<1>2. ASSUME writer = r
      PROVE  (TypeOK /\ LockedFresh /\ InsertedNext /\ WriterLocked)'
    <2>1. writer' = NoRequest /\ DOMAIN inserted' = {} /\ DOMAIN signed' = {}
        BY <1>2 DEF Rollback, Empty
    <2>2. pc' \in [Requests -> {"idle"} \cup Active \cup Ended]
        BY DEF BaseInv, TypeOK, Ended
    <2>3. TypeOK'
        BY <2>1, <2>2 DEF BaseInv, TypeOK, Rollback
    <2>4. (LockedFresh /\ InsertedNext)'
        BY <2>1 DEF LockedFresh, InsertedNext
    <2>5. WriterLocked'
        BY <1>2, <2>1 DEF BaseInv, TypeOK, WriterLocked, Active
    <2> QED
        BY <2>3, <2>4, <2>5
<1>3. ASSUME writer # r
      PROVE  (TypeOK /\ LockedFresh /\ InsertedNext /\ WriterLocked)'
    <2>1. UNCHANGED db
        BY <1>3 DEF Rollback, db
    <2>2. /\ pc' \in [Requests -> {"idle"} \cup Active \cup Ended]
          /\ writer # NoRequest => pc'[writer] = pc[writer]
        BY <1>3 DEF BaseInv, TypeOK, Ended
    <2>3. TypeOK'
        BY <2>1, <2>2 DEF BaseInv, TypeOK, db
    <2>4. (LockedFresh /\ InsertedNext)'
        BY <1>3, <2>1, <2>2 DEF BaseInv, TypeOK, LockedFresh, InsertedNext, db
    <2>5. WriterLocked'
        BY <2>1 DEF BaseInv, TypeOK, WriterLocked, Active, db
    <2> QED
        BY <2>3, <2>4, <2>5
<1>4. LogNumbered'
    BY <1>1 DEF BaseInv, LogNumbered, LogContiguous
<1>5. ChainsNumbered'
    BY DEF BaseInv, ChainsNumbered
<1>6. (EnginesKnown /\ SeenBounded)'
    BY <1>1 DEF BaseInv, TypeOK, EnginesKnown, SeenBounded, Active
<1>7. StepsCounted'
    BY DEF BaseInv, TypeOK, StepsCounted, Copied, Active
<1> QED
    BY <1>2, <1>3, <1>4, <1>5, <1>6, <1>7 DEF BaseInv

LEMMA BaseRejectFlush == ASSUME NEW r \in Requests PROVE BaseInv /\ RejectFlush(r) => BaseInv'
    BY BaseRollback DEF RejectFlush, Active

LEMMA BaseFail == ASSUME NEW r \in Requests PROVE BaseInv /\ Fail(r) => BaseInv'
    BY BaseRollback DEF Fail

LEMMA BaseSignCheckpoint ==
    ASSUME NEW r \in Requests PROVE BaseInv /\ SignCheckpoint(r) => BaseInv'
<1> SUFFICES ASSUME BaseInv, SignCheckpoint(r) PROVE BaseInv'
    OBVIOUS
<1> USE LedgerAssumption DEF SignCheckpoint, server, locals
<1>1. Len(snap[r]) \div Interval \in Nat /\ chain[eng[r]].last \in Digest
    <2>1. Len(snap[r]) \in Nat /\ Interval \in Nat \ {0}
        BY DEF BaseInv, TypeOK, CheckpointDue
    <2>2. \A a \in Nat, b \in Nat \ {0} : a \div b \in Nat
        OBVIOUS
    <2>3. chain[eng[r]] \in Chain
        BY DEF BaseInv, TypeOK, EnginesKnown, Active, Engines
    <2> QED
        BY <2>1, <2>2, <2>3 DEF Chain
<1>2. TypeOK'
    <2>1. writer = r /\ writer # NoRequest
        BY DEF CheckpointDue
    <2>2. signed' = [n \in {Len(snap[r]) \div Interval} |-> chain[eng[r]].last]
        OBVIOUS
    <2>3. /\ DOMAIN signed' \subseteq Nat
          /\ \A n \in DOMAIN signed' : signed'[n] \in Digest
        BY <1>1, <2>2
    <2>4. pc' = [pc EXCEPT ![r] = "signed"]
        OBVIOUS
    <2> QED
        BY <2>1, <2>3, <2>4 DEF BaseInv, TypeOK, Active
<1>3. LogNumbered'
    BY DEF BaseInv, LogNumbered, LogContiguous
<1>4. ChainsNumbered'
    BY DEF BaseInv, ChainsNumbered
<1>5. (EnginesKnown /\ SeenBounded /\ LockedFresh /\ InsertedNext)'
    BY DEF BaseInv, TypeOK, EnginesKnown, SeenBounded, LockedFresh,
           InsertedNext, Active
<1>6. (StepsCounted /\ WriterLocked)'
    BY DEF BaseInv, TypeOK, StepsCounted, WriterLocked, Copied, Active
<1> QED
    BY <1>2, <1>3, <1>4, <1>5, <1>6 DEF BaseInv

(* Committing appends the inserted rows to the log. *)
LEMMA CommitExtendsLog ==
    ASSUME NEW r \in Requests, BaseInv, Commit(r)
    PROVE  /\ LogNumbered'
           /\ HighestNumber(auditLog)' >= HighestNumber(auditLog)
           /\ writer = r /\ DOMAIN inserted # {} =>
                 HighestNumber(auditLog)' = Len(snap[r])
           /\ writer # r \/ DOMAIN inserted = {} =>
                 HighestNumber(auditLog)' = HighestNumber(auditLog)
           /\ \A n \in DOMAIN auditLog : n \in DOMAIN auditLog' /\ auditLog'[n] = auditLog[n]
           /\ \A n \in DOMAIN auditLog' : auditLog'[n] \in Entry
<1> DEFINE H == HighestNumber(auditLog)
<1>1. H \in Nat /\ DOMAIN auditLog = 1 .. H /\ Len(snap[r]) \in Nat
    BY DEF BaseInv, LogNumbered, LogContiguous, TypeOK
<1>2. CASE writer = r /\ DOMAIN inserted # {}
    <2>1. auditLog' = Merge(auditLog, inserted)
        BY <1>2 DEF Commit
    <2>2. DOMAIN inserted = H + 1 .. Len(snap[r]) /\ Len(snap[r]) > H
        BY <1>1, <1>2 DEF BaseInv, InsertedNext
    <2>3. DOMAIN auditLog' = 1 .. Len(snap[r])
        BY <1>1, <2>1, <2>2 DEF Merge
    <2>4. \A n \in 1 .. Len(snap[r]) :
              auditLog'[n] = IF n \in DOMAIN auditLog THEN auditLog[n] ELSE inserted[n]
        BY <1>1, <2>1, <2>2 DEF Merge
    <2>5. \A n \in 1 .. Len(snap[r]) : auditLog'[n] \in Entry /\ auditLog'[n].num = n
        <3>1. \A n \in DOMAIN auditLog : auditLog[n] \in Entry /\ auditLog[n].num = n
            BY DEF BaseInv, TypeOK, LogNumbered, LogContiguous
        <3>2. \A n \in DOMAIN inserted : inserted[n] \in Entry /\ inserted[n].num = n
            BY DEF BaseInv, TypeOK, InsertedNext
        <3> QED
            BY <1>1, <2>2, <2>4, <3>1, <3>2
    <2>6. HighestNumber(auditLog') = Len(snap[r])
        BY <1>1, <2>3, HighestOfRange
    <2> QED
        BY <1>1, <1>2, <2>2, <2>3, <2>4, <2>5, <2>6 DEF LogNumbered, LogContiguous
<1>3. CASE writer = r /\ DOMAIN inserted = {}
    <2>1. auditLog' = Merge(auditLog, inserted)
        BY <1>3 DEF Commit
    <2>2. DOMAIN auditLog' = 1 .. H
        BY <1>1, <1>3, <2>1 DEF Merge
    <2>3. \A n \in 1 .. H : auditLog'[n] = auditLog[n]
        BY <1>1, <1>3, <2>1 DEF Merge
    <2>4. \A n \in 1 .. H : auditLog[n] \in Entry /\ auditLog[n].num = n
        BY <1>1 DEF BaseInv, TypeOK, LogNumbered, LogContiguous
    <2>5. HighestNumber(auditLog') = H
        BY <1>1, <2>2, HighestOfRange
    <2> QED
        BY <1>1, <1>3, <2>2, <2>3, <2>4, <2>5 DEF LogNumbered, LogContiguous
<1>4. CASE writer # r
    BY <1>1, <1>4 DEF BaseInv, LogNumbered, LogContiguous, TypeOK, Commit, db
<1> QED
    BY <1>2, <1>3, <1>4

LEMMA BaseCommit == ASSUME NEW r \in Requests PROVE BaseInv /\ Commit(r) => BaseInv'
<1> SUFFICES ASSUME BaseInv, Commit(r) PROVE BaseInv'
    OBVIOUS
<1> USE LedgerAssumption DEF server, locals
<1>1. /\ LogNumbered'
      /\ HighestNumber(auditLog)' >= HighestNumber(auditLog)
      /\ \A n \in DOMAIN auditLog' : auditLog'[n] \in Entry
    BY CommitExtendsLog
<1>2. /\ pc[r] \in {"flushed", "signed"} /\ pc' = [pc EXCEPT ![r] = "done"]
      /\ UNCHANGED <<server, locals>>
      /\ \/ writer = r /\ writer' = NoRequest /\ inserted' = Empty /\ signed' = Empty
            /\ checkpoints' = Merge(checkpoints, signed)
         \/ writer # r /\ UNCHANGED db
    BY DEF Commit, MayCommit
<1>3. /\ DOMAIN auditLog' \subseteq Nat \ {0}
      /\ DOMAIN checkpoints' \subseteq Nat
      /\ \A n \in DOMAIN checkpoints' : checkpoints'[n] \in Digest
    <2>1. DOMAIN auditLog' \subseteq Nat \ {0}
        BY <1>1 DEF LogNumbered, LogContiguous
    <2> QED
        BY <1>2, <2>1 DEF BaseInv, TypeOK, Merge, db
<1>4. TypeOK'
    BY <1>1, <1>2, <1>3 DEF BaseInv, TypeOK, Ended, Empty, db
<1>5. ChainsNumbered'
    BY <1>2 DEF BaseInv, ChainsNumbered
<1>6. (EnginesKnown)'
    BY <1>2 DEF BaseInv, TypeOK, EnginesKnown, Active, db
<1>7. SeenBounded'
    BY <1>1, <1>2 DEF BaseInv, TypeOK, SeenBounded, LogNumbered
<1>8. LockedFresh'
    BY <1>2 DEF BaseInv, TypeOK, LockedFresh, db
<1>9. InsertedNext'
    BY <1>2 DEF BaseInv, TypeOK, InsertedNext, Empty, db
<1>10. (StepsCounted /\ WriterLocked)'
    BY <1>2 DEF BaseInv, TypeOK, StepsCounted, WriterLocked, Copied, Active, db
<1> QED
    BY <1>1, <1>4, <1>5, <1>6, <1>7, <1>8, <1>9, <1>10 DEF BaseInv

LEMMA BaseStutter == BaseInv /\ UNCHANGED vars => BaseInv'
<1> SUFFICES ASSUME BaseInv, UNCHANGED vars PROVE BaseInv'
    OBVIOUS
<1> USE DEF vars, db, server, locals
<1>1. TypeOK' /\ LogNumbered' /\ ChainsNumbered'
    BY DEF BaseInv, TypeOK, LogNumbered, LogContiguous, ChainsNumbered
<1>2. (EnginesKnown /\ SeenBounded /\ LockedFresh /\ InsertedNext)'
    BY DEF BaseInv, EnginesKnown, SeenBounded, LockedFresh, InsertedNext
<1>3. (StepsCounted /\ WriterLocked)'
    BY DEF BaseInv, StepsCounted, WriterLocked
<1> QED
    BY <1>1, <1>2, <1>3 DEF BaseInv

(* The invariant is inductive. *)
LEMMA BaseStep == BaseInv /\ [Next]_vars => BaseInv'
<1> SUFFICES ASSUME BaseInv, [Next]_vars PROVE BaseInv'
    OBVIOUS
<1>1. CASE LoadChain
    BY <1>1, BaseLoadChain
<1>2. CASE InstallEngine
    BY <1>2, BaseInstallEngine
<1>3. CASE Crash
    BY <1>3, BaseCrash
<1>4. CASE \E r \in Requests : Begin(r) \/ Progress(r) \/ Fail(r)
    BY <1>4, BaseBegin, BaseFail, BaseWriteRow, BaseAppendAudit, BasePurgeNothing,
       BaseReadMax, BaseFlushNothing, BaseFlushAudit, BaseRejectFlush,
       BaseSignCheckpoint, BaseCommit
       DEF Progress
<1>5. CASE UNCHANGED vars
    BY <1>5, BaseStutter
<1> QED
    BY <1>1, <1>2, <1>3, <1>4, <1>5 DEF Next

(* The base invariant holds in every behaviour. *)
THEOREM BaseCorrect == Spec => []BaseInv
<1>1. Init => BaseInv
    BY BaseInit
<1>2. BaseInv /\ [Next]_vars => BaseInv'
    BY BaseStep
<1> QED
    BY <1>1, <1>2, PTL DEF Spec

(* Type correctness of the ledger, under any interleaving of requests, engine
   replacements and crashes. *)
THEOREM TypeCorrect == Spec => []TypeOK
<1>1. BaseInv => TypeOK
    BY DEF BaseInv
<1> QED
    BY <1>1, BaseCorrect, PTL

(* The persisted entry numbers are always 1 .. n: the maximum that
   _persist_audit reads before it inserts may be stale, and the UNIQUE column
   is what keeps the log without holes, even when an engine is replaced under
   load. *)
THEOREM LogAlwaysContiguous == Spec => []LogContiguous
<1>1. BaseInv => LogContiguous
    BY DEF BaseInv, LogNumbered
<1> QED
    BY <1>1, BaseCorrect, PTL

(* A put, a delete or a purge that found something takes the lock before it
   appends and keeps it, so that the maximum it reads is still the maximum when
   it inserts: it never meets the UNIQUE constraint. *)
THEOREM WritesAlwaysFresh == Spec => []WritesNeverCollide
<1>1. BaseInv => WritesNeverCollide
    <2> SUFFICES ASSUME BaseInv, NEW r \in Requests,
                        kind[r] # "read", ops[r] > 0, pc[r] = "numbered"
                 PROVE  seen[r] = HighestNumber(auditLog)
        BY DEF WritesNeverCollide
    <2>1. step[r] > 0
        BY DEF BaseInv, StepsCounted, Copied
    <2>2. writer = r
        BY <2>1 DEF BaseInv, WriterLocked, Active
    <2> QED
        BY <2>2 DEF BaseInv, LockedFresh
<1> QED
    BY <1>1, BaseCorrect, PTL
=============================================================================
