---------------------------- MODULE LedgerHotProofs ----------------------------
(***************************************************************************)
(* What the ledger keeps for every set of requests and every interval even *)
(* with engines replaced under load (HotUnlock = TRUE).  A digest is as    *)
(* long as the chain was when it was computed, so the hash a checkpoint    *)
(* signs is none of the entries before the ones it counts.  An operation   *)
(* has one entry number wherever it is kept, so that it is recorded once.  *)
(***************************************************************************)
EXTENDS LedgerProofs

-----------------------------------------------------------------------------
(* Checkpoints: the invariant, beside BaseInv. *)

(* The i-th entry is the i-th digest computed from genesis. *)
DeepEntries(s) == \A i \in 1 .. Len(s) : Len(s[i].hash) = i
DeepRows(t)    == \A n \in DOMAIN t : Len(t[n].hash) = n
Deep(c)        == Len(c.last) = Len(c.entries) /\ DeepEntries(c.entries)

ChainsDeep ==
    /\ \A g \in Engines : Deep(chain[g])
    /\ Deep(loadedChain)
    /\ \A r \in Requests : DeepEntries(snap[r])

(* A copy is never longer than the chain it was taken from. *)
CopiesBehind ==
    \A r \in Requests : pc[r] \in Copied => Len(snap[r]) <= Len(chain[eng[r]].entries)

TablesDeep == DeepRows(auditLog) /\ DeepRows(inserted)

(* A checkpoint about to be committed comes with rows up to the end of the
   copy it was numbered by. *)
SignedWithRows ==
    /\ DOMAIN signed # {} => /\ writer # NoRequest /\ pc[writer] = "signed"
                             /\ DOMAIN inserted # {}
    /\ \A k \in DOMAIN signed : /\ k * Interval <= Len(snap[writer])
                                /\ k * Interval <= Len(signed[k])
    /\ DOMAIN inserted = {} => inserted = Empty

CheckpointsDeep ==
    \A k \in DOMAIN checkpoints : /\ k * Interval <= HighestNumber(auditLog)
                                  /\ k * Interval <= Len(checkpoints[k])

DepthInv ==
    /\ ChainsDeep
    /\ CopiesBehind
    /\ TablesDeep
    /\ SignedWithRows
    /\ CheckpointsDeep

-----------------------------------------------------------------------------
(* The parts of a step that leave a part of the invariant as it is. *)

LEMMA EmptyIsDeep ==
    /\ Deep(EmptyChain) /\ DeepRows(Empty) /\ DOMAIN Empty = {}
    /\ DeepEntries(<< >>)
    BY DEF Deep, DeepEntries, DeepRows, EmptyChain, GenesisHash, Empty

(* A step that appends nothing and commits nothing: what the transaction has
   stays, or is rolled back. *)
LEMMA DepthFrame ==
    ASSUME BaseInv, DepthInv,
           UNCHANGED <<auditLog, checkpoints, chain, loadedChain, snap>>,
           \A q \in Requests : pc'[q] \in Copied => pc[q] \in Copied /\ eng'[q] = eng[q],
           \/ /\ inserted' = inserted /\ signed' = signed
              /\ DOMAIN signed # {} => writer' = writer /\ pc'[writer] = pc[writer]
           \/ inserted' = Empty /\ signed' = Empty
    PROVE  DepthInv'
<1>1. ChainsDeep'
    BY DEF DepthInv, ChainsDeep
<1>2. CopiesBehind'
    BY DEF DepthInv, CopiesBehind
<1>3. TablesDeep' /\ SignedWithRows'
  <2>1. CASE inserted' = Empty /\ signed' = Empty
      BY <2>1, EmptyIsDeep DEF DepthInv, TablesDeep, SignedWithRows
  <2>2. CASE /\ inserted' = inserted /\ signed' = signed
             /\ DOMAIN signed # {} => writer' = writer /\ pc'[writer] = pc[writer]
      BY <2>2 DEF DepthInv, TablesDeep, SignedWithRows
  <2> QED
      BY <2>1, <2>2
<1>4. CheckpointsDeep'
    BY DEF DepthInv, CheckpointsDeep
<1> QED
    BY <1>1, <1>2, <1>3, <1>4 DEF DepthInv

(* A request that has not signed, and may write, finds nothing signed. *)
LEMMA NothingSigned ==
    ASSUME BaseInv, DepthInv, NEW r \in Requests, MayWrite(r), pc[r] # "signed"
    PROVE  DOMAIN signed = {}
    BY DEF BaseInv, TypeOK, DepthInv, SignedWithRows, MayWrite

-----------------------------------------------------------------------------
(* Steps. *)

LEMMA DepthBegin == ASSUME BaseInv, DepthInv, NEW r \in Requests, Begin(r) PROVE DepthInv'
<1>1. /\ pc[r] = "idle" /\ pc' = [pc EXCEPT ![r] = "begun"] /\ eng' = [eng EXCEPT ![r] = engine]
      /\ UNCHANGED <<auditLog, checkpoints, chain, loadedChain, snap, inserted, signed, writer>>
    BY DEF Begin, db, server
<1>2. pc \in [Requests -> {"idle"} \cup Active \cup Ended] /\ eng \in [Requests -> 0 .. MaxEngines]
    BY DEF BaseInv, TypeOK
<1>3. \A q \in Requests : pc'[q] \in Copied => pc[q] \in Copied /\ eng'[q] = eng[q]
    BY <1>1, <1>2 DEF Copied
<1>4. DOMAIN signed # {} => pc'[writer] = pc[writer]
    BY <1>1, <1>2 DEF DepthInv, SignedWithRows
<1> QED
    BY <1>1, <1>3, <1>4, DepthFrame

(* What only moves r on. *)
LEMMA DepthMoves ==
    ASSUME BaseInv, DepthInv, NEW r \in Requests, NEW to, pc' = [pc EXCEPT ![r] = to],
           UNCHANGED <<auditLog, checkpoints, chain, loadedChain, snap, inserted, signed, eng>>,
           to \in Copied => pc[r] \in Copied,
           DOMAIN signed # {} => writer' = writer /\ pc[r] # "signed"
    PROVE  DepthInv'
<1>1. pc \in [Requests -> {"idle"} \cup Active \cup Ended]
    BY DEF BaseInv, TypeOK
<1>2. \A q \in Requests : pc'[q] \in Copied => pc[q] \in Copied
    BY <1>1
<1>3. DOMAIN signed # {} => pc'[writer] = pc[writer]
    BY <1>1 DEF DepthInv, SignedWithRows, BaseInv, TypeOK
<1> QED
    BY <1>2, <1>3, DepthFrame

LEMMA DepthWriteRow == ASSUME BaseInv, DepthInv, NEW r \in Requests, WriteRow(r) PROVE DepthInv'
<1>1. DOMAIN signed = {}
    BY NothingSigned DEF WriteRow
<1> QED
    BY <1>1, DepthMoves DEF WriteRow, server, locals, Copied

LEMMA DepthReadMax == ASSUME BaseInv, DepthInv, NEW r \in Requests, ReadMax(r) PROVE DepthInv'
    BY DepthMoves DEF ReadMax, db, server, Copied

LEMMA DepthFlushNothing == ASSUME BaseInv, DepthInv, NEW r \in Requests, FlushNothing(r) PROVE DepthInv'
    BY DepthMoves DEF FlushNothing, db, server, locals, Copied

LEMMA DepthRollback ==
    ASSUME BaseInv, DepthInv, NEW r \in Requests, Rollback(r), pc' = [pc EXCEPT ![r] = "failed"],
           UNCHANGED <<server, locals>>
    PROVE  DepthInv'
<1>1. pc \in [Requests -> {"idle"} \cup Active \cup Ended]
    BY DEF BaseInv, TypeOK
<1>2. \A q \in Requests : pc'[q] \in Copied => pc[q] \in Copied /\ eng'[q] = eng[q]
    BY <1>1 DEF Copied, locals
<1>3. UNCHANGED <<auditLog, checkpoints, chain, loadedChain, snap>>
    BY DEF Rollback, server, locals
<1>4. CASE writer = r
    BY <1>2, <1>3, <1>4, DepthFrame DEF Rollback
<1>5. CASE writer # r
  <2>1. inserted' = inserted /\ signed' = signed /\ writer' = writer
      BY <1>5 DEF Rollback
  <2>2. DOMAIN signed # {} => pc'[writer] = pc[writer]
      BY <1>1, <1>5 DEF BaseInv, TypeOK
  <2> QED
      BY <1>2, <1>3, <2>1, <2>2, DepthFrame
<1> QED
    BY <1>4, <1>5

LEMMA DepthCrash == ASSUME BaseInv, DepthInv, Crash PROVE DepthInv'
<1>1. /\ inserted' = Empty /\ signed' = Empty
      /\ chain' = [g \in Engines |-> EmptyChain] /\ loadedChain' = EmptyChain
      /\ UNCHANGED <<auditLog, checkpoints, snap>>
      /\ pc' = [r \in Requests |-> IF pc[r] \in Active THEN "lost" ELSE pc[r]]
    BY DEF Crash, locals
<1>2. ChainsDeep'
    BY <1>1, EmptyIsDeep DEF DepthInv, ChainsDeep
<1>3. CopiesBehind'
    BY <1>1 DEF CopiesBehind, Copied, Active
<1>4. TablesDeep' /\ SignedWithRows' /\ CheckpointsDeep'
    BY <1>1, EmptyIsDeep DEF DepthInv, TablesDeep, SignedWithRows, CheckpointsDeep
<1> QED
    BY <1>2, <1>3, <1>4 DEF DepthInv

LEMMA DepthLoadChain == ASSUME BaseInv, DepthInv, LoadChain PROVE DepthInv'
<1>1. /\ UNCHANGED <<auditLog, checkpoints, writer, inserted, signed, chain, snap, pc, eng>>
      /\ loadedChain' = LoadedChain(auditLog)
    BY DEF LoadChain, db, locals
<1> DEFINE H == HighestNumber(auditLog)
<1>2. H \in Nat /\ DOMAIN auditLog = 1 .. H /\ \A i \in 1 .. H : auditLog[i] \in Entry
    BY DEF BaseInv, LogNumbered, LogContiguous, TypeOK
<1>3. /\ Len(loadedChain'.entries) = H
      /\ \A i \in 1 .. H : loadedChain'.entries[i] = auditLog[i]
      /\ loadedChain'.last = IF H = 0 THEN GenesisHash ELSE auditLog[H].hash
    BY <1>1, <1>2, LoadedOfRange
<1>4. \A i \in 1 .. H : Len(auditLog[i].hash) = i
    BY <1>2 DEF DepthInv, TablesDeep, DeepRows
<1>5. Deep(loadedChain')
    BY <1>2, <1>3, <1>4 DEF Deep, DeepEntries, GenesisHash
<1>6. ChainsDeep'
    BY <1>1, <1>5 DEF DepthInv, ChainsDeep
<1> QED
    BY <1>1, <1>6 DEF DepthInv, CopiesBehind, TablesDeep, SignedWithRows, CheckpointsDeep

LEMMA DepthInstallEngine == ASSUME BaseInv, DepthInv, InstallEngine PROVE DepthInv'
<1>1. /\ UNCHANGED <<auditLog, checkpoints, writer, inserted, signed, snap, pc, eng>>
      /\ chain' = [chain EXCEPT ![installed + 1] = loadedChain] /\ loadedChain' = EmptyChain
    BY DEF InstallEngine, db, locals
<1>2. chain \in [Engines -> Chain] /\ installed \in Nat
    BY LedgerAssumption DEF BaseInv, TypeOK
<1>3. ChainsDeep'
    BY <1>1, <1>2, EmptyIsDeep DEF DepthInv, ChainsDeep
<1>4. \A q \in Requests : pc[q] \in Copied => chain'[eng[q]] = chain[eng[q]]
    BY <1>1, <1>2, LedgerAssumption DEF BaseInv, TypeOK, EnginesKnown, Copied, Active, Engines
<1>5. CopiesBehind'
    BY <1>1, <1>4 DEF DepthInv, CopiesBehind
<1> QED
    BY <1>1, <1>3, <1>5 DEF DepthInv, TablesDeep, SignedWithRows, CheckpointsDeep

LEMMA DepthAppendAudit == ASSUME BaseInv, DepthInv, NEW r \in Requests, AppendAudit(r) PROVE DepthInv'
<1> DEFINE old   == chain[eng[r]]
           entry == NextEntry(old, r, step[r] + 1)
           new   == AppendEntry(old, r, step[r] + 1)
<1>1. eng[r] \in Engines /\ step[r] + 1 \in Nat /\ pc[r] \in {"begun", "locked"}
    BY DEF BaseInv, TypeOK, EnginesKnown, AppendAudit, Active, Engines
<1>2. old \in Chain /\ Deep(old)
    BY <1>1 DEF BaseInv, TypeOK, DepthInv, ChainsDeep
<1>3. /\ old.entries \in Seq(Entry) /\ old.last \in Digest
      /\ new.entries = Append(old.entries, entry) /\ new.last = entry.hash
      /\ entry \in Entry
    BY <1>1, <1>2, AppendEntryType DEF Chain
<1>4. Len(entry.hash) = Len(old.entries) + 1
  <2> DEFINE body == [num |-> Len(old.entries) + 1, req |-> r, op |-> step[r] + 1, stamp |-> "aware"]
  <2>1. entry.hash = Append(old.last, body)
      BY DEF NextEntry
  <2>2. old.last \in Seq(Content) /\ Len(old.last) = Len(old.entries)
      BY <1>2, <1>3 DEF Deep, Digest
  <2> HIDE DEF body, old, entry
  <2>3. Len(Append(old.last, body)) = Len(old.last) + 1
      BY <2>2
  <2> QED
      BY <2>1, <2>2, <2>3
<1>5. Len(new.entries) = Len(old.entries) + 1 /\ Deep(new)
  <2>1. Len(new.entries) = Len(old.entries) + 1
      BY <1>3
  <2>2. \A i \in 1 .. Len(new.entries) :
            new.entries[i] = IF i <= Len(old.entries) THEN old.entries[i] ELSE entry
      BY <1>3
  <2>3. \A i \in 1 .. Len(new.entries) : Len(new.entries[i].hash) = i
    <3>1. Len(old.entries) \in Nat /\ \A i \in 1 .. Len(old.entries) : Len(old.entries[i].hash) = i
        BY <1>2, <1>3 DEF Deep, DeepEntries
    <3> HIDE DEF new, old, entry
    <3>2. TAKE i \in 1 .. Len(new.entries)
    <3>3. CASE i <= Len(old.entries)
        BY <2>1, <2>2, <3>1, <3>3
    <3>4. CASE i > Len(old.entries)
      <4>1. i = Len(old.entries) + 1 /\ new.entries[i] = entry
          BY <2>1, <2>2, <3>1, <3>4
      <4> QED
          BY <1>4, <4>1
    <3> QED
        BY <3>1, <3>3, <3>4
  <2> QED
      BY <1>3, <1>4, <2>1, <2>3 DEF Deep, DeepEntries
<1> HIDE DEF new
<1>6. /\ chain' = [chain EXCEPT ![eng[r]] = new]
      /\ UNCHANGED <<db, loadedChain, eng>>
      /\ \/ pc' = [pc EXCEPT ![r] = "appended"] /\ snap' = [snap EXCEPT ![r] = new.entries]
         \/ pc' = [pc EXCEPT ![r] = "begun"] /\ UNCHANGED snap
    BY DEF AppendAudit, new
<1>7. /\ chain \in [Engines -> Chain] /\ snap \in [Requests -> Seq(Entry)]
      /\ pc \in [Requests -> {"idle"} \cup Active \cup Ended]
      /\ \A q \in Requests : pc[q] \in Copied => eng[q] \in Engines
    BY DEF BaseInv, TypeOK, EnginesKnown, Copied, Active, Engines
<1>8. ChainsDeep'
  <2>1. (\A g \in Engines : Deep(chain[g]))' /\ Deep(loadedChain)'
      BY <1>5, <1>6, <1>7 DEF DepthInv, ChainsDeep
  <2>2. (\A q \in Requests : DeepEntries(snap[q]))'
      BY <1>5, <1>6, <1>7 DEF DepthInv, ChainsDeep, Deep
  <2> QED
      BY <2>1, <2>2 DEF ChainsDeep
<1>9. CopiesBehind'
  <2> SUFFICES ASSUME NEW q \in Requests, pc'[q] \in Copied
               PROVE  Len(snap'[q]) <= Len(chain'[eng'[q]].entries)
      BY DEF CopiesBehind
  <2>1. CASE q = r
      BY <1>1, <1>3, <1>5, <1>6, <1>7, <2>1 DEF Copied
  <2>2. CASE q # r
    <3>1. pc[q] \in Copied /\ snap'[q] = snap[q] /\ eng'[q] = eng[q]
        BY <1>6, <1>7, <2>2
    <3>2. Len(snap[q]) <= Len(chain[eng[q]].entries)
        BY <3>1 DEF DepthInv, CopiesBehind
    <3>3. chain[eng[q]].entries \in Seq(Entry) /\ snap[q] \in Seq(Entry)
        BY <1>7, <3>1 DEF Chain
    <3>4. Len(chain'[eng[q]].entries) >= Len(chain[eng[q]].entries)
        BY <1>1, <1>3, <1>5, <1>6, <1>7, <3>1, <3>3
    <3>5. Len(chain'[eng[q]].entries) \in Nat
        BY <1>1, <1>3, <1>5, <1>6, <1>7, <3>1, <3>3
    <3> QED
        BY <3>1, <3>2, <3>3, <3>4, <3>5
  <2> QED
      BY <2>1, <2>2
<1>10. SignedWithRows'
  <2>1. DOMAIN signed # {} => writer # r /\ writer \in Requests
      BY <1>1 DEF DepthInv, SignedWithRows, BaseInv, TypeOK
  <2>2. DOMAIN signed # {} => pc'[writer] = pc[writer] /\ snap'[writer] = snap[writer]
      BY <1>6, <1>7, <2>1
  <2> QED
      BY <1>6, <2>1, <2>2 DEF DepthInv, SignedWithRows, db
<1> QED
    BY <1>6, <1>8, <1>9, <1>10 DEF DepthInv, TablesDeep, CheckpointsDeep, db

LEMMA DepthPurgeNothing == ASSUME BaseInv, DepthInv, NEW r \in Requests, PurgeNothing(r) PROVE DepthInv'
<1>1. /\ pc[r] = "begun" /\ pc' = [pc EXCEPT ![r] = "appended"]
      /\ snap' = [snap EXCEPT ![r] = chain[eng[r]].entries]
      /\ UNCHANGED <<db, chain, loadedChain, eng>>
    BY DEF PurgeNothing, server
<1>2. /\ chain \in [Engines -> Chain] /\ snap \in [Requests -> Seq(Entry)]
      /\ pc \in [Requests -> {"idle"} \cup Active \cup Ended]
      /\ eng[r] \in Engines
    BY <1>1 DEF BaseInv, TypeOK, EnginesKnown, Active, Engines
<1>3. ChainsDeep'
    BY <1>1, <1>2 DEF DepthInv, ChainsDeep, Deep
<1>4. CopiesBehind'
  <2> SUFFICES ASSUME NEW q \in Requests, pc'[q] \in Copied
               PROVE  Len(snap'[q]) <= Len(chain[eng[q]].entries)
      BY <1>1 DEF CopiesBehind
  <2>1. CASE q = r
    <3>1. snap'[q] = chain[eng[q]].entries /\ chain[eng[q]].entries \in Seq(Entry)
        BY <1>1, <1>2, <2>1 DEF Chain
    <3> QED
        BY <3>1
  <2>2. CASE q # r
      BY <1>1, <1>2, <2>2 DEF DepthInv, CopiesBehind
  <2> QED
      BY <2>1, <2>2
<1>5. SignedWithRows'
  <2>1. DOMAIN signed # {} => writer # r /\ writer \in Requests
      BY <1>1 DEF DepthInv, SignedWithRows, BaseInv, TypeOK
  <2>2. DOMAIN signed # {} => pc'[writer] = pc[writer] /\ snap'[writer] = snap[writer]
      BY <1>1, <1>2, <2>1
  <2> QED
      BY <1>1, <2>1, <2>2 DEF DepthInv, SignedWithRows, db
<1> QED
    BY <1>1, <1>3, <1>4, <1>5 DEF DepthInv, TablesDeep, CheckpointsDeep, db

LEMMA DepthFlushAudit == ASSUME BaseInv, DepthInv, NEW r \in Requests, FlushAudit(r) PROVE DepthInv'
<1>1. /\ pc[r] = "numbered" /\ pc' = [pc EXCEPT ![r] = "flushed"]
      /\ NewNumbers(r) # {} /\ MayWrite(r)
      /\ inserted' = [n \in NewNumbers(r) |-> RowOf(CopyOf(r, n))]
      /\ UNCHANGED <<auditLog, checkpoints, signed, chain, loadedChain, snap, eng>>
    BY DEF FlushAudit, server, locals
<1>2. pc \in [Requests -> {"idle"} \cup Active \cup Ended] /\ TypeOK /\ Numbered(snap[r])
    BY DEF BaseInv, TypeOK, ChainsNumbered
<1>3. /\ NewNumbers(r) = {n \in 1 .. Len(snap[r]) : n > seen[r]}
      /\ \A n \in NewNumbers(r) : CopyOf(r, n) = snap[r][n] /\ CopyOf(r, n) \in Entry
    BY <1>2, NewNumbersOf
<1>4. DeepRows(inserted')
  <2> SUFFICES ASSUME NEW n \in NewNumbers(r) PROVE Len(inserted'[n].hash) = n
      BY <1>1 DEF DeepRows
  <2>1. inserted'[n].hash = snap[r][n].hash
      BY <1>1, <1>3, RowOfType
  <2> QED
      BY <1>3, <2>1 DEF DepthInv, ChainsDeep, DeepEntries
<1>5. DOMAIN signed = {}
    BY <1>1, NothingSigned
<1>6. SignedWithRows'
    BY <1>1, <1>5 DEF SignedWithRows
<1>7. CopiesBehind'
    BY <1>1, <1>2 DEF DepthInv, CopiesBehind, Copied
<1> QED
    BY <1>1, <1>4, <1>6, <1>7 DEF DepthInv, ChainsDeep, TablesDeep, CheckpointsDeep

LEMMA DepthRejectFlush == ASSUME BaseInv, DepthInv, NEW r \in Requests, RejectFlush(r) PROVE DepthInv'
    BY DepthRollback DEF RejectFlush

LEMMA DepthFail == ASSUME BaseInv, DepthInv, NEW r \in Requests, Fail(r) PROVE DepthInv'
    BY DepthRollback DEF Fail

LEMMA DepthSignCheckpoint ==
    ASSUME BaseInv, DepthInv, NEW r \in Requests, SignCheckpoint(r) PROVE DepthInv'
<1> DEFINE number == Len(snap[r]) \div Interval
<1>1. /\ pc[r] = "flushed" /\ pc' = [pc EXCEPT ![r] = "signed"]
      /\ Interval > 0 /\ writer = r /\ inserted # Empty /\ Len(snap[r]) % Interval = 0
      /\ signed' = [n \in {number} |-> chain[eng[r]].last]
      /\ UNCHANGED <<auditLog, checkpoints, writer, inserted, chain, loadedChain, snap, eng>>
    BY DEF SignCheckpoint, CheckpointDue, server, locals
<1>2. /\ pc \in [Requests -> {"idle"} \cup Active \cup Ended]
      /\ snap[r] \in Seq(Entry) /\ Len(snap[r]) \in Nat /\ Interval \in Nat \ {0}
      /\ eng[r] \in Engines /\ chain[eng[r]] \in Chain
      /\ r # NoRequest
    BY <1>1, LedgerAssumption DEF BaseInv, TypeOK, EnginesKnown, Active, Engines
<1>3. number * Interval = Len(snap[r])
  <2>1. \A a \in Nat, b \in Nat \ {0} : a % b = 0 => (a \div b) * b = a
      BY SMT
  <2> QED
      BY <1>1, <1>2, <2>1
<1>4. /\ Len(chain[eng[r]].last) = Len(chain[eng[r]].entries)
      /\ Len(chain[eng[r]].entries) >= Len(snap[r])
    BY <1>1, <1>2 DEF DepthInv, ChainsDeep, Deep, CopiesBehind, Copied, Chain
<1>5. DOMAIN inserted # {}
    BY <1>1 DEF DepthInv, SignedWithRows
<1> HIDE DEF number
<1>6. SignedWithRows'
  <2>1. writer' # NoRequest /\ pc'[writer'] = "signed" /\ inserted' = inserted
      BY <1>1, <1>2
  <2>2. \A k \in DOMAIN signed' : /\ k * Interval <= Len(snap'[writer'])
                                  /\ k * Interval <= Len(signed'[k])
      BY <1>1, <1>2, <1>3, <1>4
  <2> QED
      BY <1>5, <2>1, <2>2 DEF SignedWithRows
<1>7. CopiesBehind'
    BY <1>1, <1>2 DEF DepthInv, CopiesBehind, Copied
<1> QED
    BY <1>1, <1>6, <1>7 DEF DepthInv, ChainsDeep, TablesDeep, CheckpointsDeep

LEMMA DepthCommit == ASSUME BaseInv, DepthInv, NEW r \in Requests, Commit(r) PROVE DepthInv'
<1>1. /\ pc' = [pc EXCEPT ![r] = "done"]
      /\ UNCHANGED <<chain, loadedChain, snap, eng>>
      /\ pc[r] \in {"flushed", "signed"}
    BY DEF Commit, MayCommit, server, locals
<1>2. pc \in [Requests -> {"idle"} \cup Active \cup Ended]
    BY DEF BaseInv, TypeOK
<1>3. ChainsDeep' /\ CopiesBehind'
    BY <1>1, <1>2 DEF DepthInv, ChainsDeep, CopiesBehind, Copied
<1>4. CASE writer = r
  <2>1. /\ auditLog' = Merge(auditLog, inserted) /\ checkpoints' = Merge(checkpoints, signed)
        /\ inserted' = Empty /\ signed' = Empty
      BY <1>4 DEF Commit
  <2>2. TablesDeep'
    <3>1. DeepRows(Merge(auditLog, inserted))
        BY DEF DepthInv, TablesDeep, DeepRows, Merge
    <3> QED
        BY <2>1, <3>1, EmptyIsDeep DEF TablesDeep
  <2>3. SignedWithRows'
      BY <2>1, EmptyIsDeep DEF SignedWithRows
  <2>4. CheckpointsDeep'
    <3> DEFINE H == HighestNumber(auditLog)
    <3>1. /\ H' >= H /\ H \in Nat /\ H' \in Nat /\ Interval \in Nat
          /\ DOMAIN inserted # {} => H' = Len(snap[r])
      <4>1. LogNumbered' /\ H' >= H /\ (DOMAIN inserted # {} => H' = Len(snap[r]))
          BY <1>4, CommitExtendsLog
      <4> QED
          BY <4>1, LedgerAssumption DEF BaseInv, LogNumbered
    <3> HIDE DEF H
    <3>2. SUFFICES ASSUME NEW k \in DOMAIN checkpoints'
                   PROVE  k * Interval <= H' /\ k * Interval <= Len(checkpoints'[k])
        BY DEF CheckpointsDeep, H
    <3>3. DOMAIN checkpoints \subseteq Nat /\ DOMAIN signed \subseteq Nat
        BY DEF BaseInv, TypeOK
    <3>4. CASE k \in DOMAIN checkpoints
      <4>1. checkpoints'[k] = checkpoints[k]
          BY <2>1, <3>4 DEF Merge
      <4>2. k * Interval <= H /\ k * Interval <= Len(checkpoints[k])
          BY <3>4 DEF DepthInv, CheckpointsDeep, H
      <4>3. k * Interval \in Nat
          BY <3>1, <3>3, <3>4
      <4> QED
          BY <3>1, <4>1, <4>2, <4>3
    <3>5. CASE k \notin DOMAIN checkpoints
      <4>1. k \in DOMAIN signed /\ checkpoints'[k] = signed[k]
          BY <2>1, <3>2, <3>5 DEF Merge
      <4>2. DOMAIN inserted # {} /\ k * Interval <= Len(snap[r]) /\ k * Interval <= Len(signed[k])
          BY <1>4, <4>1 DEF DepthInv, SignedWithRows
      <4> QED
          BY <3>1, <4>1, <4>2
    <3> QED
        BY <3>4, <3>5
  <2> QED
      BY <1>3, <2>2, <2>3, <2>4 DEF DepthInv
<1>5. CASE writer # r
  <2>1. UNCHANGED db
      BY <1>5 DEF Commit
  <2>2. SignedWithRows'
    <3>1. DOMAIN signed # {} => writer \in Requests /\ pc'[writer] = pc[writer]
        BY <1>1, <1>2, <1>5 DEF DepthInv, SignedWithRows, BaseInv, TypeOK
    <3> QED
        BY <1>1, <2>1, <3>1 DEF DepthInv, SignedWithRows, db
  <2> QED
      BY <1>3, <2>1, <2>2 DEF DepthInv, TablesDeep, CheckpointsDeep, db
<1> QED
    BY <1>4, <1>5

LEMMA DepthStutter == ASSUME BaseInv, DepthInv, UNCHANGED vars PROVE DepthInv'
    BY DepthFrame DEF vars, db, server, locals

-----------------------------------------------------------------------------
LEMMA DepthInit == Init => DepthInv
<1> SUFFICES ASSUME Init PROVE DepthInv
    OBVIOUS
<1>1. ChainsDeep /\ CopiesBehind
    BY EmptyIsDeep DEF Init, ChainsDeep, CopiesBehind, Copied
<1>2. TablesDeep /\ SignedWithRows /\ CheckpointsDeep
    BY EmptyIsDeep DEF Init, TablesDeep, SignedWithRows, CheckpointsDeep
<1> QED
    BY <1>1, <1>2 DEF DepthInv

LEMMA DepthStep == BaseInv /\ DepthInv /\ [Next]_vars => DepthInv'
<1> SUFFICES ASSUME BaseInv, DepthInv, [Next]_vars PROVE DepthInv'
    OBVIOUS
<1>1. CASE LoadChain
    BY <1>1, DepthLoadChain
<1>2. CASE InstallEngine
    BY <1>2, DepthInstallEngine
<1>3. CASE Crash
    BY <1>3, DepthCrash
<1>4. ASSUME NEW r \in Requests, Begin(r) PROVE DepthInv'
    BY <1>4, DepthBegin
<1>5. ASSUME NEW r \in Requests, Progress(r) PROVE DepthInv'
    BY <1>5, DepthWriteRow, DepthAppendAudit, DepthPurgeNothing, DepthReadMax,
       DepthFlushNothing, DepthFlushAudit, DepthRejectFlush, DepthSignCheckpoint,
       DepthCommit DEF Progress
<1>6. ASSUME NEW r \in Requests, Fail(r) PROVE DepthInv'
    BY <1>6, DepthFail
<1>7. CASE UNCHANGED vars
    BY <1>7, DepthStutter
<1> QED
    BY <1>1, <1>2, <1>3, <1>4, <1>5, <1>6, <1>7 DEF Next

(* The hash of entry n is n digests deep, that of checkpoint k at least
   k * Interval. *)
LEMMA DeepCheckpointsAreSound ==
    ASSUME BaseInv, DepthInv PROVE CheckpointsSound
<1> SUFFICES ASSUME NEW k \in DOMAIN checkpoints
             PROVE  /\ k * Interval <= HighestNumber(auditLog)
                    /\ \A n \in DOMAIN auditLog :
                           auditLog[n].hash = checkpoints[k] => n >= k * Interval
    BY DEF CheckpointsSound
<1>1. k * Interval <= HighestNumber(auditLog) /\ k * Interval <= Len(checkpoints[k])
    BY DEF DepthInv, CheckpointsDeep
<1>2. \A n \in DOMAIN auditLog : n \in Nat /\ Len(auditLog[n].hash) = n
    BY DEF BaseInv, TypeOK, DepthInv, TablesDeep, DeepRows
<1>3. k * Interval \in Nat
    BY LedgerAssumption DEF BaseInv, TypeOK
<1> QED
    BY <1>1, <1>2, <1>3

(* Every committed checkpoint k is backed by k * Interval committed rows and
   signs none of the rows before them, also while requests persist each
   other's entries and engines are replaced under load. *)
THEOREM CheckpointsAlwaysSound == Spec => []CheckpointsSound
<1>1. Init => BaseInv /\ DepthInv
    BY BaseInit, DepthInit
<1>2. BaseInv /\ DepthInv /\ [Next]_vars => (BaseInv /\ DepthInv)'
    BY BaseStep, DepthStep
<1>3. BaseInv /\ DepthInv => CheckpointsSound
    BY DeepCheckpointsAreSound
<1> QED
    BY <1>1, <1>2, <1>3, PTL DEF Spec

-----------------------------------------------------------------------------
(* No operation is recorded twice, also when engines are replaced under load:
   then chains disagree on what a number stands for, but an operation has one
   number wherever it is kept. *)

Named(f) == {<<f[n].req, f[n].op, f[n].num>> : n \in DOMAIN f}

Kept ==
    Named(auditLog) \cup Named(inserted) \cup Named(loadedChain.entries)
        \cup (UNION {Named(chain[g].entries) : g \in Engines})
        \cup (UNION {Named(snap[r]) : r \in Requests})

OneNumber == \A a, b \in Kept : a[1] = b[1] /\ a[2] = b[2] => a[3] = b[3]

(* What is kept of a request, it has done. *)
DoneBefore == \A a \in Kept : a[2] <= step[a[1]]

KeptInv == OneNumber /\ DoneBefore

LEMMA NamedIn ==
    ASSUME NEW f, NEW S, \A n \in DOMAIN f : <<f[n].req, f[n].op, f[n].num>> \in S
    PROVE  Named(f) \subseteq S
    BY DEF Named

LEMMA NamedHas ==
    ASSUME NEW f, NEW n \in DOMAIN f PROVE <<f[n].req, f[n].op, f[n].num>> \in Named(f)
    BY DEF Named

LEMMA NothingNamed == Named(Empty) = {} /\ Named(EmptyChain.entries) = {}
    BY DEF Named, Empty, EmptyChain

(* Where it is kept, before and after a step. *)
LEMMA WhereKept ==
    /\ \A a : a \in Kept <=> \/ a \in Named(auditLog) \/ a \in Named(inserted)
                             \/ a \in Named(loadedChain.entries)
                             \/ \E g \in Engines : a \in Named(chain[g].entries)
                             \/ \E r \in Requests : a \in Named(snap[r])
    /\ \A a : a \in Kept' <=> \/ a \in Named(auditLog') \/ a \in Named(inserted')
                              \/ a \in Named(loadedChain'.entries)
                              \/ \E g \in Engines : a \in Named(chain'[g].entries)
                              \/ \E r \in Requests : a \in Named(snap'[r])
<1>1. ASSUME NEW a
      PROVE  a \in Kept <=> \/ a \in Named(auditLog) \/ a \in Named(inserted)
                            \/ a \in Named(loadedChain.entries)
                            \/ \E g \in Engines : a \in Named(chain[g].entries)
                            \/ \E r \in Requests : a \in Named(snap[r])
    <2> DEFINE A == UNION {Named(chain[g].entries) : g \in Engines}
               B == UNION {Named(snap[r]) : r \in Requests}
    <2>1. a \in A <=> \E g \in Engines : a \in Named(chain[g].entries)
        BY Zenon
    <2>2. a \in B <=> \E r \in Requests : a \in Named(snap[r])
        BY Zenon
    <2>3. Kept = Named(auditLog) \cup Named(inserted) \cup Named(loadedChain.entries) \cup A \cup B
        BY DEF Kept
    <2> HIDE DEF A, B
    <2> QED
        BY <2>1, <2>2, <2>3
<1>2. ASSUME NEW a
      PROVE  a \in Kept' <=> \/ a \in Named(auditLog') \/ a \in Named(inserted')
                             \/ a \in Named(loadedChain'.entries)
                             \/ \E g \in Engines : a \in Named(chain'[g].entries)
                             \/ \E r \in Requests : a \in Named(snap'[r])
    <2> DEFINE A == UNION {Named(chain'[g].entries) : g \in Engines}
               B == UNION {Named(snap'[r]) : r \in Requests}
    <2>1. a \in A <=> \E g \in Engines : a \in Named(chain'[g].entries)
        BY Zenon
    <2>2. a \in B <=> \E r \in Requests : a \in Named(snap'[r])
        BY Zenon
    <2>3. Kept' = Named(auditLog') \cup Named(inserted') \cup Named(loadedChain'.entries) \cup A \cup B
        BY DEF Kept
    <2> HIDE DEF A, B
    <2> QED
        BY <2>1, <2>2, <2>3
<1> QED
    BY <1>1, <1>2

LEMMA NamedOfKept ==
    /\ Named(auditLog) \subseteq Kept /\ Named(inserted) \subseteq Kept
    /\ Named(loadedChain.entries) \subseteq Kept
    /\ \A g \in Engines : Named(chain[g].entries) \subseteq Kept
    /\ \A r \in Requests : Named(snap[r]) \subseteq Kept
    BY WhereKept

LEMMA KeptWithin ==
    ASSUME NEW S, Named(auditLog') \subseteq S, Named(inserted') \subseteq S,
           Named(loadedChain'.entries) \subseteq S,
           \A g \in Engines : Named(chain'[g].entries) \subseteq S,
           \A r \in Requests : Named(snap'[r]) \subseteq S
    PROVE  Kept' \subseteq S
    BY WhereKept

(* A step that keeps nothing new and counts no operation back. *)
LEMMA KeptFrame ==
    ASSUME KeptInv, Kept' \subseteq Kept, step' = step
    PROVE  KeptInv'
    BY DEF KeptInv, OneNumber, DoneBefore

(* So is one that leaves what is kept in memory as it is, and the tables too. *)
LEMMA KeptMoves ==
    ASSUME KeptInv, UNCHANGED <<loadedChain, chain, snap, step>>,
           Named(auditLog') \subseteq Kept, Named(inserted') \subseteq Kept
    PROVE  KeptInv'
<1>1. Kept' \subseteq Kept
    BY KeptWithin, NamedOfKept
<1> QED
    BY <1>1, KeptFrame

LEMMA KeptInit == Init => KeptInv
<1> SUFFICES ASSUME Init PROVE KeptInv
    OBVIOUS
<1>1. \A r \in Requests : Named(snap[r]) = {}
    BY DEF Init, Named
<1>2. Kept = {}
    BY <1>1, NothingNamed DEF Init, Kept
<1> QED
    BY <1>2 DEF KeptInv, OneNumber, DoneBefore

LEMMA KeptLoadChain == ASSUME BaseInv, KeptInv, LoadChain PROVE KeptInv'
<1>1. UNCHANGED <<auditLog, inserted, chain, snap, step>> /\ loadedChain' = LoadedChain(auditLog)
    BY DEF LoadChain, db, locals
<1> DEFINE H == HighestNumber(auditLog)
<1>2. H \in Nat /\ DOMAIN auditLog = 1 .. H /\ \A i \in 1 .. H : auditLog[i] \in Entry
    BY DEF BaseInv, LogNumbered, LogContiguous, TypeOK
<1>3. /\ LoadedChain(auditLog) \in Chain /\ Len(LoadedChain(auditLog).entries) = H
      /\ \A i \in 1 .. H : LoadedChain(auditLog).entries[i] = auditLog[i]
    BY <1>2, LoadedOfRange
<1>4. DOMAIN loadedChain'.entries = 1 .. H
    BY <1>1, <1>3 DEF Chain
<1>5. Named(loadedChain'.entries) \subseteq Named(auditLog)
    BY <1>1, <1>2, <1>3, <1>4 DEF Named
<1>6. Kept' \subseteq Kept
    BY <1>1, <1>5, NamedOfKept, KeptWithin
<1> QED
    BY <1>1, <1>6, KeptFrame

LEMMA KeptInstallEngine == ASSUME BaseInv, KeptInv, InstallEngine PROVE KeptInv'
<1>1. /\ UNCHANGED <<auditLog, inserted, snap, step>>
      /\ chain' = [chain EXCEPT ![installed + 1] = loadedChain] /\ loadedChain' = EmptyChain
    BY DEF InstallEngine, db, locals
<1>2. chain \in [Engines -> Chain]
    BY DEF BaseInv, TypeOK
<1>3. \A g \in Engines : Named(chain'[g].entries) \subseteq Kept
    BY <1>1, <1>2, NamedOfKept
<1>4. Kept' \subseteq Kept
    BY <1>1, <1>3, NothingNamed, NamedOfKept, KeptWithin
<1> QED
    BY <1>1, <1>4, KeptFrame

LEMMA KeptCrash == ASSUME KeptInv, Crash PROVE KeptInv'
<1>1. /\ UNCHANGED <<auditLog, snap, step>> /\ inserted' = Empty
      /\ chain' = [g \in Engines |-> EmptyChain] /\ loadedChain' = EmptyChain
    BY DEF Crash, locals
<1>2. \A g \in Engines : Named(chain'[g].entries) = {}
    BY <1>1, NothingNamed
<1>3. Kept' \subseteq Kept
    BY <1>1, <1>2, NothingNamed, NamedOfKept, KeptWithin
<1> QED
    BY <1>1, <1>3, KeptFrame

LEMMA KeptAppendAudit == ASSUME BaseInv, KeptInv, NEW r \in Requests, AppendAudit(r) PROVE KeptInv'
<1> DEFINE old   == chain[eng[r]]
           entry == NextEntry(old, r, step[r] + 1)
           new   == AppendEntry(old, r, step[r] + 1)
           here  == <<r, step[r] + 1, entry.num>>
<1>1. eng[r] \in Engines /\ step[r] + 1 \in Nat
    BY DEF BaseInv, TypeOK, EnginesKnown, AppendAudit, Active, Engines
<1>2. /\ chain \in [Engines -> Chain] /\ snap \in [Requests -> Seq(Entry)]
      /\ step \in [Requests -> Nat]
    BY DEF BaseInv, TypeOK
<1>3. old.entries \in Seq(Entry) /\ new.entries = Append(old.entries, entry) /\ entry \in Entry
    BY <1>1, <1>2, AppendEntryType DEF Chain
<1>4. entry.req = r /\ entry.op = step[r] + 1
    BY DEF NextEntry
<1> HIDE DEF old, entry, new
<1>5. Named(new.entries) \subseteq Named(old.entries) \cup {here}
    <2>1. \A n \in DOMAIN new.entries :
             \/ n \in DOMAIN old.entries /\ new.entries[n] = old.entries[n]
             \/ new.entries[n] = entry
        BY <1>3
    <2> QED
        BY <2>1, <1>4 DEF Named
<1>6. Named(old.entries) \subseteq Kept
    BY <1>1, NamedOfKept DEF old
<1>7. /\ chain' = [chain EXCEPT ![eng[r]] = new]
      /\ snap' = [snap EXCEPT ![r] = new.entries] \/ UNCHANGED snap
      /\ step' = [step EXCEPT ![r] = step[r] + 1]
      /\ UNCHANGED <<auditLog, inserted, loadedChain>>
    BY DEF AppendAudit, new, old, db
<1>8. \A g \in Engines : Named(chain'[g].entries) \subseteq Kept \cup {here}
    BY <1>2, <1>5, <1>6, <1>7, NamedOfKept
<1>9. \A q \in Requests : Named(snap'[q]) \subseteq Kept \cup {here}
    BY <1>2, <1>5, <1>6, <1>7, NamedOfKept
<1>10. Kept' \subseteq Kept \cup {here}
    BY <1>7, <1>8, <1>9, NamedOfKept, KeptWithin
<1>11. \A a \in Kept : a[1] \in Requests /\ a[2] \in Nat
    <2>1. ASSUME NEW f, NEW D, DOMAIN f = D, \A n \in D : f[n] \in Entry
          PROVE  \A a \in Named(f) : a[1] \in Requests /\ a[2] \in Nat
        BY <2>1 DEF Named, Entry
    <2>2. \A s \in Seq(Entry) : \A a \in Named(s) : a[1] \in Requests /\ a[2] \in Nat
        <3> TAKE s \in Seq(Entry)
        <3>1. \A n \in DOMAIN s : s[n] \in Entry
            OBVIOUS
        <3> QED
            BY <2>1, <3>1
    <2>3. /\ \A n \in DOMAIN auditLog : auditLog[n] \in Entry
          /\ \A n \in DOMAIN inserted : inserted[n] \in Entry
          /\ loadedChain.entries \in Seq(Entry)
          /\ \A g \in Engines : chain[g].entries \in Seq(Entry)
        BY DEF BaseInv, TypeOK, Chain
    <2>4. /\ \A a \in Named(auditLog) : a[1] \in Requests /\ a[2] \in Nat
          /\ \A a \in Named(inserted) : a[1] \in Requests /\ a[2] \in Nat
        BY <2>1, <2>3
    <2> QED
        BY <1>2, <2>2, <2>3, <2>4, WhereKept
<1>12. \A a \in Kept : ~(a[1] = r /\ a[2] = step[r] + 1)
    BY <1>1, <1>2, <1>11 DEF KeptInv, DoneBefore
<1>13. OneNumber'
    <2> SUFFICES ASSUME NEW a \in Kept', NEW b \in Kept', a[1] = b[1], a[2] = b[2]
                 PROVE  a[3] = b[3]
        BY DEF OneNumber
    <2>1. (a \in Kept \/ a = here) /\ (b \in Kept \/ b = here)
        BY <1>10
    <2>2. CASE a = here /\ b = here
        BY <2>2
    <2>3. CASE a \in Kept /\ b \in Kept
        BY <2>3 DEF KeptInv, OneNumber
    <2>4. here[1] = r /\ here[2] = step[r] + 1
        OBVIOUS
    <2> QED
        BY <1>12, <2>1, <2>2, <2>3, <2>4
<1>14. DoneBefore'
    <2> SUFFICES ASSUME NEW a \in Kept' PROVE a[2] <= step'[a[1]]
        BY DEF DoneBefore
    <2>1. CASE a \in Kept
        <3>1. a[2] <= step[a[1]] /\ a[1] \in Requests /\ a[2] \in Nat
            BY <1>11, <2>1 DEF KeptInv, DoneBefore
        <3>2. step'[a[1]] = step[a[1]] \/ step'[a[1]] = step[a[1]] + 1
            BY <1>2, <1>7, <3>1
        <3>3. step[a[1]] \in Nat
            BY <1>2, <3>1
        <3> QED
            BY <3>1, <3>2, <3>3
    <2>2. CASE a = here
        <3>1. a[1] = r /\ a[2] = step[r] + 1
            BY <2>2
        <3>2. step'[r] = step[r] + 1
            BY <1>2, <1>7
        <3> QED
            BY <1>1, <3>1, <3>2
    <2> QED
        BY <1>10, <2>1, <2>2
<1> QED
    BY <1>13, <1>14 DEF KeptInv

LEMMA KeptPurgeNothing == ASSUME BaseInv, KeptInv, NEW r \in Requests, PurgeNothing(r) PROVE KeptInv'
<1>1. /\ UNCHANGED <<auditLog, inserted, chain, loadedChain, step>>
      /\ snap' = [snap EXCEPT ![r] = chain[eng[r]].entries]
    BY DEF PurgeNothing, db, server
<1>2. eng[r] \in Engines /\ snap \in [Requests -> Seq(Entry)]
    BY DEF BaseInv, TypeOK, EnginesKnown, PurgeNothing, Active, Engines
<1>3. \A q \in Requests : Named(snap'[q]) \subseteq Kept
    BY <1>1, <1>2, NamedOfKept
<1>4. Kept' \subseteq Kept
    BY <1>1, <1>3, NamedOfKept, KeptWithin
<1> QED
    BY <1>1, <1>4, KeptFrame

LEMMA KeptFlushAudit == ASSUME BaseInv, KeptInv, NEW r \in Requests, FlushAudit(r) PROVE KeptInv'
<1>1. /\ UNCHANGED <<auditLog, chain, loadedChain, snap, step>>
      /\ inserted' = [n \in NewNumbers(r) |-> RowOf(CopyOf(r, n))]
    BY DEF FlushAudit, server, locals
<1>2. /\ NewNumbers(r) = {n \in 1 .. Len(snap[r]) : n > seen[r]}
      /\ \A n \in NewNumbers(r) : CopyOf(r, n) = snap[r][n] /\ CopyOf(r, n) \in Entry
    BY NewNumbersOf DEF BaseInv, ChainsNumbered
<1>3. DOMAIN snap[r] = 1 .. Len(snap[r])
    BY DEF BaseInv, TypeOK
<1>4. \A n \in DOMAIN inserted' :
         <<inserted'[n].req, inserted'[n].op, inserted'[n].num>> \in Named(snap[r])
    <2> TAKE n \in DOMAIN inserted'
    <2>1. n \in DOMAIN snap[r] /\ inserted'[n] = RowOf(snap[r][n]) /\ snap[r][n] \in Entry
        BY <1>1, <1>2, <1>3
    <2>2. /\ inserted'[n].num = snap[r][n].num /\ inserted'[n].req = snap[r][n].req
          /\ inserted'[n].op = snap[r][n].op
        BY <2>1, RowOfType
    <2> QED
        BY <2>1, <2>2, NamedHas
<1>5. Named(inserted') \subseteq Named(snap[r])
    BY <1>4, NamedIn
<1> QED
    BY <1>1, <1>5, NamedOfKept, KeptMoves

LEMMA KeptCommit == ASSUME BaseInv, KeptInv, NEW r \in Requests, Commit(r) PROVE KeptInv'
<1>1. /\ UNCHANGED <<chain, loadedChain, snap, step>>
      /\ \/ auditLog' = Merge(auditLog, inserted) /\ inserted' = Empty
         \/ UNCHANGED <<auditLog, inserted>>
    BY DEF Commit, server, locals, db
<1>2. Named(Merge(auditLog, inserted)) \subseteq Named(auditLog) \cup Named(inserted)
    BY DEF Named, Merge
<1>3. Named(auditLog') \subseteq Kept /\ Named(inserted') \subseteq Kept
    BY <1>1, <1>2, NamedOfKept, NothingNamed
<1> QED
    BY <1>1, <1>3, KeptMoves

(* The steps that leave the log, or roll the transaction back. *)
LEMMA KeptRest ==
    ASSUME KeptInv, UNCHANGED <<auditLog, chain, loadedChain, snap, step>>,
           inserted' = inserted \/ inserted' = Empty
    PROVE  KeptInv'
    BY NamedOfKept, NothingNamed, KeptMoves

LEMMA KeptStep == BaseInv /\ KeptInv /\ [Next]_vars => KeptInv'
<1> SUFFICES ASSUME BaseInv, KeptInv, [Next]_vars PROVE KeptInv'
    OBVIOUS
<1>1. CASE LoadChain
    BY <1>1, KeptLoadChain
<1>2. CASE InstallEngine
    BY <1>2, KeptInstallEngine
<1>3. CASE Crash
    BY <1>3, KeptCrash
<1>4. ASSUME NEW r \in Requests, Begin(r) \/ WriteRow(r) \/ ReadMax(r) \/ FlushNothing(r) \/ SignCheckpoint(r)
      PROVE  KeptInv'
    BY <1>4, KeptRest DEF Begin, WriteRow, ReadMax, FlushNothing, SignCheckpoint, db, server, locals
<1>5. ASSUME NEW r \in Requests, RejectFlush(r) \/ Fail(r) PROVE KeptInv'
    BY <1>5, KeptRest DEF RejectFlush, Fail, Rollback, server, locals
<1>6. ASSUME NEW r \in Requests, Progress(r) PROVE KeptInv'
    BY <1>4, <1>5, <1>6, KeptAppendAudit, KeptPurgeNothing, KeptFlushAudit, KeptCommit DEF Progress
<1>7. CASE UNCHANGED vars
    BY <1>7, KeptRest DEF vars, db, server, locals
<1> QED
    BY <1>1, <1>2, <1>3, <1>4, <1>5, <1>6, <1>7 DEF Next

(* No operation is recorded twice, although each request persists what others
   have appended, fails, is lost, or goes on with an engine that was replaced. *)
THEOREM RecordedOnceUnderLoad == Spec => []AuditOnce
<1>1. Init => BaseInv /\ KeptInv
    BY BaseInit, KeptInit
<1>2. BaseInv /\ KeptInv /\ [Next]_vars => (BaseInv /\ KeptInv)'
    BY BaseStep, KeptStep
<1>3. BaseInv /\ KeptInv => AuditOnce
    <2> SUFFICES ASSUME BaseInv, KeptInv, NEW m \in DOMAIN auditLog, NEW n \in DOMAIN auditLog,
                        auditLog[m].req = auditLog[n].req, auditLog[m].op = auditLog[n].op
                 PROVE  m = n
        BY DEF AuditOnce
    <2> DEFINE a == <<auditLog[m].req, auditLog[m].op, auditLog[m].num>>
               b == <<auditLog[n].req, auditLog[n].op, auditLog[n].num>>
    <2>1. a \in Kept /\ b \in Kept
        BY NamedHas, NamedOfKept
    <2>2. auditLog[m].num = auditLog[n].num
        BY <2>1 DEF KeptInv, OneNumber
    <2> QED
        BY <2>2 DEF BaseInv, LogNumbered, LogContiguous
<1> QED
    BY <1>1, <1>2, <1>3, PTL DEF Spec
===============================================================================
