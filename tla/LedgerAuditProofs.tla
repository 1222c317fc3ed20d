-------------------------- MODULE LedgerAuditProofs --------------------------
(***************************************************************************)
(* The audit guarantees of a server whose engine is installed only when    *)
(* none is loaded (HotUnlock = FALSE): crashes and restarts at any moment, *)
(* but no replacement of a live engine.  With HotUnlock = TRUE the         *)
(* theorems below are false, as the run ledger_hot_loses shows.            *)
(***************************************************************************)
EXTENDS LedgerProofs, NaturalsInduction, WellFoundedInduction

Live == chain[engine].entries

(* Only one chain matters: that of the current engine. *)
OneEngine ==
    /\ engine # 0 => unlocking = "idle"
    /\ engine = 0 => \A r \in Requests : pc[r] \notin Active
    /\ unlocking = "loaded" => loadedChain = LoadedChain(auditLog)
    /\ \A r \in Requests : pc[r] \in Active => eng[r] = engine

(* The chain is linked and its tail is _last_hash; each hash was computed
   over a timestamp with its offset. *)
LinkedTo(entries) ==
    \A i \in 1 .. Len(entries) :
        /\ entries[i].prev = IF i = 1 THEN GenesisHash ELSE entries[i - 1].hash
        /\ entries[i].hash = ComputeHash([entries[i] EXCEPT !.stamp = "aware"])
LiveLinked ==
    engine # 0 =>
        /\ LinkedTo(Live)
        /\ chain[engine].last = IF Len(Live) = 0 THEN GenesisHash ELSE Live[Len(Live)].hash

(* The log, the copies and the rows about to be committed are parts of it. *)
LogFromLive ==
    engine # 0 => \A n \in DOMAIN auditLog :
        n \in 1 .. Len(Live) /\ RowOf(Live[n]) = auditLog[n]
CopiesFromLive ==
    \A r \in Requests : pc[r] \in Copied =>
        /\ Len(snap[r]) <= Len(Live)
        /\ \A i \in 1 .. Len(snap[r]) : snap[r][i] = Live[i]
InsertedFromLive ==
    engine # 0 => \A n \in DOMAIN inserted :
        n \in 1 .. Len(Live) /\ RowOf(Live[n]) = inserted[n]

(* A row has lost the offset of its timestamp. *)
RowsNaive ==
    /\ \A n \in DOMAIN auditLog : auditLog[n].stamp = "naive"
    /\ \A n \in DOMAIN inserted : inserted[n].stamp = "naive"

(* The operations recorded so far are in the chain, and in the copy. *)
HasOp(entries, r, k) == \E i \in 1 .. Len(entries) : entries[i].req = r /\ entries[i].op = k
OpsInLive ==
    \A r \in Requests :
        /\ pc[r] \in Active => \A k \in 1 .. step[r] : HasOp(Live, r, k)
        /\ pc[r] \in Copied => \A k \in 1 .. step[r] : HasOp(snap[r], r, k)

(* No operation is in the chain, or in the log, twice or ahead of time. *)
LiveOnce ==
    engine # 0 =>
        /\ \A i \in 1 .. Len(Live) : Live[i].op <= step[Live[i].req]
        /\ \A i, j \in 1 .. Len(Live) :
              Live[i].req = Live[j].req /\ Live[i].op = Live[j].op => i = j
LogOnce ==
    /\ \A n \in DOMAIN auditLog : auditLog[n].op <= step[auditLog[n].req]
    /\ AuditOnce

(* Once flushed, the copy is persisted already or about to be. *)
FlushedCovered ==
    \A r \in Requests : pc[r] \in {"flushed", "signed"} =>
        \/ Len(snap[r]) <= HighestNumber(auditLog)
        \/ writer = r /\ DOMAIN inserted # {}

AuditInv ==
    /\ BaseInv
    /\ OneEngine
    /\ LiveLinked
    /\ LogLinked
    /\ LogFromLive
    /\ CopiesFromLive
    /\ InsertedFromLive
    /\ RowsNaive
    /\ OpsInLive
    /\ LiveOnce
    /\ LogOnce
    /\ FlushedCovered
    /\ AuditComplete

LEMMA AuditInit == Init => AuditInv
<1> SUFFICES ASSUME Init PROVE AuditInv
    OBVIOUS
<1>1. BaseInv
    BY BaseInit
<1>2. OneEngine /\ LiveLinked /\ LogFromLive /\ CopiesFromLive /\ InsertedFromLive
    BY DEF Init, OneEngine, LiveLinked, LogFromLive, CopiesFromLive, InsertedFromLive,
           Active, Copied
<1>3. DOMAIN auditLog = {} /\ DOMAIN inserted = {}
    BY DEF Init, Empty
<1>4. LogLinked /\ RowsNaive /\ LogOnce /\ AuditComplete
    BY <1>3 DEF Init, LogLinked, RowsNaive, LogOnce, AuditOnce, AuditComplete
<1>5. OpsInLive /\ LiveOnce /\ FlushedCovered
    BY DEF Init, OpsInLive, LiveOnce, FlushedCovered, Active, Copied
<1> QED
    BY <1>1, <1>2, <1>4, <1>5 DEF AuditInv

(* Facts of BaseInv in the form the steps below use them. *)
LEMMA BaseFacts ==
    ASSUME BaseInv
    PROVE  /\ HighestNumber(auditLog) \in Nat
           /\ DOMAIN auditLog = 1 .. HighestNumber(auditLog)
           /\ \A n \in DOMAIN auditLog : auditLog[n] \in Entry
           /\ engine # 0 => /\ engine \in Engines
                            /\ chain[engine] \in Chain
                            /\ Live \in Seq(Entry)
                            /\ Len(Live) \in Nat
                            /\ \A i \in 1 .. Len(Live) : Live[i] \in Entry
           /\ \A r \in Requests : /\ snap[r] \in Seq(Entry)
                                  /\ Len(snap[r]) \in Nat
<1>1. engine # 0 => engine \in Engines /\ chain[engine] \in Chain
    BY LedgerAssumption DEF BaseInv, TypeOK, Engines
<1> QED
    BY <1>1 DEF BaseInv, TypeOK, LogNumbered, LogContiguous, Live, Chain

LEMMA AuditLoadChain == ~HotUnlock /\ AuditInv /\ LoadChain => AuditInv'
<1> SUFFICES ASSUME ~HotUnlock, AuditInv, LoadChain PROVE AuditInv'
    OBVIOUS
<1> USE DEF LoadChain, db, locals
<1>1. BaseInv'
    BY BaseLoadChain DEF AuditInv
<1>2. (OneEngine /\ LiveLinked /\ LogLinked /\ LogFromLive /\ CopiesFromLive
         /\ InsertedFromLive /\ RowsNaive)'
    BY DEF AuditInv, OneEngine, LiveLinked, LogLinked, LogFromLive, CopiesFromLive,
           InsertedFromLive, RowsNaive, Live
<1>3. (OpsInLive /\ LiveOnce /\ LogOnce /\ FlushedCovered /\ AuditComplete)'
    BY DEF AuditInv, OpsInLive, LiveOnce, LogOnce, AuditOnce,
           FlushedCovered, AuditComplete, Live
<1> QED
    BY <1>1, <1>2, <1>3 DEF AuditInv

(* The chain a restarted server works with is the log. *)
LEMMA AuditInstallEngine == ~HotUnlock /\ AuditInv /\ InstallEngine => AuditInv'
<1> SUFFICES ASSUME ~HotUnlock, AuditInv, InstallEngine PROVE AuditInv'
    OBVIOUS
<1> USE DEF db, locals
<1> DEFINE H == HighestNumber(auditLog)
<1>1. BaseInv'
    BY BaseInstallEngine DEF AuditInv
<1>2. /\ engine = 0 /\ \A r \in Requests : pc[r] \notin Active
      /\ loadedChain = LoadedChain(auditLog)
    BY DEF AuditInv, OneEngine, InstallEngine
<1>3. /\ engine' # 0 /\ unlocking' = "idle"
      /\ chain'[engine'] = loadedChain
      /\ UNCHANGED <<db, pc, locals>>
    BY LedgerAssumption DEF AuditInv, BaseInv, TypeOK, EnginesKnown, Engines, InstallEngine
<1>4. /\ H \in Nat /\ DOMAIN auditLog = 1 .. H
      /\ \A i \in 1 .. H : auditLog[i] \in Entry
    BY BaseFacts DEF AuditInv
<1>5. /\ Len(Live') = H
      /\ \A i \in 1 .. H : Live'[i] = auditLog[i]
      /\ chain'[engine'].last = IF H = 0 THEN GenesisHash ELSE auditLog[H].hash
    <2> HIDE DEF H
    <2> QED
        BY <1>2, <1>3, <1>4, LoadedOfRange DEF Live
<1>6. writer = NoRequest /\ DOMAIN inserted = {}
    BY <1>2 DEF AuditInv, BaseInv, InsertedNext, TypeOK
<1>7. \A i \in 1 .. H : RowOf(Live'[i]) = auditLog[i]
    <2>1. \A i \in 1 .. H : auditLog[i].stamp = "naive"
        BY <1>4 DEF AuditInv, RowsNaive
    <2>2. \A e \in Entry : e.stamp = "naive" => RowOf(e) = e
        BY DEF RowOf, Entry
    <2> QED
        BY <1>4, <1>5, <2>1, <2>2
<1>8. OneEngine'
    BY <1>2, <1>3 DEF OneEngine
<1>9. LiveLinked'
    <2>1. LinkedTo(Live')
        BY <1>4, <1>5 DEF AuditInv, LogLinked, LinkedTo
    <2>2. chain'[engine'].last = IF Len(Live') = 0 THEN GenesisHash ELSE Live'[Len(Live')].hash
        BY <1>4, <1>5
    <2> QED
        BY <2>1, <2>2 DEF LiveLinked
<1>10. (LogFromLive /\ CopiesFromLive /\ InsertedFromLive)'
    BY <1>2, <1>3, <1>4, <1>5, <1>6, <1>7
       DEF LogFromLive, CopiesFromLive, InsertedFromLive, Active, Copied
<1>11. (LogLinked /\ RowsNaive /\ LogOnce /\ FlushedCovered /\ AuditComplete)'
    BY <1>3 DEF AuditInv, LogLinked, RowsNaive, LogOnce, AuditOnce,
                FlushedCovered, AuditComplete
<1>12. OpsInLive'
    BY <1>2, <1>3 DEF OpsInLive, Active, Copied
<1>13. LiveOnce'
    BY <1>3, <1>4, <1>5 DEF AuditInv, LogOnce, AuditOnce, LiveOnce
<1> QED
    BY <1>1, <1>8, <1>9, <1>10, <1>11, <1>12, <1>13 DEF AuditInv

(* A crash leaves the log; what the chain had beyond it is forgotten along
   with the requests that put it there. *)
LEMMA AuditCrash == AuditInv /\ Crash => AuditInv'
<1> SUFFICES ASSUME AuditInv, Crash PROVE AuditInv'
    OBVIOUS
<1> USE DEF Crash, locals
<1>1. BaseInv'
    BY BaseCrash DEF AuditInv
<1>2. /\ engine' = 0 /\ unlocking' = "idle" /\ DOMAIN inserted' = {}
      /\ \A r \in Requests : /\ pc'[r] \notin Active
                             /\ pc'[r] \in {"idle", "done"} => pc'[r] = pc[r]
    BY DEF Active, Empty
<1>3. (OneEngine /\ LiveLinked /\ LogFromLive /\ CopiesFromLive /\ InsertedFromLive)'
    BY <1>2 DEF OneEngine, LiveLinked, LogFromLive, CopiesFromLive, InsertedFromLive,
                Active, Copied
<1>4. (LogLinked /\ RowsNaive /\ LogOnce /\ AuditComplete)'
    BY <1>2 DEF AuditInv, LogLinked, RowsNaive, LogOnce, AuditOnce, AuditComplete
<1>5. (OpsInLive /\ LiveOnce /\ FlushedCovered)'
    BY <1>2 DEF AuditInv, OpsInLive, LiveOnce, FlushedCovered, Active, Copied
<1> QED
    BY <1>1, <1>3, <1>4, <1>5 DEF AuditInv

-----------------------------------------------------------------------------
(* The actions of a request. *)

LEMMA AuditBegin == ASSUME NEW r \in Requests PROVE AuditInv /\ Begin(r) => AuditInv'
<1> SUFFICES ASSUME AuditInv, Begin(r) PROVE AuditInv'
    OBVIOUS
<1> USE DEF Begin, db, server
<1>1. BaseInv'
    BY BaseBegin DEF AuditInv
<1>2. TypeOK
    BY DEF AuditInv, BaseInv
<1>3. (OneEngine /\ LiveLinked /\ LogFromLive /\ CopiesFromLive /\ InsertedFromLive)'
    <2>1. /\ engine # 0 /\ pc'[r] = "begun" /\ eng'[r] = engine
          /\ \A s \in Requests : s # r => pc'[s] = pc[s] /\ eng'[s] = eng[s]
        BY <1>2 DEF TypeOK
    <2>2. OneEngine'
        BY <2>1 DEF AuditInv, OneEngine
    <2>3. (LiveLinked /\ LogFromLive /\ InsertedFromLive)'
        BY DEF AuditInv, LiveLinked, LogFromLive, InsertedFromLive, Live
    <2>4. CopiesFromLive'
        BY <2>1 DEF AuditInv, CopiesFromLive, Live, Copied
    <2> QED
        BY <2>2, <2>3, <2>4
<1>4. (LogLinked /\ RowsNaive /\ LogOnce /\ LiveOnce)'
    BY DEF AuditInv, LogLinked, RowsNaive, LogOnce, AuditOnce, LiveOnce, Live
<1>6. OpsInLive'
    BY <1>2, SMTT(30) DEF AuditInv, BaseInv, TypeOK, StepsCounted, OpsInLive, Live, Active, Copied
<1>7. (FlushedCovered /\ AuditComplete)'
    <2>1. \A s \in Requests : s # r => pc'[s] = pc[s] /\ ops'[s] = ops[s]
        BY <1>2 DEF TypeOK
    <2>2. pc'[r] = "begun"
        BY <1>2 DEF TypeOK
    <2>3. FlushedCovered'
        BY <2>1, <2>2 DEF AuditInv, FlushedCovered
    <2>4. AuditComplete'
        BY <2>1, <2>2 DEF AuditInv, AuditComplete
    <2> QED
        BY <2>3, <2>4
<1> QED
    BY <1>1, <1>3, <1>4, <1>6, <1>7 DEF AuditInv

LEMMA AuditWriteRow == ASSUME NEW r \in Requests PROVE AuditInv /\ WriteRow(r) => AuditInv'
<1> SUFFICES ASSUME AuditInv, WriteRow(r) PROVE AuditInv'
    OBVIOUS
<1> USE DEF WriteRow, MayWrite, server, locals
<1>1. BaseInv'
    BY BaseWriteRow DEF AuditInv
<1>2. TypeOK
    BY DEF AuditInv, BaseInv
<1>3. (OneEngine /\ LiveLinked /\ LogFromLive /\ CopiesFromLive /\ InsertedFromLive)'
    BY <1>2 DEF AuditInv, TypeOK, OneEngine, LiveLinked, LogFromLive, CopiesFromLive,
                InsertedFromLive, Live, Active, Copied
<1>4. (LogLinked /\ RowsNaive /\ LogOnce /\ LiveOnce)'
    BY DEF AuditInv, LogLinked, RowsNaive, LogOnce, AuditOnce, LiveOnce, Live
<1>6. OpsInLive'
    BY <1>2 DEF AuditInv, TypeOK, OpsInLive, Live, Active, Copied
<1>7. (FlushedCovered /\ AuditComplete)'
    BY <1>2, SMTT(30) DEF AuditInv, BaseInv, TypeOK, InsertedNext, FlushedCovered, AuditComplete
<1> QED
    BY <1>1, <1>3, <1>4, <1>6, <1>7 DEF AuditInv

(* append() extends the live chain by one linked entry of the request. *)
LEMMA AppendExtendsLive ==
    ASSUME NEW r \in Requests, AuditInv, AppendAudit(r)
    PROVE  /\ pc[r] \in {"begun", "locked"} /\ engine # 0 /\ eng[r] = engine
           /\ Len(Live') = Len(Live) + 1
           /\ \A i \in 1 .. Len(Live) : Live'[i] = Live[i]
           /\ Live'[Len(Live')] = NextEntry(chain[engine], r, step[r] + 1)
           /\ chain'[engine].last = Live'[Len(Live')].hash
           /\ engine' = engine
           /\ \/ step[r] + 1 = ops[r] /\ pc' = [pc EXCEPT ![r] = "appended"]
                 /\ snap' = [snap EXCEPT ![r] = Live']
              \/ step[r] + 1 # ops[r] /\ pc' = [pc EXCEPT ![r] = "begun"]
                 /\ snap' = snap
           /\ step' = [step EXCEPT ![r] = step[r] + 1]
           /\ step[r] < ops[r]
           /\ kind[r] = "read" => ops[r] = 1
<1>1. pc[r] \in {"begun", "locked"} /\ engine # 0 /\ eng[r] = engine
    BY DEF AppendAudit, AuditInv, OneEngine, Active
<1>2. /\ engine \in Engines /\ chain[engine] \in Chain
      /\ Live \in Seq(Entry) /\ Len(Live) \in Nat
      /\ step[r] + 1 \in Nat /\ chain \in [Engines -> Chain]
    BY <1>1, BaseFacts, SMTT(30) DEF AuditInv, BaseInv, TypeOK
<1>3. chain' = [chain EXCEPT ![engine] = AppendEntry(chain[engine], r, step[r] + 1)]
    BY <1>1 DEF AppendAudit
<1>4. engine' = engine
    BY DEF AppendAudit
<1>5. /\ Live' = Append(Live, NextEntry(chain[engine], r, step[r] + 1))
      /\ chain'[engine].last = NextEntry(chain[engine], r, step[r] + 1).hash
      /\ NextEntry(chain[engine], r, step[r] + 1) \in Entry
      /\ Live' = AppendEntry(chain[engine], r, step[r] + 1).entries
    BY <1>2, <1>3, <1>4, AppendEntryType DEF Live
<1>6. /\ Len(Live') = Len(Live) + 1
      /\ \A i \in 1 .. Len(Live) : Live'[i] = Live[i]
      /\ Live'[Len(Live')] = NextEntry(chain[engine], r, step[r] + 1)
    BY <1>2, <1>5
<1>7. step[r] < ops[r] /\ (kind[r] = "read" => ops[r] = 1)
    BY DEF AppendAudit, AuditInv, BaseInv, TypeOK, StepsCounted
<1>8. /\ step' = [step EXCEPT ![r] = step[r] + 1]
      /\ \/ step[r] + 1 = ops[r] /\ pc' = [pc EXCEPT ![r] = "appended"]
            /\ snap' = [snap EXCEPT ![r] = Live']
         \/ step[r] + 1 # ops[r] /\ pc' = [pc EXCEPT ![r] = "begun"] /\ snap' = snap
    BY <1>1, <1>5 DEF AppendAudit
<1> QED
    BY <1>1, <1>4, <1>5, <1>6, <1>7, <1>8

LEMMA AuditAppendAudit == ASSUME NEW r \in Requests PROVE AuditInv /\ AppendAudit(r) => AuditInv'
<1> SUFFICES ASSUME AuditInv, AppendAudit(r) PROVE AuditInv'
    OBVIOUS
<1> DEFINE e == NextEntry(chain[engine], r, step[r] + 1)
<1>1. BaseInv'
    BY BaseAppendAudit DEF AuditInv
<1>2. TypeOK /\ BaseInv
    BY DEF AuditInv, BaseInv
<1>3. /\ pc[r] \in {"begun", "locked"} /\ engine # 0 /\ eng[r] = engine
      /\ Len(Live') = Len(Live) + 1
      /\ \A i \in 1 .. Len(Live) : Live'[i] = Live[i]
      /\ Live'[Len(Live')] = e
      /\ chain'[engine].last = e.hash
      /\ engine' = engine
      /\ \/ step[r] + 1 = ops[r] /\ pc' = [pc EXCEPT ![r] = "appended"]
            /\ snap' = [snap EXCEPT ![r] = Live']
         \/ step[r] + 1 # ops[r] /\ pc' = [pc EXCEPT ![r] = "begun"] /\ snap' = snap
      /\ step' = [step EXCEPT ![r] = step[r] + 1]
      /\ step[r] < ops[r]
      /\ kind[r] = "read" => ops[r] = 1
    BY AppendExtendsLive
<1>4. /\ UNCHANGED <<auditLog, checkpoints, writer, inserted, signed, installed,
                     unlocking, loadedChain, kind, eng, ops>>
    BY DEF AppendAudit, db
<1>5. /\ e.req = r /\ e.op = step[r] + 1 /\ e.prev = chain[engine].last
      /\ e.stamp = "aware" /\ e \in Entry /\ e.hash = ComputeHash(e)
    <2>1. chain[engine] \in Chain /\ step[r] + 1 \in Nat
        BY <1>2, <1>3, BaseFacts DEF TypeOK
    <2>2. e \in Entry
        BY <2>1, AppendEntryType
    <2> QED
        BY <2>2 DEF NextEntry, ComputeHash, ContentOf
<1>6. /\ Len(Live) \in Nat /\ \A i \in 1 .. Len(Live) : Live[i] \in Entry
      /\ \A s \in Requests : Len(snap[s]) \in Nat /\ snap[s] \in Seq(Entry)
    BY <1>2, <1>3, BaseFacts
<1> HIDE DEF e
<1>7. OneEngine'
    BY <1>2, <1>3, <1>4 DEF AuditInv, TypeOK, OneEngine, Active
<1>8. LiveLinked'
    <2>1. e.hash = ComputeHash([e EXCEPT !.stamp = "aware"])
        <3>1. \A x \in Entry : x.stamp = "aware" => [x EXCEPT !.stamp = "aware"] = x
            BY DEF Entry
        <3> QED
            BY <1>5, <3>1
    <2>2. LinkedTo(Live) /\ e.prev = IF Len(Live) = 0 THEN GenesisHash ELSE Live[Len(Live)].hash
        BY <1>3, <1>5 DEF AuditInv, LiveLinked
    <2>3. LinkedTo(Live')
        <3> SUFFICES ASSUME NEW i \in 1 .. Len(Live')
                     PROVE  /\ Live'[i].prev = IF i = 1 THEN GenesisHash ELSE Live'[i - 1].hash
                            /\ Live'[i].hash = ComputeHash([Live'[i] EXCEPT !.stamp = "aware"])
            BY DEF LinkedTo
        <3>1. CASE i = Len(Live) + 1
            BY <1>3, <1>6, <2>1, <2>2, <3>1
        <3>2. CASE i \in 1 .. Len(Live)
            <4>1. Live'[i] = Live[i] /\ (i # 1 => Live'[i - 1] = Live[i - 1])
                BY <1>3, <1>6, <3>2
            <4> QED
                BY <2>2, <3>2, <4>1 DEF LinkedTo
        <3> QED
            BY <1>3, <1>6, <3>1, <3>2
    <2> QED
        BY <1>3, <1>6, <2>3 DEF LiveLinked
<1>9. (LogFromLive /\ InsertedFromLive /\ LogLinked /\ RowsNaive)'
    <2>1. \A n \in 1 .. Len(Live) : n \in 1 .. Len(Live') /\ Live'[n] = Live[n]
        BY <1>3, <1>6
    <2>2. LogFromLive'
        BY <1>3, <1>4, <2>1 DEF AuditInv, LogFromLive
    <2>3. InsertedFromLive'
        BY <1>3, <1>4, <2>1 DEF AuditInv, InsertedFromLive
    <2>4. (LogLinked /\ RowsNaive)'
        BY <1>4 DEF AuditInv, LogLinked, RowsNaive
    <2> QED
        BY <2>2, <2>3, <2>4
<1>10. CopiesFromLive'
    <2> SUFFICES ASSUME NEW s \in Requests, pc'[s] \in Copied
                 PROVE  /\ Len(snap'[s]) <= Len(Live')
                        /\ \A i \in 1 .. Len(snap'[s]) : snap'[s][i] = Live'[i]
        BY DEF CopiesFromLive
    <2>1. CASE s = r
        BY <1>2, <1>3, <1>6, <2>1, SMTT(30) DEF TypeOK, Copied
    <2>2. CASE s # r
        <3>1. pc[s] \in Copied /\ snap'[s] = snap[s]
            BY <1>2, <1>3, <2>2 DEF TypeOK
        <3> QED
            BY <1>3, <1>6, <3>1 DEF AuditInv, CopiesFromLive
    <2> QED
        BY <2>1, <2>2
<1>12. OpsInLive'
    <2>1. \A s \in Requests, k \in Nat : HasOp(Live, s, k) => HasOp(Live', s, k)
        BY <1>3, <1>6 DEF HasOp
    <2>2. HasOp(Live', r, step[r] + 1)
        BY <1>3, <1>5, <1>6 DEF HasOp
    <2>3. pc[r] \in Active /\ \A k \in 1 .. step[r] : HasOp(Live, r, k)
        BY <1>3 DEF AuditInv, OpsInLive, Active
    <2>4. step[r] \in Nat /\ step'[r] = step[r] + 1
        BY <1>2, <1>3 DEF TypeOK
    <2>5. \A k \in 1 .. step'[r] : HasOp(Live', r, k)
        BY <2>1, <2>2, <2>3, <2>4
    <2>6. pc'[r] \in Copied => snap'[r] = Live'
        BY <1>2, <1>3 DEF TypeOK, Copied
    <2>7. \A s \in Requests : s # r => pc'[s] = pc[s] /\ snap'[s] = snap[s] /\ step'[s] = step[s]
        BY <1>2, <1>3 DEF TypeOK
    <2> QED
        BY <2>1, <2>5, <2>6, <2>7 DEF AuditInv, OpsInLive
<1>13. \A s \in Requests : step'[s] \in Nat /\ step[s] \in Nat /\ step'[s] >= step[s]
    <2>1. step \in [Requests -> Nat]
        BY <1>2 DEF TypeOK
    <2>2. step' = [step EXCEPT ![r] = step[r] + 1]
        BY <1>3
    <2> QED
        BY <2>1, <2>2
<1>14. LogOnce'
    <2>1. \A n \in DOMAIN auditLog : auditLog[n].req \in Requests /\ auditLog[n].op \in Nat
        BY <1>2, BaseFacts DEF Entry
    <2>2. \A n \in DOMAIN auditLog : auditLog[n].op <= step'[auditLog[n].req]
        BY <1>13, <2>1 DEF AuditInv, LogOnce
    <2> QED
        BY <1>4, <2>2 DEF AuditInv, LogOnce, AuditOnce
<1>15. LiveOnce'
    <2>1. \A i \in 1 .. Len(Live) : Live[i].op <= step[Live[i].req]
        BY <1>3 DEF AuditInv, LiveOnce
    <2>2. \A i \in 1 .. Len(Live) : Live'[i].op <= step'[Live'[i].req] /\ Live[i].op <= step[Live[i].req]
        <3>1. \A i \in 1 .. Len(Live) : Live[i].req \in Requests /\ Live[i].op \in Nat
            BY <1>6 DEF Entry
        <3> QED
            BY <1>3, <1>13, <2>1, <3>1
    <2>3. e.op <= step'[e.req]
        BY <1>2, <1>3, <1>5 DEF TypeOK
    <2>4. \A i \in 1 .. Len(Live) : ~(Live[i].req = e.req /\ Live[i].op = e.op)
        BY <1>2, <1>5, <2>1, SMTT(30) DEF TypeOK
    <2>5. \A i \in 1 .. Len(Live') : i = Len(Live') \/ i \in 1 .. Len(Live)
        BY <1>3, <1>6
    <2> QED
        BY <1>3, <1>6, <2>2, <2>3, <2>4, <2>5, SMTT(30) DEF AuditInv, LiveOnce
<1>16. (FlushedCovered /\ AuditComplete)'
    <2>1. \A s \in Requests : pc'[s] \in {"flushed", "signed", "done"} => pc[s] = pc'[s] /\ snap'[s] = snap[s]
        BY <1>2, <1>3 DEF TypeOK
    <2> QED
        BY <1>4, <2>1 DEF AuditInv, FlushedCovered, AuditComplete
<1> QED
    BY <1>1, <1>7, <1>8, <1>9, <1>10, <1>12, <1>14, <1>15, <1>16 DEF AuditInv

(* The actions after the last append leave the chain and the counts alone. *)
LEMMA AuditPurgeNothing == ASSUME NEW r \in Requests PROVE AuditInv /\ PurgeNothing(r) => AuditInv'
<1> SUFFICES ASSUME AuditInv, PurgeNothing(r) PROVE AuditInv'
    OBVIOUS
<1> USE DEF PurgeNothing, db, server
<1>1. BaseInv'
    BY BasePurgeNothing DEF AuditInv
<1>2. TypeOK /\ engine # 0 /\ eng[r] = engine
    BY DEF AuditInv, BaseInv, OneEngine, Active
<1>3. Live \in Seq(Entry) /\ snap' = [snap EXCEPT ![r] = Live] /\ Len(Live) \in Nat
    BY <1>2, BaseFacts DEF AuditInv, Live
<1>4. (OneEngine /\ LiveLinked /\ LogFromLive /\ InsertedFromLive)'
    BY <1>2 DEF AuditInv, TypeOK, OneEngine, LiveLinked, LogFromLive, InsertedFromLive,
                Live, Active
<1>5. CopiesFromLive'
    <2> SUFFICES ASSUME NEW s \in Requests, pc'[s] \in Copied
                 PROVE  /\ Len(snap'[s]) <= Len(Live')
                        /\ \A i \in 1 .. Len(snap'[s]) : snap'[s][i] = Live'[i]
        BY DEF CopiesFromLive
    <2>1. Live' = Live
        BY DEF Live
    <2>2. CASE s = r
        BY <1>2, <1>3, <2>1, <2>2 DEF TypeOK
    <2>3. CASE s # r
        BY <1>2, <2>1, <2>3 DEF AuditInv, TypeOK, CopiesFromLive
    <2> QED
        BY <2>2, <2>3
<1>6. (LogLinked /\ RowsNaive /\ LogOnce /\ LiveOnce)'
    BY DEF AuditInv, LogLinked, RowsNaive, LogOnce, AuditOnce, LiveOnce, Live
<1>8. OpsInLive'
    <2>1. step[r] = 0
        BY <1>2 DEF AuditInv, BaseInv, TypeOK, StepsCounted, Copied
    <2> QED
        BY <1>2, <2>1 DEF AuditInv, TypeOK, OpsInLive, Live, Active, Copied
<1>9. (FlushedCovered /\ AuditComplete)'
    <2>1. \A s \in Requests : s # r => pc'[s] = pc[s] /\ snap'[s] = snap[s]
        BY <1>2 DEF TypeOK
    <2>2. pc'[r] = "appended"
        BY <1>2 DEF TypeOK
    <2>3. FlushedCovered'
        BY <2>1, <2>2 DEF AuditInv, FlushedCovered
    <2>4. AuditComplete'
        BY <2>1, <2>2 DEF AuditInv, AuditComplete
    <2> QED
        BY <2>3, <2>4
<1> QED
    BY <1>1, <1>4, <1>5, <1>6, <1>8, <1>9 DEF AuditInv

LEMMA AuditReadMax == ASSUME NEW r \in Requests PROVE AuditInv /\ ReadMax(r) => AuditInv'
<1> SUFFICES ASSUME AuditInv, ReadMax(r) PROVE AuditInv'
    OBVIOUS
<1> USE DEF ReadMax, db, server
<1>1. BaseInv'
    BY BaseReadMax DEF AuditInv
<1>2. TypeOK
    BY DEF AuditInv, BaseInv
<1>3. (OneEngine /\ LiveLinked /\ LogFromLive /\ CopiesFromLive /\ InsertedFromLive)'
    BY <1>2 DEF AuditInv, TypeOK, OneEngine, LiveLinked, LogFromLive, CopiesFromLive,
                InsertedFromLive, Live, Active, Copied
<1>4. (LogLinked /\ RowsNaive /\ LogOnce /\ LiveOnce)'
    BY DEF AuditInv, LogLinked, RowsNaive, LogOnce, AuditOnce, LiveOnce, Live
<1>5. OpsInLive'
    BY <1>2 DEF AuditInv, TypeOK, OpsInLive, Live, Active, Copied
<1>6. (FlushedCovered /\ AuditComplete)'
    <2>1. \A s \in Requests : s # r => pc'[s] = pc[s] /\ snap'[s] = snap[s]
        BY <1>2 DEF TypeOK
    <2>2. pc'[r] = "numbered"
        BY <1>2 DEF TypeOK
    <2>3. FlushedCovered'
        BY <2>1, <2>2 DEF AuditInv, FlushedCovered
    <2>4. AuditComplete'
        BY <2>1, <2>2 DEF AuditInv, AuditComplete
    <2> QED
        BY <2>3, <2>4
<1> QED
    BY <1>1, <1>3, <1>4, <1>5, <1>6 DEF AuditInv

LEMMA AuditFlushNothing == ASSUME NEW r \in Requests PROVE AuditInv /\ FlushNothing(r) => AuditInv'
<1> SUFFICES ASSUME AuditInv, FlushNothing(r) PROVE AuditInv'
    OBVIOUS
<1> USE DEF db, server, locals
<1>1. BaseInv'
    BY BaseFlushNothing DEF AuditInv
<1>2. TypeOK /\ Numbered(snap[r])
    BY DEF AuditInv, BaseInv, ChainsNumbered
<1>3. /\ pc[r] = "numbered" /\ pc' = [pc EXCEPT ![r] = "flushed"]
      /\ UNCHANGED <<db, server, locals>>
    BY DEF FlushNothing
<1>4. (OneEngine /\ LiveLinked /\ LogFromLive /\ CopiesFromLive /\ InsertedFromLive)'
    BY <1>2, <1>3 DEF AuditInv, TypeOK, OneEngine, LiveLinked, LogFromLive, CopiesFromLive,
                      InsertedFromLive, Live, Active, Copied
<1>5. (LogLinked /\ RowsNaive /\ LogOnce /\ LiveOnce)'
    BY <1>3 DEF AuditInv, LogLinked, RowsNaive, LogOnce, AuditOnce, LiveOnce, Live
<1>6. OpsInLive'
    BY <1>2, <1>3 DEF AuditInv, TypeOK, OpsInLive, Live, Active, Copied
<1>7. Len(snap[r]) <= HighestNumber(auditLog)
    <2>1. NewNumbers(r) = {} /\ NewNumbers(r) = {n \in 1 .. Len(snap[r]) : n > seen[r]}
        BY <1>2, NewNumbersOf DEF FlushNothing
    <2>2. seen[r] <= HighestNumber(auditLog) /\ HighestNumber(auditLog) \in Nat
        BY <1>3 DEF AuditInv, BaseInv, SeenBounded, LogNumbered
    <2>3. seen[r] \in Nat /\ Len(snap[r]) \in Nat
        BY <1>2 DEF TypeOK
    <2>4. ~(Len(snap[r]) > seen[r])
        <3> SUFFICES ASSUME Len(snap[r]) > seen[r] PROVE FALSE
            OBVIOUS
        <3>1. Len(snap[r]) \in NewNumbers(r)
            BY <2>1, <2>3
        <3> QED
            BY <2>1, <3>1
    <2> QED
        BY <2>2, <2>3, <2>4
<1>8. (FlushedCovered /\ AuditComplete)'
    BY <1>2, <1>3, <1>7, SMTT(30) DEF AuditInv, TypeOK, FlushedCovered, AuditComplete
<1> QED
    BY <1>1, <1>4, <1>5, <1>6, <1>8 DEF AuditInv

LEMMA AuditFlushAudit == ASSUME NEW r \in Requests PROVE AuditInv /\ FlushAudit(r) => AuditInv'
<1> SUFFICES ASSUME AuditInv, FlushAudit(r) PROVE AuditInv'
    OBVIOUS
<1> USE DEF db, server, locals
<1> DEFINE H == HighestNumber(auditLog)
<1>1. BaseInv'
    BY BaseFlushAudit DEF AuditInv
<1>2. TypeOK /\ BaseInv /\ Numbered(snap[r])
    BY DEF AuditInv, BaseInv, ChainsNumbered
<1>3. /\ pc[r] = "numbered" /\ writer \in {NoRequest, r} /\ writer' = r
      /\ pc' = [pc EXCEPT ![r] = "flushed"]
      /\ inserted' = [n \in NewNumbers(r) |-> RowOf(CopyOf(r, n))]
      /\ UNCHANGED <<auditLog, checkpoints, signed, server, locals>>
    BY DEF FlushAudit, MayWrite
<1>4. /\ NewNumbers(r) = H + 1 .. Len(snap[r]) /\ Len(snap[r]) > H
      /\ H \in Nat /\ Len(snap[r]) \in Nat
    <2>1. H \in Nat /\ Len(snap[r]) \in Nat
        BY <1>2, BaseFacts
    <2> QED
        BY <1>2, <2>1, FlushContinuesLog
<1>5. \A n \in NewNumbers(r) : CopyOf(r, n) = snap[r][n] /\ CopyOf(r, n) \in Entry
    BY <1>2, NewNumbersOf
<1>6. engine # 0 /\ Len(Live) \in Nat /\ Len(snap[r]) <= Len(Live)
      /\ \A i \in 1 .. Len(snap[r]) : snap[r][i] = Live[i]
    <2>1. engine # 0 /\ Len(snap[r]) <= Len(Live)
          /\ \A i \in 1 .. Len(snap[r]) : snap[r][i] = Live[i]
        BY <1>3 DEF AuditInv, OneEngine, CopiesFromLive, Active, Copied
    <2> QED
        BY <1>2, <2>1, BaseFacts
<1>7. \A n \in DOMAIN inserted' : /\ n \in 1 .. Len(Live)
                                  /\ inserted'[n] = RowOf(Live[n])
                                  /\ inserted'[n].stamp = "naive"
    BY <1>3, <1>4, <1>5, <1>6, RowOfType
<1>8. DOMAIN inserted' # {}
    <2>1. Len(snap[r]) \in DOMAIN inserted'
        BY <1>3, <1>4
    <2> QED
        BY <2>1
<1>9. (OneEngine /\ LiveLinked /\ LogFromLive /\ CopiesFromLive)'
    BY <1>2, <1>3 DEF AuditInv, TypeOK, OneEngine, LiveLinked, LogFromLive, CopiesFromLive,
                      Live, Active, Copied
<1>10. (InsertedFromLive /\ RowsNaive)'
    BY <1>3, <1>7 DEF AuditInv, InsertedFromLive, RowsNaive, Live
<1>11. (LogLinked /\ LogOnce /\ LiveOnce)'
    BY <1>3 DEF AuditInv, LogLinked, LogOnce, AuditOnce, LiveOnce, Live
<1>12. OpsInLive'
    BY <1>2, <1>3 DEF AuditInv, TypeOK, OpsInLive, Live, Active, Copied
<1>13. (FlushedCovered /\ AuditComplete)'
    BY <1>2, <1>3, <1>8, SMTT(30) DEF AuditInv, TypeOK, BaseInv, InsertedNext, FlushedCovered, AuditComplete
<1> QED
    BY <1>1, <1>9, <1>10, <1>11, <1>12, <1>13 DEF AuditInv

LEMMA AuditRollback ==
    ASSUME NEW r \in Requests, AuditInv, pc[r] \in Active, Rollback(r),
           pc' = [pc EXCEPT ![r] = "failed"], UNCHANGED <<server, locals>>
    PROVE  AuditInv'
<1> USE DEF server, locals
<1>1. BaseInv'
    BY BaseRollback DEF AuditInv
<1>2. /\ TypeOK /\ UNCHANGED <<auditLog, checkpoints>>
      /\ \/ writer = r /\ writer' = NoRequest /\ DOMAIN inserted' = {}
         \/ writer # r /\ writer' = writer /\ inserted' = inserted
    BY DEF AuditInv, BaseInv, Rollback, Empty
<1>3. (OneEngine /\ LiveLinked /\ LogFromLive /\ CopiesFromLive /\ InsertedFromLive)'
    BY <1>2 DEF AuditInv, TypeOK, OneEngine, LiveLinked, LogFromLive, CopiesFromLive,
                InsertedFromLive, Live, Active, Copied
<1>4. (LogLinked /\ RowsNaive /\ LogOnce /\ LiveOnce)'
    BY <1>2 DEF AuditInv, LogLinked, RowsNaive, LogOnce, AuditOnce, LiveOnce, Live
<1>5. OpsInLive'
    BY <1>2 DEF AuditInv, TypeOK, OpsInLive, Live, Active, Copied
<1>6. (FlushedCovered /\ AuditComplete)'
    <2>1. pc'[r] = "failed" /\ \A s \in Requests : s # r => pc'[s] = pc[s]
        BY <1>2 DEF TypeOK
    <2>2. FlushedCovered'
        BY <1>2, <2>1 DEF AuditInv, FlushedCovered
    <2>3. AuditComplete'
        BY <1>2, <2>1 DEF AuditInv, AuditComplete
    <2> QED
        BY <2>2, <2>3
<1> QED
    BY <1>1, <1>3, <1>4, <1>5, <1>6 DEF AuditInv

LEMMA AuditRejectFlush == ASSUME NEW r \in Requests PROVE AuditInv /\ RejectFlush(r) => AuditInv'
    BY AuditRollback DEF RejectFlush, Active

LEMMA AuditFail == ASSUME NEW r \in Requests PROVE AuditInv /\ Fail(r) => AuditInv'
    BY AuditRollback DEF Fail

LEMMA AuditSignCheckpoint ==
    ASSUME NEW r \in Requests PROVE AuditInv /\ SignCheckpoint(r) => AuditInv'
<1> SUFFICES ASSUME AuditInv, SignCheckpoint(r) PROVE AuditInv'
    OBVIOUS
<1> USE DEF server, locals
<1>1. BaseInv'
    BY BaseSignCheckpoint DEF AuditInv
<1>2. /\ TypeOK /\ pc[r] = "flushed" /\ pc' = [pc EXCEPT ![r] = "signed"]
      /\ UNCHANGED <<auditLog, checkpoints, writer, inserted, server, locals>>
    BY DEF AuditInv, BaseInv, SignCheckpoint
<1>3. (OneEngine /\ LiveLinked /\ LogFromLive /\ CopiesFromLive /\ InsertedFromLive)'
    <2>1. OneEngine'
        BY <1>2 DEF AuditInv, TypeOK, OneEngine, Active
    <2>2. (LiveLinked /\ LogFromLive /\ InsertedFromLive)'
        BY <1>2 DEF AuditInv, LiveLinked, LogFromLive, InsertedFromLive, Live
    <2>3. CopiesFromLive'
        BY <1>2 DEF AuditInv, TypeOK, CopiesFromLive, Live, Copied
    <2> QED
        BY <2>1, <2>2, <2>3
<1>4. (LogLinked /\ RowsNaive /\ LogOnce /\ LiveOnce)'
    BY <1>2 DEF AuditInv, LogLinked, RowsNaive, LogOnce, AuditOnce, LiveOnce, Live
<1>5. OpsInLive'
    BY <1>2 DEF AuditInv, TypeOK, OpsInLive, Live, Active, Copied
<1>6. (FlushedCovered /\ AuditComplete)'
    <2>1. pc'[r] = "signed" /\ \A s \in Requests : s # r => pc'[s] = pc[s]
        BY <1>2 DEF TypeOK
    <2>2. FlushedCovered'
        BY <1>2, <2>1 DEF AuditInv, FlushedCovered
    <2>3. AuditComplete'
        BY <1>2, <2>1 DEF AuditInv, AuditComplete
    <2> QED
        BY <2>2, <2>3
<1> QED
    BY <1>1, <1>3, <1>4, <1>5, <1>6 DEF AuditInv

(* A commit moves a stretch of the live chain into the log, and that stretch
   or the log before it has all the operations of the request. *)
LEMMA AuditCommit == ASSUME NEW r \in Requests PROVE AuditInv /\ Commit(r) => AuditInv'
<1> SUFFICES ASSUME AuditInv, Commit(r) PROVE AuditInv'
    OBVIOUS
<1> USE DEF server, locals
<1> DEFINE H == HighestNumber(auditLog)
<1>1. BaseInv'
    BY BaseCommit DEF AuditInv
<1>2. /\ TypeOK /\ BaseInv
      /\ pc[r] \in {"flushed", "signed"} /\ pc' = [pc EXCEPT ![r] = "done"]
      /\ UNCHANGED <<server, locals>>
    BY DEF AuditInv, BaseInv, Commit, MayCommit
<1>3. /\ engine # 0
      /\ Live' = Live /\ chain' = chain /\ engine' = engine
      /\ Len(Live) \in Nat /\ \A i \in 1 .. Len(Live) : Live[i] \in Entry
      /\ Len(snap[r]) <= Len(Live) /\ Len(snap[r]) \in Nat
      /\ \A i \in 1 .. Len(snap[r]) : snap[r][i] = Live[i]
    <2>1. engine # 0 /\ Len(snap[r]) <= Len(Live)
          /\ \A i \in 1 .. Len(snap[r]) : snap[r][i] = Live[i]
        BY <1>2 DEF AuditInv, OneEngine, CopiesFromLive, Active, Copied
    <2> QED
        BY <1>2, <2>1, BaseFacts DEF Live
<1>4. /\ HighestNumber(auditLog)' >= H
      /\ writer = r /\ DOMAIN inserted # {} => HighestNumber(auditLog)' = Len(snap[r])
      /\ \A n \in DOMAIN auditLog : n \in DOMAIN auditLog' /\ auditLog'[n] = auditLog[n]
      /\ HighestNumber(auditLog)' \in Nat
      /\ DOMAIN auditLog' = 1 .. HighestNumber(auditLog)'
      /\ H \in Nat /\ DOMAIN auditLog = 1 .. H
    BY <1>2, CommitExtendsLog, BaseFacts DEF LogNumbered, LogContiguous
<1>5. \A n \in DOMAIN auditLog' : \/ n \in DOMAIN auditLog /\ auditLog'[n] = auditLog[n]
                                  \/ n \in DOMAIN inserted /\ auditLog'[n] = inserted[n]
    BY DEF Commit, Merge, db
<1>6. LogFromLive'
    BY <1>3, <1>5 DEF AuditInv, LogFromLive, InsertedFromLive
<1>7. \A n \in DOMAIN auditLog' :
          /\ n \in 1 .. Len(Live) /\ Live[n] \in Entry /\ auditLog'[n] = RowOf(Live[n])
          /\ auditLog'[n].req = Live[n].req /\ auditLog'[n].op = Live[n].op
          /\ auditLog'[n].prev = Live[n].prev /\ auditLog'[n].hash = Live[n].hash
    BY <1>3, <1>6, RowOfType DEF LogFromLive
<1>8. LogLinked'
    <2>1. \A n \in DOMAIN auditLog' :
              [auditLog'[n] EXCEPT !.stamp = "aware"] = [Live[n] EXCEPT !.stamp = "aware"]
        BY <1>7 DEF RowOf, Entry
    <2>2. LinkedTo(Live)
        BY <1>3 DEF AuditInv, LiveLinked
    <2> SUFFICES ASSUME NEW n \in DOMAIN auditLog'
                 PROVE  /\ auditLog'[n].prev = IF n = 1 THEN GenesisHash ELSE auditLog'[n - 1].hash
                        /\ auditLog'[n].hash = ComputeHash([auditLog'[n] EXCEPT !.stamp = "aware"])
        BY DEF LogLinked
    <2>3. /\ Live[n].prev = IF n = 1 THEN GenesisHash ELSE Live[n - 1].hash
          /\ Live[n].hash = ComputeHash([Live[n] EXCEPT !.stamp = "aware"])
        BY <1>7, <2>2 DEF LinkedTo
    <2>4. n # 1 => n - 1 \in DOMAIN auditLog'
        BY <1>4
    <2> QED
        BY <1>7, <2>1, <2>3, <2>4
<1>9. /\ \A n \in DOMAIN inserted' : n \in DOMAIN inserted /\ inserted'[n] = inserted[n]
      /\ writer' # writer => writer = r
      /\ inserted' # inserted => writer = r
    BY DEF Commit, Empty, db
<1>10. OneEngine'
    BY <1>2, <1>3 DEF AuditInv, TypeOK, OneEngine, Active
<1>11. (LiveLinked /\ CopiesFromLive)'
    BY <1>2, <1>3 DEF AuditInv, TypeOK, LiveLinked, CopiesFromLive, Copied
<1>12. (InsertedFromLive /\ RowsNaive)'
    BY <1>3, <1>5, <1>9 DEF AuditInv, InsertedFromLive, RowsNaive
<1>13. OpsInLive'
    BY <1>2, <1>3 DEF AuditInv, TypeOK, OpsInLive, Active, Copied
<1>14. LiveOnce'
    BY <1>2, <1>3 DEF AuditInv, LiveOnce
<1>15. LogOnce'
    <2>1. step' = step
        BY <1>2
    <2>2. /\ \A i \in 1 .. Len(Live) : Live[i].op <= step[Live[i].req]
          /\ \A i, j \in 1 .. Len(Live) :
                Live[i].req = Live[j].req /\ Live[i].op = Live[j].op => i = j
        BY <1>3 DEF AuditInv, LiveOnce
    <2> QED
        BY <1>7, <2>1, <2>2 DEF LogOnce, AuditOnce
<1>16. FlushedCovered'
    <2> SUFFICES ASSUME NEW s \in Requests, pc'[s] \in {"flushed", "signed"}
                 PROVE  \/ Len(snap'[s]) <= HighestNumber(auditLog)'
                        \/ writer' = s /\ DOMAIN inserted' # {}
        BY DEF FlushedCovered
    <2>1. s # r /\ pc[s] = pc'[s] /\ snap'[s] = snap[s] /\ Len(snap[s]) \in Nat
        BY <1>2, BaseFacts DEF TypeOK
    <2>2. CASE Len(snap[s]) <= H
        BY <1>4, <2>1, <2>2
    <2>3. CASE writer = s /\ DOMAIN inserted # {}
        BY <1>9, <2>1, <2>3
    <2> QED
        BY <2>1, <2>2, <2>3 DEF AuditInv, FlushedCovered
<1>17. AuditComplete'
    <2> SUFFICES ASSUME NEW s \in Requests, pc'[s] = "done", NEW k \in 1 .. ops'[s]
                 PROVE  \E n \in DOMAIN auditLog' :
                            auditLog'[n].req = s /\ auditLog'[n].op = k
        BY DEF AuditComplete
    <2>1. CASE s = r
        <3>1. Len(snap[r]) <= HighestNumber(auditLog)'
            BY <1>2, <1>3, <1>4 DEF AuditInv, FlushedCovered
        <3>2. k \in 1 .. step[r]
            BY <1>2, <2>1 DEF AuditInv, BaseInv, StepsCounted, Copied
        <3>3. PICK i \in 1 .. Len(snap[r]) : snap[r][i].req = r /\ snap[r][i].op = k
            BY <1>2, <3>2 DEF AuditInv, OpsInLive, HasOp, Copied
        <3>4. i \in DOMAIN auditLog'
            BY <1>3, <1>4, <3>1
        <3> QED
            BY <1>3, <1>7, <2>1, <3>3, <3>4
    <2>2. CASE s # r
        <3>1. pc[s] = "done" /\ ops'[s] = ops[s]
            BY <1>2, <2>2 DEF TypeOK
        <3>2. PICK n \in DOMAIN auditLog : auditLog[n].req = s /\ auditLog[n].op = k
            BY <3>1 DEF AuditInv, AuditComplete
        <3> QED
            BY <1>4, <3>2
    <2> QED
        BY <2>1, <2>2
<1> QED
    BY <1>1, <1>6, <1>8, <1>10, <1>11, <1>12, <1>13, <1>14, <1>15, <1>16, <1>17 DEF AuditInv

LEMMA AuditStutter == AuditInv /\ UNCHANGED vars => AuditInv'
<1> SUFFICES ASSUME AuditInv, UNCHANGED vars PROVE AuditInv'
    OBVIOUS
<1>1. UNCHANGED <<auditLog, checkpoints, writer, inserted, signed, engine, installed, chain,
                  unlocking, loadedChain, pc, kind, eng, ops, step, snap, seen>>
    BY DEF vars, db, server, locals
<1>2. BaseInv'
    BY BaseStutter DEF AuditInv
<1>3. (OneEngine /\ LiveLinked /\ LogLinked /\ LogFromLive /\ CopiesFromLive
         /\ InsertedFromLive /\ RowsNaive)'
    BY <1>1 DEF AuditInv, OneEngine, LiveLinked, LogLinked, LogFromLive, CopiesFromLive,
                InsertedFromLive, RowsNaive, Live
<1>4. (OpsInLive /\ LiveOnce /\ LogOnce /\ FlushedCovered /\ AuditComplete)'
    BY <1>1 DEF AuditInv, OpsInLive, LiveOnce, LogOnce, AuditOnce,
                FlushedCovered, AuditComplete, Live
<1> QED
    BY <1>2, <1>3, <1>4 DEF AuditInv

LEMMA AuditStep == ~HotUnlock /\ AuditInv /\ [Next]_vars => AuditInv'
<1> SUFFICES ASSUME ~HotUnlock, AuditInv, [Next]_vars PROVE AuditInv'
    OBVIOUS
<1>1. CASE LoadChain
    BY <1>1, AuditLoadChain
<1>2. CASE InstallEngine
    BY <1>2, AuditInstallEngine
<1>3. CASE Crash
    BY <1>3, AuditCrash
<1>4. CASE \E r \in Requests : Begin(r) \/ Progress(r) \/ Fail(r)
    BY <1>4, AuditBegin, AuditFail, AuditWriteRow, AuditAppendAudit, AuditPurgeNothing,
       AuditReadMax, AuditFlushNothing, AuditFlushAudit, AuditRejectFlush,
       AuditSignCheckpoint, AuditCommit
       DEF Progress
<1>5. CASE UNCHANGED vars
    BY <1>5, AuditStutter
<1> QED
    BY <1>1, <1>2, <1>3, <1>4, <1>5 DEF Next

LEMMA AuditCorrect == ASSUME ~HotUnlock PROVE Spec => []AuditInv
<1>1. Init => AuditInv
    BY AuditInit
<1>2. AuditInv /\ [Next]_vars => AuditInv'
    BY AuditStep
<1> QED
    BY <1>1, <1>2, PTL DEF Spec

-----------------------------------------------------------------------------
(* The theorems. *)

(* Every operation of every request that was answered is in the persisted
   ledger, however the requests interleave and whenever the process dies. *)
THEOREM AnsweredIsRecorded == ASSUME ~HotUnlock PROVE Spec => []AuditComplete
<1>1. AuditInv => AuditComplete
    BY DEF AuditInv
<1> QED
    BY <1>1, AuditCorrect, PTL

(* The rows of the audit table are linked by previous_hash and carry the hash
   append() computed, across crashes and reloads. *)
THEOREM LogAlwaysLinked == ASSUME ~HotUnlock PROVE Spec => []LogLinked
<1>1. AuditInv => LogLinked
    BY DEF AuditInv
<1> QED
    BY <1>1, AuditCorrect, PTL

(* The table is at all times a prefix of the chain in memory. *)
THEOREM LogIsPrefixOfChain == ASSUME ~HotUnlock PROVE Spec => []PersistedIsPrefix
<1>1. AuditInv => PersistedIsPrefix
    <2> SUFFICES ASSUME AuditInv, engine # 0, NEW n \in DOMAIN auditLog
                 PROVE  n \in DOMAIN Live /\ RowOf(Live[n]) = auditLog[n]
        BY DEF PersistedIsPrefix, Live
    <2>1. n \in 1 .. Len(Live) /\ RowOf(Live[n]) = auditLog[n]
        BY DEF AuditInv, LogFromLive
    <2>2. Live \in Seq(Entry)
        BY BaseFacts DEF AuditInv
    <2> QED
        BY <2>1, <2>2
<1> QED
    BY <1>1, AuditCorrect, PTL

(* verify() never reports a broken link, nor a bad hash on an entry appended
   since the last restart. *)
THEOREM OwnEntriesAlwaysVerify == ASSUME ~HotUnlock PROVE Spec => []OwnEntriesVerify
<1>1. AuditInv => OwnEntriesVerify
    <2> SUFFICES ASSUME AuditInv, engine # 0 PROVE OwnEntriesVerify
        BY DEF OwnEntriesVerify
    <2>1. Live \in Seq(Entry) /\ DOMAIN Live = 1 .. Len(Live)
          /\ \A i \in 1 .. Len(Live) : Live[i] \in Entry
        BY BaseFacts DEF AuditInv
    <2>2. LinkedTo(Live)
        BY DEF AuditInv, LiveLinked
    <2>3. BadLinks(chain[engine]) = {}
        BY <2>1, <2>2 DEF BadLinks, ExpectedPrev, LinkedTo, Live
    <2>4. ASSUME NEW i \in BadHashes(chain[engine]), Live[i].stamp # "naive"
          PROVE  FALSE
        <3>1. i \in 1 .. Len(Live) /\ ComputeHash(Live[i]) # Live[i].hash
            BY <2>1 DEF BadHashes, Live
        <3>2. Live[i] \in Entry /\ Live[i].stamp = "aware"
            BY <2>1, <2>4, <3>1 DEF Entry, Stamps
        <3>3. [Live[i] EXCEPT !.stamp = "aware"] = Live[i]
            BY <3>2 DEF Entry
        <3> QED
            BY <2>2, <3>1, <3>3 DEF LinkedTo
    <2> QED
        BY <2>3, <2>4 DEF OwnEntriesVerify, Live
<1> QED
    BY <1>1, AuditCorrect, PTL

-----------------------------------------------------------------------------
(* The refinement of AuditTrail. *)

(* No step changes a row of the log or takes an answer back. *)
LEMMA StepKeepsPast ==
    ASSUME BaseInv, [Next]_vars
    PROVE  /\ \A n \in DOMAIN auditLog : n \in DOMAIN auditLog' /\ auditLog'[n] = auditLog[n]
           /\ \A s \in Requests : pc[s] = "done" => pc'[s] = "done" /\ ops'[s] = ops[s]
<1>1. pc \in [Requests -> {"idle"} \cup Active \cup Ended] /\ ops \in [Requests -> Nat]
    BY DEF BaseInv, TypeOK
<1>2. CASE LoadChain \/ InstallEngine \/ UNCHANGED vars
    BY <1>2 DEF LoadChain, InstallEngine, vars, db, locals
<1>3. CASE Crash
    BY <1>3 DEF Crash, locals, Active
<1>4. ASSUME NEW r \in Requests, Begin(r) \/ Progress(r) \/ Fail(r)
      PROVE  /\ \A n \in DOMAIN auditLog : n \in DOMAIN auditLog' /\ auditLog'[n] = auditLog[n]
             /\ \A s \in Requests : pc[s] = "done" => pc'[s] = "done" /\ ops'[s] = ops[s]
    <2>1. CASE Begin(r)
        BY <1>1, <2>1 DEF Begin, db
    <2>2. CASE Commit(r)
        <3>1. \A n \in DOMAIN auditLog : n \in DOMAIN auditLog' /\ auditLog'[n] = auditLog[n]
            BY <2>2, CommitExtendsLog
        <3>2. pc' = [pc EXCEPT ![r] = "done"] /\ ops' = ops
            BY <2>2 DEF Commit, MayCommit, locals
        <3> QED
            BY <1>1, <3>1, <3>2
    <2>3. CASE WriteRow(r) \/ AppendAudit(r) \/ PurgeNothing(r) \/ ReadMax(r)
        <3>1. pc[r] # "done" /\ auditLog' = auditLog /\ ops' = ops
            BY <2>3 DEF WriteRow, AppendAudit, PurgeNothing, ReadMax, db, locals
        <3>2. \A s \in Requests : s # r => pc'[s] = pc[s]
            BY <1>1, <2>3 DEF WriteRow, AppendAudit, PurgeNothing, ReadMax
        <3> QED
            BY <3>1, <3>2
    <2>4. CASE FlushNothing(r) \/ FlushAudit(r) \/ RejectFlush(r) \/ SignCheckpoint(r) \/ Fail(r)
        <3>1. pc[r] # "done" /\ auditLog' = auditLog /\ ops' = ops
            BY <2>4 DEF FlushNothing, FlushAudit, RejectFlush, SignCheckpoint, Fail,
                        Rollback, Active, db, locals
        <3>2. \A s \in Requests : s # r => pc'[s] = pc[s]
            BY <1>1, <2>4 DEF FlushNothing, FlushAudit, RejectFlush, SignCheckpoint, Fail
        <3> QED
            BY <3>1, <3>2
    <2> QED
        BY <1>4, <2>1, <2>2, <2>3, <2>4 DEF Progress
<1> QED
    BY <1>2, <1>3, <1>4 DEF Next

LEMMA InitIsTrail == Init => Trail!Init
<1> SUFFICES ASSUME Init PROVE Trail!Init
    OBVIOUS
<1>1. [n \in DOMAIN auditLog |-> <<auditLog[n].req, auditLog[n].op>>] = << >>
    <2>1. DOMAIN auditLog = {}
        BY DEF Init, Empty
    <2> QED
        BY <2>1
<1>2. {o \in Requests \X (1 .. MaxPurge + 1) : pc[o[1]] = "done" /\ o[2] <= ops[o[1]]} = {}
    BY DEF Init
<1> QED
    BY <1>1, <1>2 DEF Trail!Init

LEMMA StepIsTrail ==
    ASSUME AuditInv, AuditInv', [Next]_vars
    PROVE  Trail!Next
<1> DEFINE t == [n \in DOMAIN auditLog |-> <<auditLog[n].req, auditLog[n].op>>]
           a == {o \in Requests \X (1 .. MaxPurge + 1) :
                    pc[o[1]] = "done" /\ o[2] <= ops[o[1]]}
<1>1. /\ \A n \in DOMAIN auditLog : n \in DOMAIN auditLog' /\ auditLog'[n] = auditLog[n]
      /\ \A s \in Requests : pc[s] = "done" => pc'[s] = "done" /\ ops'[s] = ops[s]
    BY StepKeepsPast DEF AuditInv
<1>2. /\ DOMAIN auditLog' = 1 .. HighestNumber(auditLog)'
      /\ HighestNumber(auditLog)' \in Nat
    BY DEF AuditInv, BaseInv, LogNumbered, LogContiguous
<1>3. DOMAIN t \subseteq DOMAIN t' /\ \A n \in DOMAIN t : t'[n] = t[n]
    BY <1>1
<1>4. \A n \in DOMAIN t' : n \in Nat /\ 1 .. n \subseteq DOMAIN t'
    BY <1>2
<1>5. \A m, n \in DOMAIN t' : t'[m] = t'[n] => m = n
    BY DEF AuditInv, LogOnce, AuditOnce
<1>6. a \subseteq a'
    <2> SUFFICES ASSUME NEW o \in a PROVE o \in a'
        OBVIOUS
    <2>1. o \in Requests \X (1 .. MaxPurge + 1) /\ pc[o[1]] = "done" /\ o[2] <= ops[o[1]]
        OBVIOUS
    <2> QED
        BY <1>1, <2>1
<1>7. a' \subseteq {t'[n] : n \in DOMAIN t'}
    <2> SUFFICES ASSUME NEW o \in a' PROVE \E n \in DOMAIN t' : t'[n] = o
        OBVIOUS
    <2>1. /\ o \in Requests \X (1 .. MaxPurge + 1)
          /\ pc'[o[1]] = "done" /\ o[2] <= ops'[o[1]]
        OBVIOUS
    <2>2. o[1] \in Requests /\ o[2] \in 1 .. ops'[o[1]] /\ o = <<o[1], o[2]>>
        BY <2>1 DEF AuditInv, BaseInv, TypeOK
    <2>3. PICK n \in DOMAIN auditLog' : auditLog'[n].req = o[1] /\ auditLog'[n].op = o[2]
        BY <2>1, <2>2 DEF AuditInv, AuditComplete
    <2> QED
        BY <2>2, <2>3
<1> HIDE DEF t, a
<1> QED
    BY <1>3, <1>4, <1>5, <1>6, <1>7
       DEF t, a, Trail!Next, Trail!CommitBatch, Trail!Extends, Trail!IsTrail, Trail!Recorded

(* To a reader of the database, the ledger is an audit trail that only grows
   and holds whatever was acknowledged. *)
THEOREM LedgerImplementsAuditTrail == ASSUME ~HotUnlock PROVE Spec => ImplementsAuditTrail
<1>1. Init => Trail!Init
    BY InitIsTrail
<1>2. AuditInv /\ AuditInv' /\ [Next]_vars => [Trail!Next]_<<
          [n \in DOMAIN auditLog |-> <<auditLog[n].req, auditLog[n].op>>],
          {o \in Requests \X (1 .. MaxPurge + 1) : pc[o[1]] = "done" /\ o[2] <= ops[o[1]]}>>
    BY StepIsTrail
<1> QED
    BY <1>1, <1>2, AuditCorrect, PTL DEF Spec, ImplementsAuditTrail, Trail!Spec

-----------------------------------------------------------------------------
(* What a clean verification proves. *)

(* Were some of 1 .. n bad, there would be a first of them. *)
LEMMA FirstOf ==
    ASSUME NEW Bad, Bad \subseteq Nat, Bad # {}
    PROVE  \E n \in Bad : \A m \in Bad : n <= m
<1>1. PICK n \in Bad : \A m \in Bad : <<m, n>> \notin OpToRel(<, Nat)
    BY NatLessThanWellFounded, WFMin
<1>2. ASSUME NEW m \in Bad, m < n PROVE <<m, n>> \in OpToRel(<, Nat)
    <2>1. <<m, n>> \in {ss \in Nat \X Nat : ss[1] < ss[2]}
        BY <1>2
    <2> QED
        BY <2>1, Zenon DEF OpToRel
<1>3. \A m \in Bad : ~(m < n)
    BY <1>1, <1>2, Zenon
<1> QED
    BY <1>3

(* A digest that holds the contents of the entries up to i, and no more. *)
Covers(digest, c, i) ==
    /\ Len(digest) = i
    /\ \A k \in 1 .. i : digest[k] = ContentOf(c.entries[k])

LEMMA HashesCover ==
    ASSUME NEW c \in Chain, Verify(c) = {}, NEW i \in DOMAIN c.entries
    PROVE  Covers(c.entries[i].hash, c, i)
<1> DEFINE Bad == {k \in DOMAIN c.entries : ~Covers(c.entries[k].hash, c, k)}
<1>1. /\ DOMAIN c.entries = 1 .. Len(c.entries) /\ Len(c.entries) \in Nat
      /\ \A k \in DOMAIN c.entries : c.entries[k] \in Entry
    BY DEF Chain
<1>2. \A k \in DOMAIN c.entries : /\ c.entries[k].prev = ExpectedPrev(c, k)
                                 /\ c.entries[k].hash = ComputeHash(c.entries[k])
    BY DEF Verify, BadLinks, BadHashes
<1> SUFFICES ASSUME Bad # {} PROVE FALSE
    OBVIOUS
<1>3. PICK k \in Bad : \A m \in Bad : k <= m
    <2>1. Bad \subseteq Nat
        BY <1>1
    <2> HIDE DEF Bad
    <2> QED
        BY <2>1, FirstOf
<1> DEFINE e == c.entries[k]
<1>4. /\ k \in 1 .. Len(c.entries) /\ e \in Entry /\ e.hash = Append(e.prev, ContentOf(e))
      /\ e.prev \in Seq(Content)
    BY <1>1, <1>2, <1>3 DEF ComputeHash, Entry, Digest
<1>5. Covers(e.prev, c, k - 1)
    <2>1. CASE k = 1
        <3>1. e.prev = << >>
            BY <1>2, <1>3, <2>1 DEF ExpectedPrev, GenesisHash
        <3> QED
            BY <2>1, <3>1 DEF Covers
    <2>2. CASE k # 1
        <3>1. k - 1 \in DOMAIN c.entries /\ ~(k <= k - 1)
            BY <1>1, <1>4, <2>2
        <3>2. Covers(c.entries[k - 1].hash, c, k - 1)
            BY <1>3, <3>1
        <3>3. e.prev = c.entries[k - 1].hash
            BY <1>2, <1>3, <2>2 DEF ExpectedPrev
        <3> QED
            BY <3>2, <3>3
    <2> QED
        BY <2>1, <2>2
<1> HIDE DEF e, Bad
<1>6. Covers(e.hash, c, k)
    <2>1. Len(e.hash) = k
        BY <1>4, <1>5 DEF Covers
    <2>2. \A j \in 1 .. k : e.hash[j] = ContentOf(c.entries[j])
        BY <1>4, <1>5 DEF Covers, e
    <2> QED
        BY <2>1, <2>2 DEF Covers
<1> QED
    BY <1>3, <1>6 DEF Bad, e

(* Two chains in which verify() finds nothing, and that share one hash, share
   every entry up to it: whoever keeps a hash of the ledger, as a checkpoint
   does, learns of any change to what came before it, and of any entry taken
   out or put in.  Hashes are taken to be free of collisions. *)
THEOREM TamperEvident ==
    ASSUME NEW c \in Chain, NEW d \in Chain, Verify(c) = {}, Verify(d) = {},
           NEW m \in DOMAIN c.entries, NEW n \in DOMAIN d.entries,
           c.entries[m].hash = d.entries[n].hash
    PROVE  m = n /\ \A k \in 1 .. n : c.entries[k] = d.entries[k]
<1>1. /\ DOMAIN c.entries = 1 .. Len(c.entries) /\ Len(c.entries) \in Nat
      /\ DOMAIN d.entries = 1 .. Len(d.entries) /\ Len(d.entries) \in Nat
      /\ \A k \in DOMAIN c.entries : c.entries[k] \in Entry
      /\ \A k \in DOMAIN d.entries : d.entries[k] \in Entry
    BY DEF Chain
<1>2. Covers(c.entries[m].hash, c, m) /\ Covers(d.entries[n].hash, d, n)
    BY HashesCover
<1>3. m = n /\ \A k \in 1 .. n : ContentOf(c.entries[k]) = ContentOf(d.entries[k])
    BY <1>2 DEF Covers
<1>4. \A k \in 1 .. n : k \in DOMAIN c.entries /\ k \in DOMAIN d.entries
    BY <1>1, <1>3
<1>5. ASSUME NEW k \in 1 .. n PROVE c.entries[k].hash = d.entries[k].hash
    <2>1. Covers(c.entries[k].hash, c, k) /\ Covers(d.entries[k].hash, d, k)
        BY <1>4, HashesCover
    <2>2. \A j \in 1 .. k : ContentOf(c.entries[j]) = ContentOf(d.entries[j])
        BY <1>1, <1>3
    <2>3. c.entries[k].hash \in Seq(Content) /\ d.entries[k].hash \in Seq(Content)
        BY <1>1, <1>4 DEF Entry, Digest
    <2> QED
        BY <2>1, <2>2, <2>3 DEF Covers
<1>6. \A k \in 1 .. n : c.entries[k].prev = d.entries[k].prev
    <2>1. \A k \in 1 .. n : c.entries[k].prev = ExpectedPrev(c, k) /\ d.entries[k].prev = ExpectedPrev(d, k)
        BY <1>4 DEF Verify, BadLinks
    <2>2. \A k \in 1 .. n : k # 1 => k - 1 \in 1 .. n
        BY <1>1
    <2> QED
        BY <1>5, <2>1, <2>2 DEF ExpectedPrev
<1>7. ASSUME NEW k \in 1 .. n PROVE c.entries[k] = d.entries[k]
    <2>1. c.entries[k] \in Entry /\ d.entries[k] \in Entry
        BY <1>1, <1>4
    <2>2. ContentOf(c.entries[k]) = ContentOf(d.entries[k])
        BY <1>3
    <2> QED
        BY <1>5, <1>6, <2>1, <2>2 DEF Entry, ContentOf
<1> QED
    BY <1>3, <1>7
=============================================================================
