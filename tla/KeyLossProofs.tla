---------------------------- MODULE KeyLossProofs ----------------------------
(***************************************************************************)
(* What is stranded stays so, for every set of key names, passphrases,     *)
(* records and requests: a record whose token is of another key than its   *)
(* wrap, or whose key was reissued, is read with no key file, ever.  The   *)
(* key of a rotation is of no token, since nobody else comes to know it    *)
(* before it is published, and no key is generated twice.                  *)
(*                                                                         *)
(* And that KeyRotation implements Custody: every step is one that the     *)
(* promise allows, or stutters.                                            *)
(***************************************************************************)
EXTENDS KeyRotationProofs

-----------------------------------------------------------------------------
(* The invariant, beside KeyInv. *)

Split(row) == row.wrap # 0 /\ row.token # row.wrap
Lost(row)  == \/ Split(row)
              \/ row.wrap # 0 /\ row.label = Configured /\ files[Configured].key # row.wrap

Pending(j) == j.at \in {"selecting", "rewrapping"}

(* What a request has in hand that may become a token is not k. *)
UnseenBy(j, k) ==
    /\ j.row.token # k /\ j.row.wrap # k
    /\ j.eng.keys[j.eng.id] # k
    /\ j.at = "installing" => j.key # k
    /\ j.keys[j.id] # k
    /\ \A x \in Records : j.found[x].token # k
Unseen(k) ==
    /\ \A x \in Records : rows[x].token # k /\ draft[x].token # k
    /\ engine.keys[engine.id] # k
    /\ \A e \in escrow : e.key # k
    /\ \A r \in Requests : UnseenBy(job[r], k)
Unwrapped(k) == \A x \in Records : rows[x].wrap # k /\ draft[x].wrap # k

FilesDiffer ==
    /\ \A a, b \in KeyIds : a # b /\ files[a].key # 0 => files[a].key # files[b].key
    /\ active # Configured => files[active].key # 0
NextUnseen == \A n \in made + 1 .. MaxKeys : Unseen(n) /\ Unwrapped(n)
PendingUnseen ==
    /\ \A r \in Requests : Pending(job[r]) =>
          /\ job[r].id \notin {Configured, active}
          /\ files[job[r].id].key # 0
          /\ Unseen(files[job[r].id].key)
    /\ \A q, r \in Requests : Pending(job[q]) /\ Pending(job[r]) /\ q # r => job[q].id # job[r].id
DraftFollows ==
    /\ \A x \in Records : rows[x].wrap # 0 => draft[x] = rows[x] \/ Split(draft[x])
    /\ \A r \in Requests : Published(r) /\ writer = r =>
          \A x \in Kept(job[r].found) : Split(draft[x])
StrandedLost == \A x \in stranded : Lost(rows[x])

LossInv ==
    /\ FilesDiffer
    /\ NextUnseen
    /\ PendingUnseen
    /\ DraftFollows
    /\ StrandedLost

-----------------------------------------------------------------------------
(* Keys. *)

LEMMA FileKeys ==
    ASSUME Lawful
    PROVE  /\ made \in 0 .. MaxKeys /\ MaxKeys \in Nat /\ active \in KeyIds /\ Configured \in KeyIds
           /\ \A kid \in KeyIds : files[kid].key \in 0 .. made
    BY Types, KeyAssumption DEF Lawful, Key

(* A load with the right passphrase gives the key, with a wrong one none that
   was ever generated. *)
LEMMA OpenedIs ==
    ASSUME Lawful, NEW kid \in KeyIds, NEW p, Loadable(kid), NEW k \in 1 .. MaxKeys, k # files[kid].key
    PROVE  Opened(kid, p) # k
<1>1. files[kid].key \in 1 .. MaxKeys /\ MaxKeys \in Nat
    BY FileKeys DEF Loadable
<1>2. Garbled(files[kid].key) # k
    BY <1>1 DEF Garbled
<1> QED
    BY <1>2 DEF Opened

LEMMA NoJobUnseen ==
    ASSUME NEW k, k # 0
    PROVE  /\ UnseenBy(NoJob, k) /\ ~Pending(NoJob)
           /\ NoEngine.keys[NoEngine.id] # k /\ NoRow.token # k /\ NoRow.wrap # k
<1>1. /\ NoJob.row = NoRow /\ NoJob.eng = NoEngine /\ NoJob.at = "idle" /\ NoJob.keys = NoKeys
      /\ NoJob.id = Configured /\ NoJob.found = [x \in Records |-> NoRow]
    BY DEF NoJob
<1>2. /\ NoRow.token = 0 /\ NoRow.wrap = 0 /\ NoEngine.id = Configured /\ NoEngine.keys = NoKeys
      /\ NoKeys[Configured] = 0
    BY KeyAssumption DEF NoRow, NoEngine, NoKeys
<1> QED
    BY <1>1, <1>2 DEF UnseenBy, Pending

LEMMA UnseenNext ==
    ASSUME NEW k, Unseen(k),
           \A x \in Records : rows'[x].token # k /\ draft'[x].token # k,
           engine'.keys[engine'.id] # k,
           \A e \in escrow' : e.key # k,
           \A q \in Requests : job'[q] = job[q] \/ UnseenBy(job'[q], k)
    PROVE  Unseen(k)'
<1>1. \A q \in Requests : UnseenBy(job'[q], k)
    BY DEF Unseen
<1> QED
    BY <1>1 DEF Unseen, UnseenBy

(* A key of a rotation under way, and one that is not generated yet, is not the
   active one. *)
LEMMA FreshIsOther ==
    ASSUME KeyInv, LossInv
    PROVE  /\ \A n \in made + 1 .. MaxKeys : /\ n \in 1 .. MaxKeys /\ Unseen(n) /\ Unwrapped(n)
                                             /\ \A kid \in KeyIds : n # files[kid].key
           /\ \A r \in Requests : Pending(job[r]) =>
                 /\ job[r].id \in KeyIds \ {Configured, active}
                 /\ files[job[r].id].key \in 1 .. MaxKeys
                 /\ files[job[r].id].key <= made
                 /\ Unseen(files[job[r].id].key)
                 /\ \A kid \in KeyIds \ {job[r].id} : files[job[r].id].key # files[kid].key
<1>1. /\ made \in 0 .. MaxKeys /\ MaxKeys \in Nat
      /\ \A kid \in KeyIds : files[kid].key \in 0 .. made
      /\ job \in [Requests -> Job]
    BY FileKeys, Types DEF KeyInv, Lawful
<1>2. \A n \in made + 1 .. MaxKeys : n \in 1 .. MaxKeys /\ \A kid \in KeyIds : n # files[kid].key
    BY <1>1
<1>3. ASSUME NEW r \in Requests, Pending(job[r])
      PROVE  /\ job[r].id \in KeyIds \ {Configured, active}
             /\ files[job[r].id].key \in 1 .. MaxKeys
             /\ files[job[r].id].key <= made
             /\ Unseen(files[job[r].id].key)
             /\ \A kid \in KeyIds \ {job[r].id} : files[job[r].id].key # files[kid].key
  <2>1. job[r].id \in KeyIds
      BY <1>1 DEF Job
  <2>2. /\ job[r].id \notin {Configured, active} /\ files[job[r].id].key # 0
        /\ Unseen(files[job[r].id].key)
      BY <1>3 DEF LossInv, PendingUnseen
  <2>3. files[job[r].id].key \in 0 .. made
      BY <1>1, <2>1
  <2>4. \A kid \in KeyIds \ {job[r].id} : files[job[r].id].key # files[kid].key
      BY <2>1, <2>2 DEF LossInv, FilesDiffer
  <2> QED
      BY <1>1, <2>1, <2>2, <2>3, <2>4
<1> QED
    BY <1>2, <1>3 DEF LossInv, NextUnseen

-----------------------------------------------------------------------------
(* Steps that generate no key and write no row. *)

LEMMA LossQuiet ==
    ASSUME KeyInv, LossInv, NEW r \in Requests, NEW new \in Job, job' = [job EXCEPT ![r] = new],
           UNCHANGED <<files, made, escrow, active, engine, rows, draft, writer, stranded>>,
           \A k \in 1 .. MaxKeys : Unseen(k) /\ k # files[active].key => UnseenBy(new, k),
           Pending(new) => Pending(job[r]) /\ new.id = job[r].id,
           new.at \notin {"reloading", "committing"}
    PROVE  LossInv'
<1>1. /\ job \in [Requests -> Job] /\ job'[r] = new
      /\ \A q \in Requests \ {r} : job'[q] = job[q]
      /\ active \in KeyIds
    BY Types DEF KeyInv, Lawful
<1>2. ASSUME NEW k \in 1 .. MaxKeys, Unseen(k), k # files[active].key PROVE Unseen(k)'
  <2>1. \A q \in Requests : job'[q] = job[q] \/ UnseenBy(job'[q], k)
      BY <1>1, <1>2
  <2>2. /\ \A x \in Records : rows'[x].token # k /\ draft'[x].token # k
        /\ engine'.keys[engine'.id] # k /\ \A e \in escrow' : e.key # k
      BY <1>2 DEF Unseen
  <2> QED
      BY <1>2, <2>1, <2>2, UnseenNext
<1>3. FilesDiffer' /\ StrandedLost'
    BY DEF LossInv, FilesDiffer, StrandedLost, Lost
<1>4. NextUnseen'
  <2> SUFFICES ASSUME NEW n \in made + 1 .. MaxKeys PROVE Unseen(n)' /\ Unwrapped(n)'
      BY DEF NextUnseen
  <2>1. n \in 1 .. MaxKeys /\ Unseen(n) /\ Unwrapped(n) /\ n # files[active].key
      BY <1>1, FreshIsOther
  <2> QED
      BY <1>2, <2>1 DEF Unwrapped
<1>5. PendingUnseen'
  <2>1. ASSUME NEW q \in Requests, Pending(job'[q])
        PROVE  Pending(job[q]) /\ job'[q].id = job[q].id
      BY <1>1, <2>1
  <2>2. ASSUME NEW q \in Requests, Pending(job'[q])
        PROVE  /\ job'[q].id \notin {Configured, active} /\ files[job'[q].id].key # 0
               /\ Unseen(files[job[q].id].key)'
    <3>1. Pending(job[q]) /\ job'[q].id = job[q].id
        BY <2>1, <2>2
    <3>2. PICK k \in 1 .. MaxKeys : k = files[job[q].id].key /\ Unseen(k) /\ k # files[active].key
        BY <1>1, <3>1, FreshIsOther
    <3>3. Unseen(k)'
        BY <1>2, <3>2
    <3>4. k = (files[job[q].id].key)'
        BY <3>1, <3>2
    <3> QED
        BY <3>1, <3>2, <3>3, <3>4, FreshIsOther
  <2>3. \A p, q \in Requests : Pending(job'[p]) /\ Pending(job'[q]) /\ p # q => job'[p].id # job'[q].id
      BY <2>1 DEF LossInv, PendingUnseen
  <2> QED
      BY <2>2, <2>3 DEF PendingUnseen, Pending
<1>6. DraftFollows'
  <2>1. \A q \in Requests : Published(q)' => q # r /\ Published(q) /\ job'[q] = job[q]
      BY <1>1 DEF Published
  <2> QED
      BY <2>1 DEF LossInv, DraftFollows, Split, Kept
<1> QED
    BY <1>3, <1>4, <1>5, <1>6 DEF LossInv

LEMMA InstallingUnseen ==
    ASSUME NEW k \in Key
    PROVE  /\ [NoJob EXCEPT !.at = "installing", !.key = k] \in Job
           /\ [NoJob EXCEPT !.at = "installing", !.key = k].at = "installing"
           /\ \A n : n # 0 /\ n # k => UnseenBy([NoJob EXCEPT !.at = "installing", !.key = k], n)
<1> DEFINE j == [NoJob EXCEPT !.at = "installing", !.key = k]
<1>1. /\ j \in Job /\ j.at = "installing" /\ j.key = k /\ j.row = NoJob.row /\ j.eng = NoJob.eng
      /\ j.keys = NoJob.keys /\ j.id = NoJob.id /\ j.found = NoJob.found
    BY NoJobIsJob DEF Job, NoJob
<1> HIDE DEF j
<1>2. ASSUME NEW n, n # 0, n # k PROVE UnseenBy(j, n)
  <2>1. UnseenBy(NoJob, n)
      BY <1>2, NoJobUnseen
  <2> QED
      BY <1>1, <1>2, <2>1 DEF UnseenBy
<1> QED
    BY <1>1, <1>2 DEF j

(* A request that is to install a key known to somebody. *)
LEMMA LossInstalling ==
    ASSUME KeyInv, LossInv, NEW r \in Requests, NEW k \in Key,
           Begin(r, [NoJob EXCEPT !.at = "installing", !.key = k]),
           UNCHANGED <<disk, memory, tables, stranded>>,
           \A n \in 1 .. MaxKeys : Unseen(n) /\ n # files[active].key => n # k
    PROVE  LossInv'
<1> DEFINE new == [NoJob EXCEPT !.at = "installing", !.key = k]
<1>1. new \in Job /\ new.at = "installing"
    BY InstallingUnseen
<1>2. \A n \in 1 .. MaxKeys : Unseen(n) /\ n # files[active].key => UnseenBy(new, n)
  <2>1. \A n \in 1 .. MaxKeys : n # 0
      BY KeyAssumption
  <2>2. \A n : n # 0 /\ n # k => UnseenBy(new, n)
      BY InstallingUnseen
  <2> QED
      BY <2>1, <2>2
<1>3. job' = [job EXCEPT ![r] = new]
    BY DEF Begin
<1> HIDE DEF new
<1> QED
    BY <1>1, <1>2, <1>3, LossQuiet DEF disk, memory, tables, Pending

LEMMA LossUnlock == ASSUME KeyInv, LossInv, NEW r \in Requests, UnlockKey(r) PROVE LossInv'
<1>1. PICK p \in Passphrases :
         Begin(r, [NoJob EXCEPT !.at = "installing", !.key = Opened(active, p)])
    BY DEF UnlockKey
<1>2. Lawful /\ active \in KeyIds /\ Loadable(active)
    BY Types DEF KeyInv, Lawful, UnlockKey
<1>3. PICK k \in Key : k = Opened(active, p)
    BY <1>2, StoredIsKey
<1>4. \A n \in 1 .. MaxKeys : n # files[active].key => n # k
    BY <1>2, <1>3, OpenedIs
<1>5. UNCHANGED <<disk, memory, tables, stranded>>
    BY DEF UnlockKey
<1> QED
    BY <1>1, <1>3, <1>4, <1>5, LossInstalling

LEMMA LossUnseal == ASSUME KeyInv, LossInv, NEW r \in Requests, UnsealKey(r) PROVE LossInv'
<1>1. PICK e \in escrow : Begin(r, [NoJob EXCEPT !.at = "installing", !.key = e.key])
    BY DEF UnsealKey
<1>2. PICK k \in Key : k = e.key
    BY DEF KeyInv, Lawful, TypeOK
<1>3. \A n \in 1 .. MaxKeys : Unseen(n) => n # k
    BY <1>2 DEF Unseen
<1>4. UNCHANGED <<disk, memory, tables, stranded>>
    BY DEF UnsealKey
<1> QED
    BY <1>1, <1>2, <1>3, <1>4, LossInstalling

LEMMA LossCombine == ASSUME KeyInv, LossInv, NEW r \in Requests, CombineShares(r) PROVE LossInv'
<1>1. PICK e \in escrow : \E got \in {e.key, Wrong} :
         Begin(r, [NoJob EXCEPT !.at = "installing", !.key = got])
    BY DEF CombineShares
<1>2. PICK got \in {e.key, Wrong} : Begin(r, [NoJob EXCEPT !.at = "installing", !.key = got])
    BY <1>1
<1>3. got \in Key
    BY KeyFacts DEF KeyInv, Lawful, TypeOK
<1>4. \A n \in 1 .. MaxKeys : Unseen(n) => n # got
    BY KeyAssumption DEF Unseen, Wrong
<1>5. UNCHANGED <<disk, memory, tables, stranded>>
    BY DEF CombineShares
<1> QED
    BY <1>2, <1>3, <1>4, <1>5, LossInstalling

LEMMA LossStartPut == ASSUME KeyInv, LossInv, NEW r \in Requests, StartPut(r) PROVE LossInv'
<1>1. Lawful /\ engine \in Engine
    BY Types DEF KeyInv, Lawful
<1> DEFINE new == [NoJob EXCEPT !.at = "checked", !.eng = engine]
<1>2. /\ new \in Job /\ new.at = "checked" /\ new.eng = engine /\ new.row = NoJob.row
      /\ new.keys = NoJob.keys /\ new.id = NoJob.id /\ new.found = NoJob.found
    BY <1>1, NoJobIsJob DEF Job, Put, NoJob
<1>3. \A n \in 1 .. MaxKeys : Unseen(n) => UnseenBy(new, n)
  <2> SUFFICES ASSUME NEW n \in 1 .. MaxKeys, Unseen(n) PROVE UnseenBy(new, n)
      OBVIOUS
  <2>1. UnseenBy(NoJob, n)
      BY NoJobUnseen
  <2> QED
      BY <1>2, <2>1 DEF UnseenBy, Unseen
<1>4. job' = [job EXCEPT ![r] = new] /\ UNCHANGED <<disk, memory, tables, stranded>>
    BY DEF StartPut, Begin
<1> HIDE DEF new
<1> QED
    BY <1>2, <1>3, <1>4, LossQuiet DEF disk, memory, tables, Pending

LEMMA LossSeal == ASSUME KeyInv, LossInv, NEW r \in Requests, SealRecord(r) PROVE LossInv'
<1>1. Lawful /\ active \in KeyIds /\ job \in [Requests -> Job]
    BY Types DEF KeyInv, Lawful
<1>2. PICK old \in Job : old = job[r] /\ old.at = "checked"
    BY <1>1 DEF SealRecord
<1>3. old.eng.id \in KeyIds /\ old.eng.keys[old.eng.id] \in Key
    BY DEF Job, Engine, KeySet
<1> DEFINE row == Sealed(old.eng)
           new == [NoJob EXCEPT !.at = "sealed", !.row = row]
<1>4. row \in Row /\ row.wrap = old.eng.keys[old.eng.id] /\ row.token = old.eng.keys[old.eng.id]
    BY <1>1, <1>3 DEF Sealed, Row
<1> HIDE DEF row
<1>5. /\ new \in Job /\ new.at = "sealed" /\ new.row = row /\ new.eng = NoJob.eng
      /\ new.keys = NoJob.keys /\ new.id = NoJob.id /\ new.found = NoJob.found
    BY <1>4, NoJobIsJob DEF Job, Put, NoJob
<1>6. \A n \in 1 .. MaxKeys : Unseen(n) => UnseenBy(new, n)
  <2> SUFFICES ASSUME NEW n \in 1 .. MaxKeys, Unseen(n) PROVE UnseenBy(new, n)
      OBVIOUS
  <2>1. UnseenBy(NoJob, n)
      BY NoJobUnseen
  <2>2. row.wrap # n /\ row.token # n
      BY <1>2, <1>4 DEF UnseenBy, Unseen
  <2> QED
      BY <1>5, <2>1, <2>2 DEF UnseenBy
<1>7. job' = [job EXCEPT ![r] = new] /\ UNCHANGED <<disk, memory, tables, stranded>>
    BY <1>2 DEF SealRecord, Carry, past, row
<1> HIDE DEF new
<1> QED
    BY <1>5, <1>6, <1>7, LossQuiet DEF disk, memory, tables, Pending

LEMMA LossSelect == ASSUME KeyInv, LossInv, NEW r \in Requests, SelectRows(r) PROVE LossInv'
<1>1. Lawful /\ rows \in [Records -> Row] /\ job \in [Requests -> Job]
    BY Types DEF KeyInv, Lawful
<1>2. PICK old \in Job : old = job[r] /\ old.at = "selecting"
    BY <1>1 DEF SelectRows
<1> DEFINE new == [old EXCEPT !.at = "rewrapping", !.key = 0, !.found = rows]
<1>3. /\ new \in Job /\ new.at = "rewrapping" /\ new.found = rows /\ new.eng = old.eng
      /\ new.row = old.row /\ new.keys = old.keys /\ new.id = old.id
    BY <1>1, KeyFacts DEF Job, Rotate
<1>4. \A n \in 1 .. MaxKeys : Unseen(n) => UnseenBy(new, n)
    BY <1>2, <1>3 DEF UnseenBy, Unseen
<1>5. job' = [job EXCEPT ![r] = new] /\ UNCHANGED <<disk, memory, tables, stranded>>
    BY <1>2 DEF SelectRows, Carry, past
<1> HIDE DEF new
<1> QED
    BY <1>2, <1>3, <1>4, <1>5, LossQuiet DEF disk, memory, tables, Pending

LEMMA LossSelectFails == ASSUME KeyInv, LossInv, NEW r \in Requests, SelectFails(r) PROVE LossInv'
<1>1. \A n \in 1 .. MaxKeys : UnseenBy(NoJob, n)
    BY NoJobUnseen
<1>2. job' = [job EXCEPT ![r] = NoJob] /\ UNCHANGED <<disk, memory, tables, stranded>>
    BY DEF SelectFails, Carry, past
<1>3. NoJob \in Job /\ NoJob.at = "idle" /\ ~Pending(NoJob)
    BY NoJobIsJob DEF Pending
<1> QED
    BY <1>1, <1>2, <1>3, LossQuiet DEF disk, memory, tables

-----------------------------------------------------------------------------
(* Keys that are kept away, and files that change. *)

LEMMA LossKept ==
    ASSUME KeyInv, LossInv, NEW how, Keep([how |-> how, key |-> files[active].key]),
           UNCHANGED <<files, sched, made, memory, tables, job, past>>
    PROVE  LossInv'
<1>1. active \in KeyIds
    BY Types DEF KeyInv, Lawful
<1>2. /\ escrow' = escrow \cup {[how |-> how, key |-> files[active].key]}
      /\ UNCHANGED <<files, made, active, engine, rows, draft, writer, job, stranded>>
    BY DEF Keep, memory, tables, past
<1>3. ASSUME NEW k \in 1 .. MaxKeys, Unseen(k), k # files[active].key PROVE Unseen(k)'
  <2>1. \A e \in escrow' : e.key # k
      BY <1>2, <1>3 DEF Unseen
  <2> QED
      BY <1>2, <1>3, <2>1, UnseenNext DEF Unseen
<1>4. NextUnseen'
    BY <1>1, <1>2, <1>3, FreshIsOther DEF NextUnseen, Unwrapped
<1>5. PendingUnseen'
  <2>1. ASSUME NEW r \in Requests, Pending(job[r]) PROVE Unseen(files[job[r].id].key)'
    <3>1. PICK k \in 1 .. MaxKeys : k = files[job[r].id].key /\ Unseen(k) /\ k # files[active].key
        BY <1>1, <2>1, FreshIsOther
    <3>2. Unseen(k)' /\ k = (files[job[r].id].key)'
        BY <1>2, <1>3, <3>1
    <3> QED
        BY <3>2
  <2> QED
      BY <1>2, <2>1 DEF LossInv, PendingUnseen, Pending
<1>6. (FilesDiffer /\ DraftFollows /\ StrandedLost)'
    BY <1>2 DEF LossInv, FilesDiffer, DraftFollows, StrandedLost, Lost, Split, Published, Kept
<1> QED
    BY <1>4, <1>5, <1>6 DEF LossInv

LEMMA LossSealKey == ASSUME KeyInv, LossInv, SealKey PROVE LossInv'
<1>1. Keep([how |-> "sealed", key |-> files[active].key])
    BY DEF SealKey, Seals
<1> QED
    BY <1>1, LossKept DEF SealKey

LEMMA LossSplitKey == ASSUME KeyInv, LossInv, SplitKey PROVE LossInv'
    BY LossKept DEF SplitKey

LEMMA LossScheduler ==
    ASSUME LossInv, UNCHANGED <<files, made, escrow, memory, tables, job, past>>
    PROVE  LossInv'
    BY DEF LossInv, FilesDiffer, NextUnseen, PendingUnseen, DraftFollows, StrandedLost, Lost, Split,
           Unseen, UnseenBy, Unwrapped, Pending, Published, Kept, memory, tables, past
-----------------------------------------------------------------------------
(* Files that change. *)

LEMMA CreatedFiles ==
    ASSUME KeyInv, LossInv, NEW kid \in KeyIds, NEW p \in Passphrases, NEW whole \in BOOLEAN,
           Create(kid, p, whole)
    PROVE  /\ made' = made + 1 /\ made + 1 \in 1 .. MaxKeys /\ made + 1 \in made + 1 .. MaxKeys
           /\ \A n \in made' + 1 .. MaxKeys : n \in made + 1 .. MaxKeys /\ n # made + 1
           /\ files[kid].key = 0 /\ files'[kid].key = made + 1
           /\ \A b \in KeyIds \ {kid} : files'[b] = files[b]
           /\ \A a, b \in KeyIds : a # b /\ files'[a].key # 0 => files'[a].key # files'[b].key
           /\ \A q \in Requests : Pending(job[q]) => job[q].id # kid
           /\ \A x \in Records : Lost(rows[x]) /\ rows' = rows => Lost(rows[x])'
<1>1. /\ made' = made + 1 /\ made < MaxKeys /\ files[kid].key = 0
      /\ files'[kid].key = made + 1
      /\ files' = [files EXCEPT ![kid] = [key |-> made + 1, pass |-> p, salt |-> whole]]
    BY Created DEF KeyInv, Create, MayCreate
<1>2. /\ made \in Nat /\ MaxKeys \in Nat /\ files \in [KeyIds -> File]
      /\ \A a \in KeyIds : files[a].key \in 0 .. made
    BY FileKeys, Types DEF KeyInv, Lawful
<1>3. \A b \in KeyIds \ {kid} : files'[b] = files[b]
    BY <1>1, <1>2
<1>4. /\ made + 1 \in 1 .. MaxKeys /\ made + 1 \in made + 1 .. MaxKeys
      /\ \A n \in made' + 1 .. MaxKeys : n \in made + 1 .. MaxKeys /\ n # made + 1
    BY <1>1, <1>2
<1>5. ASSUME NEW a \in KeyIds, NEW b \in KeyIds, a # b, files'[a].key # 0
      PROVE  files'[a].key # files'[b].key
  <2>1. CASE a = kid
      BY <1>1, <1>2, <1>3, <1>5, <2>1
  <2>2. CASE b = kid
      BY <1>1, <1>2, <1>3, <1>5, <2>2
  <2>3. CASE a # kid /\ b # kid
      BY <1>3, <1>5, <2>3 DEF LossInv, FilesDiffer
  <2> QED
      BY <2>1, <2>2, <2>3
<1>6. \A q \in Requests : Pending(job[q]) => job[q].id # kid
    BY <1>1 DEF LossInv, PendingUnseen
<1>7. ASSUME NEW x \in Records, Lost(rows[x]), rows' = rows PROVE Lost(rows[x])'
  <2>1. rows[x].wrap # made + 1
      BY <1>4 DEF LossInv, NextUnseen, Unwrapped
  <2>2. CASE kid = Configured
      BY <1>1, <1>7, <2>1, <2>2 DEF Lost, Split
  <2>3. CASE kid # Configured
      BY <1>3, <1>7, <2>3, KeyAssumption DEF Lost, Split
  <2> QED
      BY <2>2, <2>3
<1> QED
    BY <1>1, <1>3, <1>4, <1>5, <1>6, <1>7

(* A key is created, by request r or, when r is none, by a command. *)
LEMMA LossCreate ==
    ASSUME KeyInv, LossInv, NEW kid \in KeyIds, NEW p \in Passphrases, NEW whole \in BOOLEAN,
           Create(kid, p, whole), NEW r,
           UNCHANGED <<escrow, active, engine, rows, draft, writer, stranded>>,
           \A q \in Requests \ {r} : job'[q] = job[q],
           r \in Requests =>
               /\ \A n \in 1 .. MaxKeys : n # made + 1 => UnseenBy(job'[r], n)
               /\ job'[r].at \notin {"reloading", "committing"}
               /\ Pending(job'[r]) => /\ job'[r].id = kid /\ kid \notin {Configured, active}
                                      /\ UnseenBy(job'[r], made + 1)
    PROVE  LossInv'
<1>1. /\ made' = made + 1 /\ made + 1 \in 1 .. MaxKeys /\ made + 1 \in made + 1 .. MaxKeys
      /\ \A n \in made' + 1 .. MaxKeys : n \in made + 1 .. MaxKeys /\ n # made + 1
      /\ files[kid].key = 0 /\ files'[kid].key = made + 1 /\ made + 1 # 0
      /\ \A b \in KeyIds \ {kid} : files'[b] = files[b]
      /\ \A q \in Requests : Pending(job[q]) => job[q].id # kid
    BY CreatedFiles, Types DEF KeyInv, Lawful
<1>2. ASSUME NEW k \in 1 .. MaxKeys, Unseen(k), r \in Requests => UnseenBy(job'[r], k)
      PROVE  Unseen(k)'
  <2>1. \A q \in Requests : job'[q] = job[q] \/ UnseenBy(job'[q], k)
      BY <1>2
  <2>2. /\ \A x \in Records : rows'[x].token # k /\ draft'[x].token # k
        /\ engine'.keys[engine'.id] # k /\ \A e \in escrow' : e.key # k
      BY <1>2 DEF Unseen
  <2> QED
      BY <1>2, <2>1, <2>2, UnseenNext
<1>3. FilesDiffer'
  <2>1. \A a, b \in KeyIds : a # b /\ files'[a].key # 0 => files'[a].key # files'[b].key
      BY CreatedFiles
  <2>2. active' # Configured => files'[active'].key # 0
      BY <1>1, Types DEF LossInv, FilesDiffer, KeyInv, Lawful
  <2> QED
      BY <2>1, <2>2 DEF FilesDiffer
<1>4. NextUnseen'
  <2> SUFFICES ASSUME NEW n \in made' + 1 .. MaxKeys PROVE Unseen(n)' /\ Unwrapped(n)'
      BY DEF NextUnseen
  <2>1. n \in 1 .. MaxKeys /\ Unseen(n) /\ Unwrapped(n) /\ n # made + 1
      BY <1>1, FreshIsOther
  <2> QED
      BY <1>2, <2>1 DEF Unwrapped
<1>5. PendingUnseen'
  <2>1. ASSUME NEW q \in Requests, Pending(job'[q]), q # r
        PROVE  /\ job'[q] = job[q] /\ job[q].id \in KeyIds \ {Configured, active, kid}
               /\ files'[job[q].id].key # 0 /\ Unseen(files[job[q].id].key)'
    <3>1. job'[q] = job[q] /\ Pending(job[q])
        BY <2>1
    <3>2. PICK k \in 1 .. MaxKeys : k = files[job[q].id].key /\ Unseen(k) /\ k <= made
        BY <3>1, FreshIsOther
    <3>3. k # made + 1 /\ k # 0
        BY <3>2, FileKeys DEF KeyInv
    <3>4. Unseen(k)'
        BY <1>2, <3>2, <3>3
    <3>5. job[q].id \in KeyIds \ {Configured, active, kid}
        BY <1>1, <3>1, FreshIsOther
    <3>6. k = (files[job[q].id].key)'
        BY <1>1, <3>1, <3>2, <3>5
    <3> QED
        BY <3>1, <3>3, <3>4, <3>5, <3>6
  <2>2. ASSUME r \in Requests, Pending(job'[r])
        PROVE  /\ job'[r].id = kid /\ kid \notin {Configured, active}
               /\ files'[job'[r].id].key # 0 /\ Unseen(files[job[r].id].key)'
    <3>1. job'[r].id = kid /\ kid \notin {Configured, active} /\ UnseenBy(job'[r], made + 1)
        BY <2>2
    <3>2. PICK k \in 1 .. MaxKeys : k = made + 1 /\ Unseen(k)
        BY <1>1, FreshIsOther
    <3>3. Unseen(k)'
        BY <1>2, <3>1, <3>2
    <3>4. k = (files[job[r].id].key)'
        BY <1>1, <3>1, <3>2
    <3> QED
        BY <1>1, <3>1, <3>3, <3>4
  <2>3. \A q \in Requests : Pending(job'[q]) =>
            job'[q].id \notin {Configured, active'} /\ files'[job'[q].id].key # 0
            /\ Unseen(files[job[q].id].key)'
      BY <2>1, <2>2
  <2>4. \A a, b \in Requests : Pending(job'[a]) /\ Pending(job'[b]) /\ a # b => job'[a].id # job'[b].id
      BY <2>1, <2>2 DEF LossInv, PendingUnseen
  <2> QED
      BY <2>3, <2>4 DEF PendingUnseen, Pending
<1>6. DraftFollows'
  <2>1. \A q \in Requests : Published(q)' => q # r /\ Published(q) /\ job'[q] = job[q]
      BY DEF Published
  <2> QED
      BY <2>1 DEF LossInv, DraftFollows, Split, Kept
<1>7. StrandedLost'
  <2> SUFFICES ASSUME NEW x \in stranded PROVE Lost(rows[x])'
      BY DEF StrandedLost
  <2>1. x \in Records /\ Lost(rows[x])
      BY DEF KeyInv, Lawful, TypeOK, LossInv, StrandedLost
  <2> QED
      BY <2>1, CreatedFiles
<1> QED
    BY <1>3, <1>4, <1>5, <1>6, <1>7 DEF LossInv

LEMMA LossCliCreate == ASSUME KeyInv, LossInv, CliCreate PROVE LossInv'
<1>1. PICK p \in Passphrases, whole \in BOOLEAN : Create(Configured, p, whole)
    BY DEF CliCreate
<1>2. UNCHANGED <<escrow, active, engine, rows, draft, writer, stranded, job>>
    BY DEF CliCreate, memory, tables, past
<1>3. NoRequest \notin Requests /\ Configured \in KeyIds
    BY KeyAssumption
<1> QED
    BY <1>1, <1>2, <1>3, LossCreate

LEMMA LossSetup == ASSUME KeyInv, LossInv, NEW r \in Requests, SetupKey(r) PROVE LossInv'
<1>1. PICK p \in Passphrases : Create(active, p, TRUE)
    BY DEF SetupKey
<1>2. /\ job \in [Requests -> Job] /\ active \in KeyIds /\ made + 1 \in Key
    BY <1>1, Created, Types DEF KeyInv, Lawful
<1> DEFINE new == [NoJob EXCEPT !.at = "installing", !.key = made + 1]
<1>3. /\ new.at = "installing" /\ \A n : n # 0 /\ n # made + 1 => UnseenBy(new, n)
    BY <1>2, InstallingUnseen
<1>4. job' = [job EXCEPT ![r] = new]
    BY DEF SetupKey, Begin
<1> HIDE DEF new
<1>5. /\ job'[r] = new /\ \A q \in Requests \ {r} : job'[q] = job[q]
    BY <1>2, <1>4
<1>6. UNCHANGED <<escrow, active, engine, rows, draft, writer, stranded>>
    BY DEF SetupKey, memory, tables
<1>7. \A n \in 1 .. MaxKeys : n # 0
    BY FileKeys DEF KeyInv
<1> QED
    BY <1>1, <1>2, <1>3, <1>5, <1>6, <1>7, LossCreate DEF Pending

LEMMA LossStartRotation == ASSUME KeyInv, LossInv, NEW r \in Requests, StartRotation(r) PROVE LossInv'
<1>1. PICK p \in Passphrases, kid \in KeyIds \ {Configured} :
         /\ Create(kid, p, TRUE)
         /\ Begin(r, [NoJob EXCEPT !.at = "selecting", !.id = kid, !.pass = p,
                                   !.key = Opened(State.current, p), !.auto = State.auto])
    BY DEF StartRotation
<1> DEFINE new == [NoJob EXCEPT !.at = "selecting", !.id = kid, !.pass = p,
                                !.key = Opened(State.current, p), !.auto = State.auto]
<1>2. job \in [Requests -> Job] /\ active \in KeyIds /\ kid \in KeyIds
    BY Types DEF KeyInv, Lawful
<1>3. /\ new.at = "selecting" /\ new.id = kid /\ new.row = NoJob.row /\ new.eng = NoJob.eng
      /\ new.keys = NoKeys /\ new.found = NoJob.found
    BY DEF NoJob
<1>4. job' = [job EXCEPT ![r] = new]
    BY <1>1 DEF Begin
<1> HIDE DEF new
<1>5. /\ job'[r] = new /\ \A q \in Requests \ {r} : job'[q] = job[q]
    BY <1>2, <1>4
<1>6. UNCHANGED <<escrow, active, engine, rows, draft, writer, stranded>>
    BY DEF StartRotation, memory, tables
<1>7. ASSUME NEW n \in 1 .. MaxKeys PROVE UnseenBy(new, n)
  <2>1. n # 0 /\ NoKeys[kid] = 0
      BY <1>2, FileKeys DEF KeyInv, NoKeys
  <2>2. UnseenBy(NoJob, n)
      BY <2>1, NoJobUnseen
  <2> QED
      BY <1>3, <2>1, <2>2 DEF UnseenBy
<1>8. kid # active /\ made + 1 \in 1 .. MaxKeys
  <2>1. files[kid].key = 0 /\ made + 1 \in 1 .. MaxKeys
      BY <1>1, <1>2, CreatedFiles
  <2> QED
      BY <1>1, <2>1 DEF LossInv, FilesDiffer
<1> QED
    BY <1>1, <1>2, <1>3, <1>5, <1>6, <1>7, <1>8, LossCreate
LEMMA LossReissue == ASSUME KeyInv, LossInv, RotatePassphrase PROVE LossInv'
<1>1. /\ made \in Nat /\ MaxKeys \in Nat /\ files \in [KeyIds -> File] /\ Configured \in KeyIds
      /\ active \in KeyIds /\ \A a \in KeyIds : files[a].key \in 0 .. made
    BY FileKeys, Types DEF KeyInv, Lawful
<1>2. UNCHANGED <<escrow, active, engine, rows, draft, writer, job>>
      /\ stranded' = stranded \cup {x \in Records : rows[x].wrap # 0 /\ rows[x].label = Configured}
    BY DEF RotatePassphrase, memory, tables
<1>3. /\ \A b \in KeyIds \ {Configured} : files'[b] = files[b]
      /\ \/ files'[Configured].key = 0 /\ made' = made
         \/ /\ files'[Configured].key = made + 1 /\ made' = made + 1
            /\ made + 1 \in made + 1 .. MaxKeys
  <2>1. PICK p \in Passphrases, outcome \in Outcomes : Reissue(p, outcome)
      BY DEF RotatePassphrase
  <2>2. CASE outcome = "gone"
    <3>1. files' = [files EXCEPT ![Configured] = Absent] /\ made' = made /\ Absent.key = 0
        BY <2>1, <2>2 DEF Reissue, Absent
    <3> QED
        BY <1>1, <3>1
  <2>3. CASE outcome # "gone"
    <3>1. /\ made < MaxKeys /\ made' = made + 1
          /\ files' = [files EXCEPT ![Configured] =
                           [key |-> made + 1, pass |-> p, salt |-> outcome = "whole"]]
        BY <2>1, <2>3 DEF Reissue
    <3> QED
        BY <1>1, <3>1
  <2> QED
      BY <2>2, <2>3
<1>4. ASSUME NEW k, Unseen(k) PROVE Unseen(k)'
    BY <1>2, <1>4 DEF Unseen, UnseenBy
<1>5. FilesDiffer'
  <2>1. ASSUME NEW a \in KeyIds, NEW b \in KeyIds, a # b, files'[a].key # 0
        PROVE  files'[a].key # files'[b].key
    <3>1. CASE a = Configured
        BY <1>1, <1>3, <2>1, <3>1
    <3>2. CASE b = Configured
        BY <1>1, <1>3, <2>1, <3>2
    <3>3. CASE a # Configured /\ b # Configured
        BY <1>3, <2>1, <3>3 DEF LossInv, FilesDiffer
    <3> QED
        BY <3>1, <3>2, <3>3
  <2>2. active' # Configured => files'[active'].key # 0
      BY <1>1, <1>2, <1>3 DEF LossInv, FilesDiffer
  <2> QED
      BY <2>1, <2>2 DEF FilesDiffer
<1>6. NextUnseen'
  <2> SUFFICES ASSUME NEW n \in made' + 1 .. MaxKeys PROVE Unseen(n)' /\ Unwrapped(n)'
      BY DEF NextUnseen
  <2>1. n \in made + 1 .. MaxKeys
      BY <1>1, <1>3
  <2> QED
      BY <1>2, <1>4, <2>1 DEF LossInv, NextUnseen, Unwrapped
<1>7. PendingUnseen'
  <2>1. ASSUME NEW q \in Requests, Pending(job[q])
        PROVE  /\ job[q].id \notin {Configured, active'} /\ files'[job[q].id].key # 0
               /\ Unseen(files[job[q].id].key)'
    <3>1. job[q].id \in KeyIds \ {Configured, active}
        BY <2>1, FreshIsOther
    <3>2. PICK k \in 1 .. MaxKeys : k = files[job[q].id].key /\ Unseen(k)
        BY <2>1, FreshIsOther
    <3>3. k = (files[job[q].id].key)' /\ Unseen(k)' /\ k # 0
        BY <1>1, <1>2, <1>3, <1>4, <3>1, <3>2
    <3> QED
        BY <1>2, <3>1, <3>3
  <2> QED
      BY <1>2, <2>1 DEF LossInv, PendingUnseen, Pending
<1>8. DraftFollows'
    BY <1>2 DEF LossInv, DraftFollows, Split, Published, Kept
<1>9. StrandedLost'
  <2> SUFFICES ASSUME NEW x \in stranded' PROVE Lost(rows[x])'
      BY DEF StrandedLost
  <2>1. x \in Records /\ rows[x].wrap # 0
      BY <1>2 DEF KeyInv, Lawful, TypeOK, LossInv, StrandedLost, Lost, Split
  <2>2. CASE rows[x].label = Configured
    <3>1. files'[Configured].key # rows[x].wrap
        BY <1>3, <2>1 DEF LossInv, NextUnseen, Unwrapped
    <3> QED
        BY <1>2, <2>1, <2>2, <3>1 DEF Lost
  <2>3. CASE rows[x].label # Configured
    <3>1. Lost(rows[x])
        BY <1>2, <2>3 DEF LossInv, StrandedLost
    <3> QED
        BY <1>2, <2>3, <3>1 DEF Lost, Split
  <2> QED
      BY <2>2, <2>3
<1> QED
    BY <1>5, <1>6, <1>7, <1>8, <1>9 DEF LossInv

LEMMA LossCrash == ASSUME KeyInv, LossInv, Crash PROVE LossInv'
<1>1. /\ active' = Configured /\ engine' = NoEngine /\ writer' = NoRequest
      /\ draft' = rows /\ rows' = rows /\ stranded' = stranded
      /\ job' = [r \in Requests |-> NoJob] /\ escrow' \subseteq escrow
    BY DEF Crash, Openable
<1>2. \A q \in Requests : job'[q] = NoJob /\ ~Pending(NoJob) /\ ~Published(q)'
  <2>1. NoJob.at = "idle"
      BY NoJobIsJob
  <2> QED
      BY <1>1, <2>1 DEF Pending, Published
<1>3. ASSUME NEW k, k # 0, Unseen(k) PROVE Unseen(k)'
    BY <1>1, <1>2, <1>3, NoJobUnseen DEF Unseen
<1>4. /\ \A n \in made' + 1 .. MaxKeys : n \in made + 1 .. MaxKeys
      /\ \A a, b \in KeyIds : a # b /\ files'[a].key # 0 => files'[a].key # files'[b].key
      /\ \A x \in Records : Lost(rows[x]) => Lost(rows[x])'
  <2>1. CASE UNCHANGED <<files, made>>
      BY <1>1, <2>1 DEF LossInv, FilesDiffer, Lost, Split
  <2>2. CASE \E kid \in KeyIds \ {Configured}, p \in Passphrases : Create(kid, p, FALSE)
      BY <1>1, <2>2, CreatedFiles
  <2> QED
      BY <2>1, <2>2 DEF Crash
<1>5. FilesDiffer'
    BY <1>1, <1>4 DEF FilesDiffer
<1>6. NextUnseen'
  <2> SUFFICES ASSUME NEW n \in made' + 1 .. MaxKeys PROVE Unseen(n)' /\ Unwrapped(n)'
      BY DEF NextUnseen
  <2>1. n \in 1 .. MaxKeys /\ n # 0 /\ Unseen(n) /\ Unwrapped(n)
    <3>1. n \in made + 1 .. MaxKeys
        BY <1>4
    <3>2. \A m \in 1 .. MaxKeys : m # 0
        BY FileKeys DEF KeyInv
    <3> QED
        BY <3>1, <3>2, FreshIsOther
  <2> QED
      BY <1>1, <1>3, <2>1 DEF Unwrapped
<1>7. PendingUnseen'
    BY <1>2 DEF PendingUnseen, Pending
<1>8. DraftFollows'
    BY <1>1, <1>2 DEF DraftFollows
<1>9. StrandedLost'
    BY <1>1, <1>4 DEF StrandedLost, LossInv, KeyInv, Lawful, TypeOK
<1> QED
    BY <1>5, <1>6, <1>7, <1>8, <1>9 DEF LossInv

-----------------------------------------------------------------------------
(* Rows that are written, and engines that are installed. *)

LEMMA LossWrites ==
    ASSUME KeyInv, LossInv, NEW r \in Requests,
           UNCHANGED <<files, made, escrow>>,
           \A q \in Requests \ {r} : job'[q] = job[q],
           ~Pending(job'[r]),
           active' = active \/ (Pending(job[r]) /\ active' = job[r].id),
           \A k \in 1 .. MaxKeys :
               Unseen(k) /\ (Pending(job[r]) => k # files[job[r].id].key) =>
                   /\ \A x \in Records : rows'[x].token # k /\ draft'[x].token # k
                   /\ engine'.keys[engine'.id] # k
                   /\ UnseenBy(job'[r], k),
           \A n \in made + 1 .. MaxKeys : Unwrapped(n)',
           DraftFollows', StrandedLost'
    PROVE  LossInv'
<1>1. ASSUME NEW k \in 1 .. MaxKeys, Unseen(k), Pending(job[r]) => k # files[job[r].id].key
      PROVE  Unseen(k)'
  <2>1. /\ \A x \in Records : rows'[x].token # k /\ draft'[x].token # k
        /\ engine'.keys[engine'.id] # k /\ UnseenBy(job'[r], k)
      BY <1>1
  <2>2. \A q \in Requests : job'[q] = job[q] \/ UnseenBy(job'[q], k)
      BY <2>1
  <2>3. \A e \in escrow' : e.key # k
      BY <1>1 DEF Unseen
  <2> QED
      BY <1>1, <2>1, <2>2, <2>3, UnseenNext
<1>2. FilesDiffer'
  <2>1. active' # Configured => files'[active'].key # 0
      BY DEF LossInv, FilesDiffer, PendingUnseen
  <2> QED
      BY <2>1 DEF LossInv, FilesDiffer
<1>3. NextUnseen'
  <2> SUFFICES ASSUME NEW n \in made + 1 .. MaxKeys PROVE Unseen(n)' /\ Unwrapped(n)'
      BY DEF NextUnseen
  <2>1. n \in 1 .. MaxKeys /\ Unseen(n) /\ (Pending(job[r]) => n # files[job[r].id].key)
      BY FreshIsOther
  <2> QED
      BY <1>1, <2>1
<1>4. PendingUnseen'
  <2>1. ASSUME NEW q \in Requests, Pending(job'[q])
        PROVE  /\ q # r /\ job'[q] = job[q] /\ job[q].id \notin {Configured, active'}
               /\ files'[job[q].id].key # 0 /\ Unseen(files[job[q].id].key)'
    <3>1. q # r /\ job'[q] = job[q] /\ Pending(job[q])
        BY <2>1
    <3>2. Pending(job[r]) => job[q].id # job[r].id
        BY <3>1 DEF LossInv, PendingUnseen
    <3>3. PICK k \in 1 .. MaxKeys : k = files[job[q].id].key /\ Unseen(k)
                                    /\ (Pending(job[r]) => k # files[job[r].id].key)
        BY <3>1, <3>2, FreshIsOther
    <3>4. Unseen(k)' /\ k = (files[job[q].id].key)'
        BY <1>1, <3>1, <3>3
    <3>5. job[q].id \notin {Configured, active} /\ files[job[q].id].key # 0
        BY <3>1 DEF LossInv, PendingUnseen
    <3> QED
        BY <3>1, <3>2, <3>4, <3>5
  <2> QED
      BY <2>1 DEF LossInv, PendingUnseen, Pending
<1> QED
    BY <1>2, <1>3, <1>4 DEF LossInv

(* The request that ends has nothing in hand. *)
LEMMA Ended ==
    ASSUME KeyInv, NEW r \in Requests, job' = [job EXCEPT ![r] = NoJob]
    PROVE  /\ \A q \in Requests \ {r} : job'[q] = job[q]
           /\ ~Pending(job'[r]) /\ ~Published(r)'
           /\ \A k \in 1 .. MaxKeys : k # 0 /\ UnseenBy(job'[r], k)
<1>1. job' = [job EXCEPT ![r] = NoJob] /\ job \in [Requests -> Job] /\ NoJob.at = "idle"
    BY NoJobIsJob, Types DEF KeyInv, Lawful
<1>2. job'[r] = NoJob /\ \A q \in Requests \ {r} : job'[q] = job[q]
    BY <1>1
<1>3. \A k \in 1 .. MaxKeys : k # 0 /\ UnseenBy(NoJob, k)
    BY NoJobUnseen, KeyAssumption
<1> QED
    BY <1>1, <1>2, <1>3 DEF Pending, Published

LEMMA LossInstall == ASSUME KeyInv, LossInv, NEW r \in Requests, Install(r) PROVE LossInv'
<1>1. job[r].at = "installing" /\ ~Pending(job[r]) /\ ~Published(r) /\ active \in KeyIds
    BY Types DEF Install, Pending, Published, KeyInv, Lawful
<1>2. /\ job' = [job EXCEPT ![r] = NoJob]
      /\ engine' = [id |-> active, keys |-> [NoKeys EXCEPT ![active] = job[r].key]]
      /\ UNCHANGED <<files, made, escrow, active, rows, draft, writer, stranded>>
    BY DEF Install, Carry, disk, tables
<1>3. engine'.keys[engine'.id] = job[r].key
  <2>1. engine'.id = active /\ engine'.keys = [NoKeys EXCEPT ![active] = job[r].key]
      BY <1>2
  <2> QED
      BY <1>1, <2>1 DEF NoKeys
<1>4. /\ \A q \in Requests \ {r} : job'[q] = job[q]
      /\ ~Pending(job'[r]) /\ ~Published(r)' /\ \A k \in 1 .. MaxKeys : UnseenBy(job'[r], k)
    BY <1>2, Ended
<1>5. \A k \in 1 .. MaxKeys : Unseen(k) => job[r].key # k
    BY <1>1 DEF Unseen, UnseenBy
<1>6. DraftFollows' /\ StrandedLost'
    BY <1>1, <1>2, <1>4 DEF LossInv, DraftFollows, StrandedLost, Lost, Split, Kept, Published
<1>7. \A n \in made + 1 .. MaxKeys : Unwrapped(n)'
    BY <1>2 DEF LossInv, NextUnseen, Unwrapped
<1> QED
    BY <1>2, <1>3, <1>4, <1>5, <1>6, <1>7, LossWrites DEF Unseen
LEMMA LossInsert == ASSUME KeyInv, LossInv, NEW r \in Requests, InsertRow(r) PROVE LossInv'
<1>1. /\ job[r].at = "sealed" /\ job \in [Requests -> Job] /\ rows \in [Records -> Row]
      /\ NoRequest \notin Requests
    BY Types, KeyAssumption DEF InsertRow, KeyInv, Lawful
<1>2. PICK x \in Records : rows[x] = NoRow /\ Write(r, [rows EXCEPT ![x] = job[r].row])
    BY DEF InsertRow
<1> DEFINE new == [NoJob EXCEPT !.at = "inserted"]
<1>3. /\ new.at = "inserted" /\ new.row = NoJob.row /\ new.eng = NoJob.eng /\ new.keys = NoJob.keys
      /\ new.id = NoJob.id /\ new.found = NoJob.found
    BY DEF NoJob
<1>4. job' = [job EXCEPT ![r] = new] /\ UNCHANGED <<files, made, escrow, active, engine, stranded>>
    BY DEF InsertRow, Carry, disk, memory, past
<1> HIDE DEF new
<1>5. job'[r] = new /\ \A q \in Requests \ {r} : job'[q] = job[q]
    BY <1>1, <1>4
<1>6. /\ rows' = rows /\ writer' = r /\ draft'[x] = job[r].row
      /\ \A y \in Records \ {x} : draft'[y] = rows[y]
    BY <1>1, <1>2 DEF Write
<1>7. \A k \in 1 .. MaxKeys : UnseenBy(new, k)
  <2> SUFFICES ASSUME NEW k \in 1 .. MaxKeys PROVE UnseenBy(new, k)
      OBVIOUS
  <2>1. UnseenBy(NoJob, k)
      BY NoJobUnseen, KeyAssumption
  <2> QED
      BY <1>3, <2>1 DEF UnseenBy
<1>8. ASSUME NEW k, Unseen(k), NEW y \in Records
      PROVE  /\ rows'[y].token # k /\ draft'[y].token # k
             /\ (Unwrapped(k) => rows'[y].wrap # k /\ draft'[y].wrap # k)
    BY <1>6, <1>8 DEF Unseen, UnseenBy, Unwrapped
<1>9. \A n \in made + 1 .. MaxKeys : Unwrapped(n)'
    BY <1>8 DEF LossInv, NextUnseen, Unwrapped
<1>10. DraftFollows'
  <2>1. \A y \in Records : rows'[y].wrap # 0 => draft'[y] = rows'[y]
      BY <1>2, <1>6 DEF NoRow
  <2>2. \A q \in Requests : Published(q)' => q # r
      BY <1>3, <1>5 DEF Published
  <2> QED
      BY <1>6, <2>1, <2>2 DEF DraftFollows
<1>11. StrandedLost'
    BY <1>4, <1>6 DEF LossInv, StrandedLost, Lost, Split
<1>12. ~Pending(job'[r])
    BY <1>3, <1>5 DEF Pending
<1>13. \A k \in 1 .. MaxKeys : Unseen(k) => engine'.keys[engine'.id] # k
    BY <1>4 DEF Unseen
<1> QED
    BY <1>4, <1>5, <1>7, <1>8, <1>9, <1>10, <1>11, <1>12, <1>13, LossWrites

LEMMA DraftLost == ASSUME KeyInv, LossInv, NEW x \in stranded PROVE Lost(draft[x]) /\ x \in Records
<1>1. x \in Records /\ Lost(rows[x])
    BY DEF KeyInv, Lawful, TypeOK, LossInv, StrandedLost
<1>2. rows[x].wrap # 0
    BY <1>1 DEF Lost, Split
<1>3. draft[x] = rows[x] \/ Split(draft[x])
    BY <1>1, <1>2 DEF LossInv, DraftFollows
<1> QED
    BY <1>1, <1>3 DEF Lost

(* The request that holds the lock commits. *)
LEMMA LossCommit ==
    ASSUME KeyInv, LossInv, NEW r \in Requests, job' = [job EXCEPT ![r] = NoJob],
           UNCHANGED <<files, made, escrow, active, engine, draft>>,
           rows' = draft, writer' = NoRequest,
           \A x \in stranded' \ stranded : x \in Records /\ Split(draft[x])
    PROVE  LossInv'
<1>1. /\ \A q \in Requests \ {r} : job'[q] = job[q]
      /\ ~Pending(job'[r]) /\ \A k \in 1 .. MaxKeys : UnseenBy(job'[r], k)
    BY Ended
<1>2. DraftFollows'
    BY KeyAssumption DEF DraftFollows
<1>3. StrandedLost'
  <2>1. \A x \in stranded' : Lost(draft[x])
      BY DraftLost DEF Lost
  <2> QED
      BY <2>1 DEF StrandedLost, Lost, Split
<1>4. \A n \in made + 1 .. MaxKeys : Unwrapped(n)'
    BY DEF LossInv, NextUnseen, Unwrapped
<1> QED
    BY <1>1, <1>2, <1>3, <1>4, LossWrites DEF Unseen

LEMMA LossCommitPut == ASSUME KeyInv, LossInv, NEW r \in Requests, CommitPut(r) PROVE LossInv'
<1>1. /\ job' = [job EXCEPT ![r] = NoJob] /\ rows' = draft /\ writer' = NoRequest
      /\ UNCHANGED <<files, made, escrow, active, engine, draft, stranded>>
    BY DEF CommitPut, Carry, disk, memory, past
<1> QED
    BY <1>1, LossCommit

LEMMA LossCommitRotation == ASSUME KeyInv, LossInv, NEW r \in Requests, CommitRotation(r) PROVE LossInv'
<1>1. /\ job' = [job EXCEPT ![r] = NoJob] /\ Published(r)
      /\ UNCHANGED <<files, made, escrow, active, engine>>
    BY DEF CommitRotation, Carry, disk, memory, Published
<1>2. CASE writer = r
  <2>1. /\ rows' = draft /\ writer' = NoRequest /\ draft' = draft
        /\ stranded' = stranded \cup Kept(job[r].found)
      BY <1>2 DEF CommitRotation
  <2>2. \A x \in stranded' \ stranded : x \in Records /\ Split(draft[x])
      BY <1>1, <1>2, <2>1 DEF LossInv, DraftFollows, Kept
  <2> QED
      BY <1>1, <2>1, <2>2, LossCommit
<1>3. CASE writer # r
  <2>1. UNCHANGED <<rows, draft, writer, stranded>>
      BY <1>3 DEF CommitRotation, tables
  <2>2. NoJob \in Job /\ NoJob.at = "idle" /\ ~Pending(NoJob)
      BY NoJobIsJob DEF Pending
  <2>3. \A k \in 1 .. MaxKeys : UnseenBy(NoJob, k)
      BY NoJobUnseen, KeyAssumption
  <2> QED
      BY <1>1, <2>1, <2>2, <2>3, LossQuiet
<1> QED
    BY <1>2, <1>3

LEMMA LossFail == ASSUME KeyInv, LossInv, NEW r \in Requests, Fail(r) PROVE LossInv'
<1>1. /\ job' = [job EXCEPT ![r] = NoJob]
      /\ UNCHANGED <<files, made, escrow, active, engine, rows, stranded>>
      /\ \/ writer = r /\ draft' = rows /\ writer' = NoRequest
         \/ writer # r /\ draft' = draft /\ writer' = writer
    BY DEF Fail, Rollback, Carry, disk, memory
<1>2. /\ \A q \in Requests \ {r} : job'[q] = job[q]
      /\ ~Pending(job'[r]) /\ ~Published(r)' /\ \A k \in 1 .. MaxKeys : UnseenBy(job'[r], k)
    BY <1>1, Ended
<1>3. DraftFollows'
  <2>1. \A q \in Requests : Published(q)' => q # r /\ Published(q) /\ job'[q] = job[q]
      BY <1>2 DEF Published
  <2>2. CASE writer = r
      BY <1>1, <2>2, KeyAssumption DEF DraftFollows
  <2>3. CASE writer # r
      BY <1>1, <2>1, <2>3 DEF LossInv, DraftFollows, Split, Kept
  <2> QED
      BY <2>2, <2>3
<1>4. StrandedLost'
    BY <1>1 DEF LossInv, StrandedLost, Lost, Split
<1>5. \A n \in made + 1 .. MaxKeys : Unwrapped(n)'
    BY <1>1 DEF LossInv, NextUnseen, Unwrapped
<1> QED
    BY <1>1, <1>2, <1>3, <1>4, <1>5, LossWrites DEF Unseen

LEMMA LossInstallAll == ASSUME KeyInv, LossInv, NEW r \in Requests, InstallAll(r) PROVE LossInv'
<1>1. /\ job[r].at = "reloading" /\ ~Pending(job[r]) /\ Published(r) /\ job \in [Requests -> Job]
    BY Types DEF InstallAll, Pending, Published, KeyInv, Lawful
<1> DEFINE new == [NoJob EXCEPT !.at = "committing", !.found = job[r].found]
<1>2. /\ new.at = "committing" /\ new.found = job[r].found /\ new.row = NoJob.row
      /\ new.eng = NoJob.eng /\ new.keys = NoJob.keys /\ new.id = NoJob.id
    BY DEF NoJob
<1>3. /\ job' = [job EXCEPT ![r] = new] /\ engine' = [id |-> job[r].id, keys |-> job[r].keys]
      /\ UNCHANGED <<files, made, escrow, active, rows, draft, writer, stranded>>
    BY DEF InstallAll, Carry, disk, tables
<1> HIDE DEF new
<1>4. job'[r] = new /\ ~Pending(job'[r]) /\ \A q \in Requests \ {r} : job'[q] = job[q]
    BY <1>1, <1>2, <1>3 DEF Pending
<1>5. engine'.keys[engine'.id] = job[r].keys[job[r].id]
  <2>1. engine'.id = job[r].id /\ engine'.keys = job[r].keys
      BY <1>3
  <2> QED
      BY <2>1
<1>6. ASSUME NEW k \in 1 .. MaxKeys, Unseen(k) PROVE engine'.keys[engine'.id] # k /\ UnseenBy(job'[r], k)
  <2>1. UnseenBy(job[r], k) /\ UnseenBy(NoJob, k)
      BY <1>6, NoJobUnseen, KeyAssumption DEF Unseen
  <2>2. UnseenBy(new, k)
      BY <1>2, <2>1 DEF UnseenBy
  <2> QED
      BY <1>4, <1>5, <2>1, <2>2 DEF UnseenBy
<1>7. DraftFollows'
  <2>1. \A q \in Requests : /\ Published(q)' <=> Published(q)
                             /\ job'[q].found = job[q].found
      BY <1>1, <1>2, <1>4 DEF Published
  <2> QED
      BY <1>3, <2>1 DEF LossInv, DraftFollows, Split, Kept
<1>8. StrandedLost'
    BY <1>3 DEF LossInv, StrandedLost, Lost, Split
<1>9. \A n \in made + 1 .. MaxKeys : Unwrapped(n)'
    BY <1>3 DEF LossInv, NextUnseen, Unwrapped
<1> QED
    BY <1>3, <1>4, <1>6, <1>7, <1>8, <1>9, LossWrites DEF Unseen
LEMMA LossPublish == ASSUME KeyInv, LossInv, NEW r \in Requests, PublishKey(r) PROVE LossInv'
<1>1. /\ Lawful /\ job \in [Requests -> Job] /\ rows \in [Records -> Row]
      /\ made \in Nat /\ MaxKeys \in Nat /\ NoRequest \notin Requests
    BY Types, KeyAssumption DEF KeyInv, Lawful
<1>2. PICK old \in Job : old = job[r] /\ old.at = "rewrapping" /\ Pending(old)
    BY <1>1 DEF PublishKey, Pending
<1>3. PICK k0 \in 1 .. MaxKeys :
         /\ k0 = files[old.id].key /\ k0 <= made /\ k0 # 0 /\ Unseen(k0) /\ old.id \in KeyIds
         /\ \A n \in made + 1 .. MaxKeys : n # k0
    BY <1>1, <1>2, FreshIsOther
<1> DEFINE keys == [kid \in KeyIds |-> IF Loadable(kid) THEN Opened(kid, old.pass) ELSE 0]
           new == [old EXCEPT !.at = "reloading", !.pass = NoPassphrase, !.auto = FALSE, !.keys = keys]
           table == [x \in Records |->
                       IF old.found[x] = NoRow THEN rows[x] ELSE Rewrapped(old.found[x], old.id, k0)]
<1>4. /\ job' = [job EXCEPT ![r] = new] /\ active' = old.id
      /\ UNCHANGED <<files, made, escrow, engine, stranded>>
      /\ IF Kept(old.found) = {} THEN UNCHANGED <<rows, draft, writer>> ELSE Write(r, table)
    BY <1>2, <1>3 DEF PublishKey, Carry, past, tables
<1>5. /\ new.at = "reloading" /\ new.keys = keys /\ new.id = old.id /\ new.row = old.row
      /\ new.eng = old.eng /\ new.found = old.found /\ old.found \in [Records -> Row]
    BY DEF Job
<1>6. ASSUME NEW k \in 1 .. MaxKeys, Unseen(k), k # k0 PROVE UnseenBy(new, k)
  <2>1. k # 0
      BY <1>1
  <2>2. keys[old.id] # k
      BY <1>1, <1>3, <1>6, <2>1, OpenedIs
  <2>3. UnseenBy(old, k)
      BY <1>2, <1>6 DEF Unseen
  <2> QED
      BY <1>5, <2>2, <2>3 DEF UnseenBy
<1> HIDE DEF keys, new
<1>7. job'[r] = new /\ ~Pending(job'[r]) /\ \A q \in Requests \ {r} : job'[q] = job[q]
    BY <1>1, <1>4, <1>5 DEF Pending
<1>8. ASSUME NEW x \in Records
      PROVE  /\ old.found[x] = NoRow => table[x] = rows[x]
             /\ old.found[x] # NoRow => /\ table[x].wrap = k0 /\ table[x].token = old.found[x].token
                                        /\ Split(table[x])
  <2>1. old.found[x] \in Row
      BY <1>5
  <2>2. old.found[x].token # k0
      BY <1>2, <1>3 DEF Unseen, UnseenBy
  <2> QED
      BY <1>3, <2>1, <2>2 DEF Rewrapped, Row, Split
<1> HIDE DEF table
<1>9. /\ rows' = rows
      /\ \/ draft' = draft /\ writer' = writer /\ Kept(old.found) = {}
         \/ draft' = table /\ writer' = r
    BY <1>4 DEF Write
<1>10. ASSUME NEW k \in 1 .. MaxKeys, Unseen(k)
       PROVE  \A x \in Records : rows'[x].token # k /\ draft'[x].token # k
  <2>1. \A x \in Records : rows[x].token # k /\ draft[x].token # k /\ old.found[x].token # k
      BY <1>2, <1>10 DEF Unseen, UnseenBy
  <2> QED
      BY <1>8, <1>9, <2>1
<1>11. ASSUME NEW n \in made + 1 .. MaxKeys PROVE Unwrapped(n)'
  <2>1. \A x \in Records : rows[x].wrap # n /\ draft[x].wrap # n
      BY DEF LossInv, NextUnseen, Unwrapped
  <2>2. n # k0
      BY <1>3
  <2> QED
      BY <1>8, <1>9, <2>1, <2>2 DEF Unwrapped
<1>12. DraftFollows'
  <2>1. ASSUME NEW x \in Records, rows'[x].wrap # 0 PROVE draft'[x] = rows'[x] \/ Split(draft'[x])
      BY <1>8, <1>9, <2>1 DEF LossInv, DraftFollows
  <2>2. ASSUME NEW q \in Requests, Published(q)', writer' = q, NEW x \in Kept(job'[q].found)
        PROVE  Split(draft'[x])
    <3>1. x \in Records /\ job'[q].found[x] # NoRow
        BY <2>2 DEF Kept
    <3>2. CASE q = r
      <4>1. old.found[x] # NoRow
          BY <1>5, <1>7, <3>1, <3>2
      <4>2. draft' = table
          BY <1>9, <3>1, <4>1 DEF Kept
      <4> QED
          BY <1>8, <3>1, <4>1, <4>2
    <3>3. CASE q # r
      <4>1. draft' = draft /\ writer = q /\ Published(q) /\ x \in Kept(job[q].found)
          BY <1>7, <1>9, <2>2, <3>3 DEF Published
      <4> QED
          BY <4>1 DEF LossInv, DraftFollows
    <3> QED
        BY <3>2, <3>3
  <2> QED
      BY <2>1, <2>2 DEF DraftFollows, Split, Kept
<1>13. StrandedLost'
    BY <1>4, <1>9 DEF LossInv, StrandedLost, Lost, Split
<1>14. \A k \in 1 .. MaxKeys : Unseen(k) => engine'.keys[engine'.id] # k
    BY <1>4 DEF Unseen
<1> QED
    BY <1>2, <1>3, <1>4, <1>6, <1>7, <1>10, <1>11, <1>12, <1>13, <1>14, LossWrites

-----------------------------------------------------------------------------
(* The invariant, and what follows. *)

LEMMA LossInit == Init => LossInv
<1> SUFFICES ASSUME Init PROVE LossInv
    OBVIOUS
<1>1. /\ files = [kid \in KeyIds |-> Absent] /\ Absent.key = 0 /\ made = 0 /\ escrow = {}
      /\ active = Configured /\ engine = NoEngine /\ writer = NoRequest /\ stranded = {}
      /\ \A x \in Records : rows[x] = NoRow /\ draft[x] = NoRow
      /\ \A q \in Requests : job[q] = NoJob
    BY DEF Init, Absent
<1>2. \A q \in Requests : ~Pending(job[q]) /\ ~Published(q)
    BY <1>1, NoJobIsJob DEF Pending, Published
<1>3. \A n \in 1 .. MaxKeys : Unseen(n) /\ Unwrapped(n)
  <2> SUFFICES ASSUME NEW n \in 1 .. MaxKeys PROVE Unseen(n) /\ Unwrapped(n)
      OBVIOUS
  <2>1. n # 0
      BY KeyAssumption
  <2> QED
      BY <1>1, <2>1, NoJobUnseen DEF Unseen, Unwrapped
<1>4. FilesDiffer /\ NextUnseen
    BY <1>1, <1>3 DEF FilesDiffer, NextUnseen
<1>5. PendingUnseen /\ DraftFollows /\ StrandedLost
    BY <1>1, <1>2 DEF PendingUnseen, DraftFollows, StrandedLost
<1> QED
    BY <1>4, <1>5 DEF LossInv

LEMMA LossStep == KeyInv /\ LossInv /\ [Next]_vars => LossInv'
<1> SUFFICES ASSUME KeyInv, LossInv, [Next]_vars PROVE LossInv'
    OBVIOUS
<1>1. CASE CliCreate \/ RotatePassphrase \/ SealKey \/ SplitKey \/ Crash
    BY <1>1, LossCliCreate, LossReissue, LossSealKey, LossSplitKey, LossCrash
<1>2. CASE Configure \/ IntervalPasses
    BY <1>2, LossScheduler DEF Configure, IntervalPasses
<1>3. ASSUME NEW r \in Requests,
             \/ SetupKey(r) \/ UnlockKey(r) \/ UnsealKey(r) \/ CombineShares(r) \/ Install(r)
             \/ StartPut(r) \/ SealRecord(r) \/ InsertRow(r) \/ CommitPut(r)
      PROVE  LossInv'
    BY <1>3, LossSetup, LossUnlock, LossUnseal, LossCombine, LossInstall, LossStartPut, LossSeal,
       LossInsert, LossCommitPut
<1>4. ASSUME NEW r \in Requests,
             \/ StartRotation(r) \/ SelectRows(r) \/ SelectFails(r) \/ PublishKey(r)
             \/ InstallAll(r) \/ CommitRotation(r) \/ Fail(r)
      PROVE  LossInv'
    BY <1>4, LossStartRotation, LossSelect, LossSelectFails, LossPublish, LossInstallAll,
       LossCommitRotation, LossFail
<1>5. CASE UNCHANGED vars
  <2>1. UNCHANGED <<files, made, escrow, memory, tables, job, past>>
      BY <1>5 DEF vars, disk
  <2> QED
      BY <2>1, LossScheduler
<1> QED
    BY <1>1, <1>2, <1>3, <1>4, <1>5 DEF Next

(* A row that is lost is read by no engine that has the keys of the files. *)
LEMMA LossGivesStay == KeyInv /\ LossInv => StrandedStay
<1> SUFFICES ASSUME KeyInv, LossInv, NEW x \in stranded
             PROVE  /\ Loadable(active) => ~Readable(Unlocked, rows[x])
                    /\ rows[x].label = engine.id /\ rows[x].token # rows[x].wrap
                           => ~Readable(engine, rows[x])
    BY DEF StrandedStay
<1>1. /\ rows[x].wrap # 0 /\ rows[x].label \in KeyIds /\ active \in KeyIds
      /\ Lost(rows[x])
    BY Types DEF KeyInv, Lawful, TypeOK, Row, LossInv, StrandedLost, Lost, Split
<1>2. rows[x].label = engine.id /\ rows[x].token # rows[x].wrap => ~Readable(engine, rows[x])
    BY DEF Readable, Verifies, Unwraps
<1>3. ASSUME Loadable(active), Readable(Unlocked, rows[x]) PROVE FALSE
  <2>1. /\ Unlocked.id = active
        /\ \A kid \in KeyIds : Unlocked.keys[kid] = IF kid = active THEN Stored(active) ELSE 0
      BY <1>1 DEF Unlocked, NoKeys
  <2>2. rows[x].token = Stored(active) /\ rows[x].wrap = Unlocked.keys[rows[x].label]
      BY <1>1, <1>3, <2>1 DEF Readable, Verifies, Unwraps
  <2>3. rows[x].label = active /\ rows[x].wrap = Stored(active)
      BY <1>1, <2>1, <2>2
  <2>4. Stored(active) = files[active].key
      BY <1>3 DEF Stored
  <2> QED
      BY <1>1, <2>2, <2>3, <2>4 DEF Lost, Split
<1> QED
    BY <1>2, <1>3

(* A record that a rotation re-wrapped, or whose key was reissued, is readable
   after no unlock, and one whose token is of another key not by the engine it is
   labelled with either (rotate_all_records keeps the integrity token,
   rotate_master_key removes the old key). *)
THEOREM StrandedForGood == Spec => []StrandedStay
<1>1. Init => KeyInv /\ LossInv
    BY InitHolds, LossInit
<1>2. (KeyInv /\ LossInv) /\ [Next]_vars => (KeyInv /\ LossInv)'
    BY StepKeeps, LossStep
<1> QED
    BY <1>1, <1>2, LossGivesStay, PTL DEF Spec

-----------------------------------------------------------------------------
(* The promise of Custody.  What has to be known beside KeyInv and LossInv is    *)
(* what the write lock hides: a put adds one row, a rotation re-wraps the rows   *)
(* it found and no other, to a key that its file keeps.                          *)

(* The row of a put. *)
PutRow(row) == row.wrap # 0 /\ row.token = row.wrap

Moving(j) == j.at \in {"rewrapping", "reloading", "committing"}

Handy(j) ==
    /\ j.at = "checked" => j.eng.keys[j.eng.id] # 0
    /\ j.at = "sealed"  => PutRow(j.row)
    /\ Pending(j) => j.id # Configured /\ Loadable(j.id)
    /\ j.at = "reloading" => j.keys[j.id] # 0
    /\ Moving(j) => /\ \A x \in Kept(j.found) : rows[x] # NoRow /\ j.found[x].token = rows[x].token
                    /\ ~mixed /\ ~misled => Kept(j.found) = Kept(rows)

Adds(table) ==
    \E x \in Records, row \in Row :
        rows[x] = NoRow /\ PutRow(row) /\ table = [rows EXCEPT ![x] = row]

Turns(table, found) ==
    \E kid \in KeyIds \ {Configured} :
        /\ Loadable(kid)
        /\ \A x \in Records : table[x] = IF x \in found
               THEN [label |-> kid, wrap |-> files[kid].key, token |-> rows[x].token]
               ELSE rows[x]

Fine(q) ==
    /\ Handy(job[q])
    /\ Rotating(q) => sched.last # "none"
    /\ writer = q => /\ job[q].at = "inserted" => Adds(draft)
                     /\ Published(q) => Turns(draft, Kept(job[q].found))

RowsFine   == \A x \in Records : rows[x] # NoRow => rows[x].wrap # 0
EngineFine == engine # NoEngine => engine.keys[engine.id] # 0
SchedFine  == sched.last # "none" => sched.saved

CustodyInv ==
    /\ RowsFine
    /\ EngineFine
    /\ SchedFine
    /\ \A q \in Requests : Fine(q)

(* What every step keeps: files but the configured one, rows, doubts. *)
Onward ==
    /\ \A kid \in KeyIds : kid # Configured /\ Loadable(kid) => files'[kid] = files[kid]
    /\ \A x \in Records : rows[x] # NoRow => rows'[x] # NoRow /\ rows'[x].token = rows[x].token
    /\ mixed => mixed'
    /\ misled => misled'
    /\ sched.last # "none" => sched'.last # "none"

(* A request that the step leaves alone. *)
LeftAlone(q) ==
    /\ job'[q] = job[q]
    /\ rows' = rows \/ mixed' \/ misled' \/ ~Moving(job[q])
    /\ writer' = q => writer = q /\ draft' = draft /\ rows' = rows

LEMMA HandyStays ==
    ASSUME Onward, NEW j \in Job, Handy(j), rows' = rows \/ mixed' \/ misled' \/ ~Moving(j)
    PROVE  Handy(j)'
<1>1. j.id \in KeyIds
    BY DEF Job
<1>2. Pending(j) => j.id # Configured /\ Loadable(j.id)'
    BY <1>1 DEF Handy, Onward, Loadable
<1>3. Moving(j) => \A x \in Kept(j.found) : rows'[x] # NoRow /\ j.found[x].token = rows'[x].token
    BY DEF Handy, Onward, Kept
<1>4. Moving(j) /\ ~mixed' /\ ~misled' => Kept(j.found) = Kept(rows)'
    BY DEF Handy, Onward, Kept
<1> QED
    BY <1>2, <1>3, <1>4 DEF Handy, Moving, Pending

LEMMA TurnsStays ==
    ASSUME Onward, rows' = rows, NEW table, NEW found, Turns(table, found)
    PROVE  Turns(table, found)'
<1>1. PICK kid \in KeyIds \ {Configured} :
        /\ Loadable(kid)
        /\ \A x \in Records : table[x] = IF x \in found
               THEN [label |-> kid, wrap |-> files[kid].key, token |-> rows[x].token]
               ELSE rows[x]
    BY DEF Turns
<1>2. files'[kid] = files[kid] /\ Loadable(kid)'
    BY <1>1 DEF Onward, Loadable
<1> QED
    BY <1>1, <1>2 DEF Turns

LEMMA LeftAloneFine ==
    ASSUME Lawful, Onward, NEW q \in Requests, Fine(q), LeftAlone(q)
    PROVE  Fine(q)'
<1>1. PICK j \in Job : j = job[q] /\ j = job'[q]
    BY Types DEF Lawful, LeftAlone
<1>2. Handy(j)'
    BY <1>1, HandyStays DEF Fine, LeftAlone
<1>3. Rotating(q)' => sched'.last # "none"
    BY <1>1 DEF Fine, Onward, Rotating
<1>4. ASSUME writer' = q PROVE /\ j.at = "inserted" => Adds(draft)'
                               /\ Published(q)' => Turns(draft, Kept(j.found))'
  <2>1. writer = q /\ draft' = draft /\ rows' = rows
      BY <1>4 DEF LeftAlone
  <2>2. j.at = "inserted" => Adds(draft)'
      BY <1>1, <2>1 DEF Fine, Adds
  <2>3. ASSUME Published(q)' PROVE Turns(draft, Kept(j.found))'
    <3>1. Turns(draft, Kept(j.found))
        BY <1>1, <2>1, <2>3 DEF Fine, Published
    <3>2. PICK table, found : table = draft /\ found = Kept(j.found)
        OBVIOUS
    <3>3. Turns(table, found)'
        BY <2>1, <3>1, <3>2, TurnsStays
    <3>4. table = draft' /\ found = Kept(j.found)'
        BY <2>1, <3>2 DEF Kept
    <3> QED
        BY <3>3, <3>4
  <2> QED
      BY <2>2, <2>3
<1> QED
    BY <1>1, <1>2, <1>3, <1>4 DEF Fine

LEMMA CustodyStep ==
    ASSUME Lawful, CustodyInv, Onward, RowsFine', EngineFine', SchedFine',
           \A q \in Requests : LeftAlone(q) \/ Fine(q)'
    PROVE  CustodyInv'
    BY LeftAloneFine DEF CustodyInv

LEMMA EndedFine ==
    ASSUME NEW q \in Requests, job'[q] = NoJob
    PROVE  Fine(q)'
<1>1. NoJob.at = "idle"
    BY NoJobIsJob
<1> QED
    BY <1>1 DEF Fine, Handy, Pending, Moving, Rotating, Rotate, Published

(* What the holder of the lock is to commit. *)
LEMMA PutCommits ==
    ASSUME KeyInv, CustodyInv, NEW r \in Requests, CommitPut(r)
    PROVE  Adds(draft) /\ rows' = draft /\ writer = r
<1>1. job[r].at = "inserted" /\ rows' = draft
    BY DEF CommitPut
<1>2. writer = r
    BY <1>1 DEF KeyInv, Lawful
<1> QED
    BY <1>1, <1>2 DEF CustodyInv, Fine

LEMMA RotationCommits ==
    ASSUME KeyInv, CustodyInv, NEW r \in Requests, CommitRotation(r)
    PROVE  \/ UNCHANGED tables
           \/ Turns(draft, Kept(job[r].found)) /\ rows' = draft /\ writer' = NoRequest /\ writer = r
<1>1. Published(r)
    BY DEF CommitRotation, Published
<1>2. CASE writer = r
    BY <1>1, <1>2 DEF CustodyInv, Fine, CommitRotation
<1>3. CASE writer # r
    BY <1>3 DEF CommitRotation
<1> QED
    BY <1>2, <1>3

(* What was put stays, with its token. *)
RowsStay == \A x \in Records : rows[x] # NoRow => rows'[x] # NoRow /\ rows'[x].token = rows[x].token

LEMMA AddsKeepRows ==
    ASSUME Lawful, CustodyInv, Adds(draft), rows' = draft
    PROVE  RowsStay /\ RowsFine'
<1>1. PICK x \in Records, row \in Row : rows[x] = NoRow /\ PutRow(row) /\ draft = [rows EXCEPT ![x] = row]
    BY DEF Adds
<1>2. rows \in [Records -> Row]
    BY Types DEF Lawful
<1>3. rows'[x] = row /\ \A y \in Records \ {x} : rows'[y] = rows[y]
    BY <1>1, <1>2
<1> QED
    BY <1>1, <1>3 DEF RowsStay, RowsFine, CustodyInv, PutRow

LEMMA TurnsKeepRows ==
    ASSUME Lawful, CustodyInv, NEW found, Turns(draft, found), rows' = draft
    PROVE  RowsStay /\ RowsFine'
<1>1. PICK kid \in KeyIds \ {Configured} :
        /\ Loadable(kid)
        /\ \A x \in Records : draft[x] = IF x \in found
               THEN [label |-> kid, wrap |-> files[kid].key, token |-> rows[x].token]
               ELSE rows[x]
    BY DEF Turns
<1>2. ASSUME NEW x \in Records, x \in found
      PROVE  rows'[x].token = rows[x].token /\ rows'[x].wrap # 0 /\ rows'[x] # NoRow
  <2>1. files[kid].key # 0 /\ NoRow.wrap = 0
      BY <1>1 DEF Loadable, NoRow
  <2>2. rows'[x] = [label |-> kid, wrap |-> files[kid].key, token |-> rows[x].token]
      BY <1>1, <1>2
  <2>3. rows'[x].token = rows[x].token /\ rows'[x].wrap = files[kid].key
      BY <2>2
  <2> QED
      BY <2>1, <2>3
<1>3. ASSUME NEW x \in Records, x \notin found PROVE rows'[x] = rows[x]
    BY <1>1, <1>3
<1> QED
    BY <1>2, <1>3 DEF RowsStay, RowsFine, CustodyInv

(* A key comes under a name that had none. *)
LEMMA CreatedOnward ==
    ASSUME Lawful, NEW kid \in KeyIds, NEW p, NEW whole, Create(kid, p, whole), NEW other \in KeyIds, Loadable(other)
    PROVE  files'[other] = files[other]
    BY Types DEF Lawful, Create, MayCreate, Loadable

LEMMA OnwardAlways == KeyInv /\ CustodyInv /\ [Next]_vars => Onward
<1> SUFFICES ASSUME KeyInv, CustodyInv, [Next]_vars PROVE Onward
    OBVIOUS
<1>1. /\ Lawful /\ active \in KeyIds /\ Configured \in KeyIds /\ files \in [KeyIds -> File]
    BY Types, KeyAssumption DEF KeyInv, Lawful
<1>2. \A kid \in KeyIds : kid # Configured /\ Loadable(kid) => files'[kid] = files[kid]
  <2> SUFFICES ASSUME NEW kid \in KeyIds, kid # Configured, Loadable(kid) PROVE files'[kid] = files[kid]
      OBVIOUS
  <2>1. CASE RotatePassphrase
      BY <1>1, <2>1 DEF RotatePassphrase, Reissue
  <2>2. CASE CliCreate
      BY <1>1, <2>2, CreatedOnward DEF CliCreate
  <2>3. CASE Crash
      BY <1>1, <2>3, CreatedOnward DEF Crash
  <2>4. CASE SealKey \/ SplitKey \/ Configure \/ IntervalPasses \/ UNCHANGED vars
      BY <2>4 DEF SealKey, SplitKey, Configure, IntervalPasses, vars, disk
  <2>5. ASSUME NEW r \in Requests, SetupKey(r) \/ StartRotation(r) PROVE files'[kid] = files[kid]
      BY <1>1, <2>5, CreatedOnward DEF SetupKey, StartRotation
  <2>6. ASSUME NEW r \in Requests,
               \/ UnlockKey(r) \/ UnsealKey(r) \/ CombineShares(r) \/ Install(r)
               \/ StartPut(r) \/ SealRecord(r) \/ InsertRow(r) \/ CommitPut(r)
               \/ SelectRows(r) \/ SelectFails(r)
               \/ PublishKey(r) \/ InstallAll(r) \/ CommitRotation(r) \/ Fail(r)
        PROVE  files' = files
      BY <2>6 DEF UnlockKey, UnsealKey, CombineShares, Install, StartPut, SealRecord, InsertRow,
         CommitPut, SelectRows, SelectFails, PublishKey, InstallAll, CommitRotation, Fail, disk
  <2> QED
      BY <2>1, <2>2, <2>3, <2>4, <2>5, <2>6 DEF Next
<1>3. RowsStay
  <2>1. ASSUME NEW r \in Requests, CommitPut(r) PROVE RowsStay
      BY <1>1, <2>1, PutCommits, AddsKeepRows
  <2>2. ASSUME NEW r \in Requests, CommitRotation(r) PROVE RowsStay
      BY <1>1, <2>2, RotationCommits, TurnsKeepRows DEF RowsStay, tables
  <2>3. CASE \/ CliCreate \/ RotatePassphrase \/ SealKey \/ SplitKey \/ Configure \/ IntervalPasses
             \/ Crash \/ UNCHANGED vars
    <3>1. rows' = rows
        BY <2>3 DEF CliCreate, RotatePassphrase, SealKey, SplitKey, Configure, IntervalPasses, Crash,
           vars, tables
    <3> QED
        BY <3>1 DEF RowsStay
  <2>4. ASSUME NEW r \in Requests,
               \/ SetupKey(r) \/ UnlockKey(r) \/ UnsealKey(r) \/ CombineShares(r) \/ Install(r)
               \/ StartPut(r) \/ SealRecord(r) \/ StartRotation(r) \/ SelectRows(r) \/ SelectFails(r)
               \/ InstallAll(r) \/ Fail(r) \/ InsertRow(r) \/ PublishKey(r)
        PROVE  RowsStay
    <3>1. rows' = rows
        BY <2>4 DEF SetupKey, UnlockKey, UnsealKey, CombineShares, Install, StartPut, SealRecord,
           StartRotation, SelectRows, SelectFails, InstallAll, Fail, Rollback, InsertRow, PublishKey,
           Write, tables
    <3> QED
        BY <3>1 DEF RowsStay
  <2> QED
      BY <2>1, <2>2, <2>3, <2>4 DEF Next
<1>4. (mixed => mixed') /\ (misled => misled')
  <2>1. CASE CliCreate \/ SealKey \/ SplitKey \/ Configure \/ IntervalPasses \/ UNCHANGED vars
    <3>1. UNCHANGED past
        BY <2>1 DEF CliCreate, SealKey, SplitKey, Configure, IntervalPasses, vars
    <3> QED
        BY <3>1 DEF past
  <2>2. CASE RotatePassphrase \/ Crash
    <3>1. mixed' = mixed /\ (misled' = TRUE \/ misled' = misled)
        BY <2>2 DEF RotatePassphrase, Crash
    <3> QED
        BY <3>1
  <2>3. ASSUME NEW r \in Requests,
               \/ SetupKey(r) \/ UnlockKey(r) \/ UnsealKey(r) \/ CombineShares(r) \/ StartPut(r)
               \/ StartRotation(r)
        PROVE  (mixed => mixed') /\ (misled => misled')
    <3>1. misled' = misled /\ \E j : Begin(r, j)
        BY <2>3 DEF SetupKey, UnlockKey, UnsealKey, CombineShares, StartPut, StartRotation
    <3>2. mixed => mixed'
        BY <3>1 DEF Begin
    <3> QED
        BY <3>1, <3>2
  <2>4. ASSUME NEW r \in Requests,
               \/ SealRecord(r) \/ InsertRow(r) \/ CommitPut(r) \/ SelectRows(r) \/ SelectFails(r)
               \/ PublishKey(r)
        PROVE  (mixed => mixed') /\ (misled => misled')
    <3>1. UNCHANGED past
        BY <2>4 DEF SealRecord, InsertRow, CommitPut, SelectRows, SelectFails, PublishKey
    <3> QED
        BY <3>1 DEF past
  <2>5. ASSUME NEW r \in Requests, Install(r) \/ InstallAll(r) PROVE (mixed => mixed') /\ (misled => misled')
    <3>1. CASE Install(r)
        BY <3>1 DEF Install
    <3>2. CASE InstallAll(r)
      <4>1. mixed' = mixed /\ \E wrong \in BOOLEAN : misled' = (misled \/ wrong)
          BY <3>2 DEF InstallAll
      <4> QED
          BY <4>1
    <3> QED
        BY <2>5, <3>1, <3>2
  <2>6. ASSUME NEW r \in Requests, CommitRotation(r) \/ Fail(r) PROVE (mixed => mixed') /\ (misled => misled')
    <3>1. CASE CommitRotation(r)
        BY <3>1 DEF CommitRotation
    <3>2. CASE Fail(r)
      <4>1. misled' = misled /\ mixed' = (mixed \/ job[r].at = "reloading")
          BY <3>2 DEF Fail, memory
      <4> QED
          BY <4>1
    <3> QED
        BY <2>6, <3>1, <3>2
  <2> QED
      BY <2>1, <2>2, <2>3, <2>4, <2>5, <2>6 DEF Next
<1>5. sched.last # "none" => sched'.last # "none"
  <2> SUFFICES ASSUME sched.last # "none" PROVE sched'.last # "none"
      OBVIOUS
  <2>1. CASE Configure
    <3>1. State = sched
        BY DEF CustodyInv, SchedFine, State
    <3>2. PICK a \in BOOLEAN, l \in {"recent", "old"} :
             sched' = [State EXCEPT !.saved = TRUE, !.auto = a, !.last = l]
        BY <2>1, <3>1 DEF Configure
    <3>3. State \in [saved : BOOLEAN, last : {"none", "recent", "old"}, current : KeyIds, auto : BOOLEAN]
        BY <1>1, <3>1 DEF Lawful, TypeOK
    <3>4. sched'.last = l
        BY <3>2, <3>3
    <3> QED
        BY <3>4
  <2>2. CASE IntervalPasses
    <3>1. sched \in [saved : BOOLEAN, last : {"none", "recent", "old"}, current : KeyIds, auto : BOOLEAN]
        BY <1>1 DEF Lawful, TypeOK
    <3>2. sched'.last = "old"
        BY <2>2, <3>1 DEF IntervalPasses
    <3> QED
        BY <3>2
  <2>3. ASSUME NEW r \in Requests, PublishKey(r) PROVE sched'.last # "none"
      BY <2>3 DEF PublishKey
  <2>4. CASE CliCreate \/ RotatePassphrase \/ SealKey \/ SplitKey \/ Crash \/ UNCHANGED vars
      BY <2>4 DEF CliCreate, RotatePassphrase, SealKey, SplitKey, Crash, vars, disk
  <2>5. ASSUME NEW r \in Requests,
               \/ SetupKey(r) \/ UnlockKey(r) \/ UnsealKey(r) \/ CombineShares(r) \/ Install(r)
               \/ StartPut(r) \/ SealRecord(r) \/ InsertRow(r) \/ CommitPut(r)
               \/ StartRotation(r) \/ SelectRows(r) \/ SelectFails(r)
               \/ InstallAll(r) \/ CommitRotation(r) \/ Fail(r)
        PROVE  sched' = sched
      BY <2>5 DEF SetupKey, UnlockKey, UnsealKey, CombineShares, Install, StartPut, SealRecord,
         InsertRow, CommitPut, StartRotation, SelectRows, SelectFails, InstallAll, CommitRotation,
         Fail, disk
  <2> QED
      BY <2>1, <2>2, <2>3, <2>4, <2>5 DEF Next
<1> QED
    BY <1>2, <1>3, <1>4, <1>5 DEF Onward, RowsStay

(* Steps of one request that commit nothing. *)
LEMMA CustodyRequest ==
    ASSUME KeyInv, CustodyInv, Onward, NEW r \in Requests, rows' = rows,
           \A q \in Requests \ {r} : job'[q] = job[q],
           (writer' = writer /\ draft' = draft) \/ writer' \in {r, NoRequest},
           EngineFine', SchedFine', Fine(r)'
    PROVE  CustodyInv'
<1>1. Lawful /\ NoRequest \notin Requests
    BY KeyAssumption DEF KeyInv
<1>2. \A q \in Requests \ {r} : LeftAlone(q)
    BY <1>1 DEF LeftAlone
<1>3. RowsFine'
    BY DEF CustodyInv, RowsFine
<1> QED
    BY <1>1, <1>2, <1>3, CustodyStep

LEMMA CustodyOutside ==
    ASSUME KeyInv, CustodyInv, Onward, UNCHANGED <<job, engine, rows, draft, writer>>, SchedFine'
    PROVE  CustodyInv'
<1>1. \A q \in Requests : LeftAlone(q)
    BY DEF LeftAlone
<1>2. RowsFine' /\ EngineFine'
    BY DEF CustodyInv, RowsFine, EngineFine
<1> QED
    BY <1>1, <1>2, CustodyStep DEF KeyInv

LEMMA CustodyCommands ==
    ASSUME KeyInv, CustodyInv, Onward,
           CliCreate \/ RotatePassphrase \/ SealKey \/ SplitKey \/ Configure \/ IntervalPasses \/ UNCHANGED vars
    PROVE  CustodyInv'
<1>1. UNCHANGED <<job, memory, tables>>
    BY DEF CliCreate, RotatePassphrase, SealKey, SplitKey, Configure, IntervalPasses, vars
<1>2. /\ sched \in [saved : BOOLEAN, last : {"none", "recent", "old"}, current : KeyIds, auto : BOOLEAN]
      /\ State \in [saved : BOOLEAN, last : {"none", "recent", "old"}, current : KeyIds, auto : BOOLEAN]
    BY Types, SchedAndEscrow, KeyAssumption DEF KeyInv, Lawful, TypeOK, State, NoState
<1>3. SchedFine'
  <2>1. CASE Configure
    <3>1. PICK a \in BOOLEAN, l \in {"none", "recent", "old"} :
             sched' = [State EXCEPT !.saved = TRUE, !.auto = a, !.last = l]
        BY <2>1 DEF Configure
    <3> QED
        BY <1>2, <3>1 DEF SchedFine
  <2>2. CASE IntervalPasses
    <3>1. sched' = [sched EXCEPT !.last = "old"] /\ sched.saved
        BY <2>2 DEF IntervalPasses, CustodyInv, SchedFine
    <3> QED
        BY <1>2, <3>1 DEF SchedFine
  <2>3. CASE CliCreate \/ RotatePassphrase \/ SealKey \/ SplitKey \/ UNCHANGED vars
    <3>1. sched' = sched
        BY <2>3 DEF CliCreate, RotatePassphrase, SealKey, SplitKey, vars, disk
    <3> QED
        BY <3>1 DEF CustodyInv, SchedFine
  <2> QED
      BY <2>1, <2>2, <2>3
<1> QED
    BY <1>1, <1>3, CustodyOutside DEF memory, tables

(* A request that only changes what it has in hand. *)
LEMMA CustodyHand ==
    ASSUME KeyInv, CustodyInv, Onward, NEW r \in Requests, NEW new, job' = [job EXCEPT ![r] = new],
           UNCHANGED <<memory, tables, sched>>, Fine(r)'
    PROVE  CustodyInv'
<1>1. \A q \in Requests \ {r} : job'[q] = job[q]
    BY Types DEF KeyInv, Lawful
<1>2. EngineFine' /\ SchedFine'
    BY DEF CustodyInv, EngineFine, SchedFine, memory
<1> QED
    BY <1>1, <1>2, CustodyRequest DEF tables

LEMMA UnarmedFine ==
    ASSUME NEW q \in Requests, job'[q].at \in {"idle", "installing"}
    PROVE  Fine(q)'
    BY DEF Fine, Handy, Pending, Moving, Rotating, Rotate, Published

LEMMA CustodyInstalling ==
    ASSUME KeyInv, CustodyInv, Onward, NEW r \in Requests, NEW k,
           Begin(r, [NoJob EXCEPT !.at = "installing", !.key = k]),
           UNCHANGED <<memory, tables, sched>>
    PROVE  CustodyInv'
<1> DEFINE new == [NoJob EXCEPT !.at = "installing", !.key = k]
<1>1. new.at = "installing"
    BY DEF NoJob
<1>2. job' = [job EXCEPT ![r] = new]
    BY DEF Begin
<1> HIDE DEF new
<1>3. job'[r] = new
    BY <1>2, Types DEF KeyInv, Lawful
<1>4. Fine(r)'
    BY <1>1, <1>3, UnarmedFine
<1> QED
    BY <1>2, <1>4, CustodyHand

LEMMA CustodyKeys ==
    ASSUME KeyInv, CustodyInv, Onward, NEW r \in Requests,
           SetupKey(r) \/ UnlockKey(r) \/ UnsealKey(r) \/ CombineShares(r)
    PROVE  CustodyInv'
<1>1. PICK k : Begin(r, [NoJob EXCEPT !.at = "installing", !.key = k])
    BY DEF SetupKey, UnlockKey, UnsealKey, CombineShares
<1>2. UNCHANGED <<memory, tables, sched>>
    BY DEF SetupKey, UnlockKey, UnsealKey, CombineShares, disk
<1> QED
    BY <1>1, <1>2, CustodyInstalling

LEMMA CustodyStartPut == ASSUME KeyInv, CustodyInv, Onward, NEW r \in Requests, StartPut(r) PROVE CustodyInv'
<1> DEFINE new == [NoJob EXCEPT !.at = "checked", !.eng = engine]
<1>1. new.at = "checked" /\ new.eng = engine
    BY DEF NoJob
<1>2. job' = [job EXCEPT ![r] = new] /\ UNCHANGED <<memory, tables, sched>> /\ engine # NoEngine
    BY DEF StartPut, Begin, disk
<1> HIDE DEF new
<1>3. job'[r] = new
    BY <1>2, Types DEF KeyInv, Lawful
<1>4. new.eng.keys[new.eng.id] # 0
    BY <1>1, <1>2 DEF CustodyInv, EngineFine
<1>5. Fine(r)'
    BY <1>1, <1>3, <1>4 DEF Fine, Handy, Pending, Moving, Rotating, Rotate, Published
<1> QED
    BY <1>2, <1>5, CustodyHand

LEMMA CustodySeal == ASSUME KeyInv, CustodyInv, Onward, NEW r \in Requests, SealRecord(r) PROVE CustodyInv'
<1> DEFINE row == Sealed(job[r].eng)
           new == [NoJob EXCEPT !.at = "sealed", !.row = row]
<1>1. PutRow(row)
  <2>1. job[r].eng.keys[job[r].eng.id] # 0
      BY DEF SealRecord, CustodyInv, Fine, Handy
  <2> QED
      BY <2>1 DEF PutRow, Sealed
<1> HIDE DEF row
<1>2. new.at = "sealed" /\ new.row = row
    BY DEF NoJob
<1>3. job' = [job EXCEPT ![r] = new] /\ UNCHANGED <<memory, tables, sched>>
    BY DEF SealRecord, Carry, disk, row
<1> HIDE DEF new
<1>4. job'[r] = new
    BY <1>3, Types DEF KeyInv, Lawful
<1>5. Fine(r)'
    BY <1>1, <1>2, <1>4 DEF Fine, Handy, PutRow, Pending, Moving, Rotating, Rotate, Published
<1> QED
    BY <1>3, <1>5, CustodyHand

LEMMA CustodyInsert == ASSUME KeyInv, CustodyInv, Onward, NEW r \in Requests, InsertRow(r) PROVE CustodyInv'
<1>1. /\ job \in [Requests -> Job] /\ rows \in [Records -> Row] /\ job[r].at = "sealed"
    BY Types DEF KeyInv, Lawful, InsertRow
<1>2. PICK x \in Records : rows[x] = NoRow /\ Write(r, [rows EXCEPT ![x] = job[r].row])
    BY DEF InsertRow
<1>3. PICK row \in Row : row = job[r].row /\ PutRow(row)
    BY <1>1 DEF Job, CustodyInv, Fine, Handy
<1>4. rows' = rows /\ writer' = r /\ draft' = [rows EXCEPT ![x] = row]
    BY <1>2, <1>3 DEF Write
<1>5. Adds(draft)'
    BY <1>2, <1>3, <1>4 DEF Adds, PutRow
<1> DEFINE new == [NoJob EXCEPT !.at = "inserted"]
<1>6. new.at = "inserted"
    BY DEF NoJob
<1>7. job' = [job EXCEPT ![r] = new] /\ UNCHANGED <<memory, sched>>
    BY DEF InsertRow, Carry, disk
<1> HIDE DEF new
<1>8. job'[r] = new /\ \A q \in Requests \ {r} : job'[q] = job[q]
    BY <1>1, <1>7
<1>9. Fine(r)'
    BY <1>5, <1>6, <1>8 DEF Fine, Handy, Pending, Moving, Rotating, Rotate, Published
<1>10. EngineFine' /\ SchedFine'
    BY <1>7 DEF CustodyInv, EngineFine, SchedFine, memory
<1> QED
    BY <1>4, <1>8, <1>9, <1>10, CustodyRequest

LEMMA CustodyStartRotation ==
    ASSUME KeyInv, CustodyInv, Onward, NEW r \in Requests, StartRotation(r)
    PROVE  CustodyInv'
<1>1. PICK p \in Passphrases, kid \in KeyIds \ {Configured} :
         /\ Create(kid, p, TRUE)
         /\ Begin(r, [NoJob EXCEPT !.at = "selecting", !.id = kid, !.pass = p,
                                   !.key = Opened(State.current, p), !.auto = State.auto])
    BY DEF StartRotation
<1> DEFINE new == [NoJob EXCEPT !.at = "selecting", !.id = kid, !.pass = p,
                                !.key = Opened(State.current, p), !.auto = State.auto]
<1>2. new.at = "selecting" /\ new.id = kid
    BY DEF NoJob
<1>3. job' = [job EXCEPT ![r] = new] /\ UNCHANGED <<memory, tables, sched>>
    BY <1>1 DEF Begin, StartRotation
<1> HIDE DEF new
<1>4. job'[r] = new
    BY <1>3, Types DEF KeyInv, Lawful
<1>5. Loadable(kid)'
    BY <1>1, Created DEF KeyInv, Loadable
<1>6. sched.last # "none"
    BY DEF StartRotation, Due, State, NoState
<1>7. Fine(r)'
    BY <1>1, <1>2, <1>3, <1>4, <1>5, <1>6 DEF Fine, Handy, Pending, Moving, Published
<1> QED
    BY <1>3, <1>7, CustodyHand

LEMMA CustodySelect == ASSUME KeyInv, CustodyInv, Onward, NEW r \in Requests, SelectRows(r) PROVE CustodyInv'
<1>1. job \in [Requests -> Job] /\ rows \in [Records -> Row]
    BY Types DEF KeyInv, Lawful
<1>2. PICK old \in Job : old = job[r] /\ old.at = "selecting"
    BY <1>1 DEF SelectRows
<1> DEFINE new == [old EXCEPT !.at = "rewrapping", !.key = 0, !.found = rows]
<1>3. new.at = "rewrapping" /\ new.id = old.id /\ new.found = rows
    BY DEF Job
<1>4. job' = [job EXCEPT ![r] = new] /\ UNCHANGED <<memory, tables, sched, files>>
    BY <1>2 DEF SelectRows, Carry, disk
<1> HIDE DEF new
<1>5. job'[r] = new /\ rows' = rows
    BY <1>1, <1>4 DEF tables
<1>6. old.id # Configured /\ Loadable(old.id)' /\ sched'.last # "none"
    BY <1>2, <1>4 DEF CustodyInv, Fine, Handy, Pending, Rotating, Rotate, Loadable
<1>7. Fine(r)'
    BY <1>3, <1>5, <1>6 DEF Fine, Handy, Pending, Moving, Published, Kept
<1> QED
    BY <1>4, <1>7, CustodyHand

LEMMA CustodySelectFails == ASSUME KeyInv, CustodyInv, Onward, NEW r \in Requests, SelectFails(r) PROVE CustodyInv'
<1>1. job' = [job EXCEPT ![r] = NoJob] /\ UNCHANGED <<memory, tables, sched>>
    BY DEF SelectFails, Carry, disk
<1>2. job'[r] = NoJob
    BY <1>1, Types DEF KeyInv, Lawful
<1> QED
    BY <1>1, <1>2, EndedFine, CustodyHand

LEMMA RewrappedIs ==
    ASSUME NEW row \in Row, NEW kid \in KeyIds, NEW k \in Key
    PROVE  Rewrapped(row, kid, k) = [label |-> kid, wrap |-> k, token |-> row.token]
<1> DEFINE now == Rewrapped(row, kid, k)
           told == [label |-> kid, wrap |-> k, token |-> row.token]
<1>1. now \in Row /\ now.label = kid /\ now.wrap = k /\ now.token = row.token
    BY DEF Rewrapped, Row
<1>2. told \in Row /\ told.label = kid /\ told.wrap = k /\ told.token = row.token
    BY DEF Row
<1> HIDE DEF now, told
<1>3. now = told
    BY <1>1, <1>2 DEF Row
<1> QED
    BY <1>3 DEF now, told

LEMMA CustodyPublish == ASSUME KeyInv, CustodyInv, Onward, NEW r \in Requests, PublishKey(r) PROVE CustodyInv'
<1>1. Lawful /\ job \in [Requests -> Job] /\ NoRequest \notin Requests
    BY Types, KeyAssumption DEF KeyInv, Lawful
<1>2. PICK old \in Job : old = job[r] /\ old.at = "rewrapping"
    BY <1>1 DEF PublishKey
<1>3. /\ old.id \in KeyIds /\ old.id # Configured /\ Loadable(old.id)
      /\ \A x \in Kept(old.found) : rows[x] # NoRow /\ old.found[x].token = rows[x].token
      /\ ~mixed /\ ~misled => Kept(old.found) = Kept(rows)
      /\ old.found \in [Records -> Row]
    BY <1>2 DEF Job, CustodyInv, Fine, Handy, Pending, Moving
<1> DEFINE keys == [kid \in KeyIds |-> IF Loadable(kid) THEN Opened(kid, old.pass) ELSE 0]
           new == [old EXCEPT !.at = "reloading", !.pass = NoPassphrase, !.auto = FALSE, !.keys = keys]
           table == [x \in Records |-> IF old.found[x] = NoRow THEN rows[x]
                                         ELSE Rewrapped(old.found[x], old.id, files[old.id].key)]
<1>4. /\ job' = [job EXCEPT ![r] = new] /\ UNCHANGED <<files, engine, mixed, misled>>
      /\ sched' = [saved |-> TRUE, last |-> "recent", current |-> old.id, auto |-> old.auto]
      /\ IF Kept(old.found) = {} THEN UNCHANGED tables ELSE Write(r, table)
    BY <1>2 DEF PublishKey, Carry, past
<1>5. new.at = "reloading" /\ new.keys = keys /\ new.id = old.id /\ new.found = old.found
    BY DEF Job
<1>6. keys[old.id] # 0
    BY <1>1, <1>3, StoredIsKey
<1>7. ASSUME NEW x \in Records
      PROVE  table[x] = IF x \in Kept(old.found)
                          THEN [label |-> old.id, wrap |-> files[old.id].key, token |-> rows[x].token]
                          ELSE rows[x]
  <2>1. CASE old.found[x] = NoRow
      BY <2>1 DEF Kept
  <2>2. CASE old.found[x] # NoRow
    <3>1. x \in Kept(old.found) /\ old.found[x] \in Row /\ old.found[x].token = rows[x].token
        BY <1>3, <2>2 DEF Kept
    <3>2. Rewrapped(old.found[x], old.id, files[old.id].key)
              = [label |-> old.id, wrap |-> files[old.id].key, token |-> old.found[x].token]
      <4>1. files[old.id].key \in Key
          BY <1>1, <1>3, Types DEF Lawful
      <4> QED
          BY <1>3, <3>1, <4>1, RewrappedIs
    <3> QED
        BY <2>2, <3>1, <3>2
  <2> QED
      BY <2>1, <2>2
<1> HIDE DEF keys, table
<1>8. PICK after : /\ after = new /\ after.at = "reloading" /\ after.id = old.id
                   /\ after.found = old.found /\ after.keys[after.id] # 0
    BY <1>5, <1>6
<1> HIDE DEF new
<1>9. rows' = rows /\ (\/ draft' = draft /\ writer' = writer /\ Kept(old.found) = {}
                       \/ draft' = table /\ writer' = r)
    BY <1>4 DEF Write, tables
<1>10. job'[r] = after /\ \A q \in Requests \ {r} : job'[q] = job[q]
    BY <1>1, <1>4, <1>8
<1>11. ASSUME writer' = r PROVE Turns(draft, Kept(job[r].found))'
  <2>1. draft' = table
    <3>1. writer # r
        BY <1>1, <1>2 DEF Lawful, Ends
    <3> QED
        BY <1>9, <1>11, <3>1
  <2>2. Loadable(old.id)' /\ files' = files
      BY <1>3, <1>4 DEF Loadable
  <2>3. (Kept(job[r].found))' = Kept(old.found)
      BY <1>10, <1>8 DEF Kept
  <2>4. \A x \in Records : draft'[x] = IF x \in Kept(old.found)
            THEN [label |-> old.id, wrap |-> files'[old.id].key, token |-> rows'[x].token]
            ELSE rows'[x]
      BY <1>7, <1>9, <2>1, <2>2
  <2> QED
      BY <1>3, <2>2, <2>3, <2>4 DEF Turns
<1>12. /\ \A x \in Kept(after.found) : rows'[x] # NoRow /\ after.found[x].token = rows'[x].token
       /\ ~mixed' /\ ~misled' => Kept(after.found) = Kept(rows)'
    BY <1>3, <1>4, <1>9, <1>8 DEF Kept
<1>13. sched'.last # "none" /\ sched'.saved
    BY <1>4
<1>14. Handy(after)'
    BY <1>12, <1>8 DEF Handy, Pending, Kept
<1>15. Fine(r)'
    BY <1>10, <1>11, <1>13, <1>14, <1>8 DEF Fine
<1>16. EngineFine' /\ SchedFine'
    BY <1>4, <1>13 DEF CustodyInv, EngineFine, SchedFine
<1> QED
    BY <1>9, <1>10, <1>15, <1>16, CustodyRequest

LEMMA CustodyInstallAll == ASSUME KeyInv, CustodyInv, Onward, NEW r \in Requests, InstallAll(r) PROVE CustodyInv'
<1>1. job \in [Requests -> Job]
    BY Types DEF KeyInv, Lawful
<1>2. PICK old \in Job : old = job[r] /\ old.at = "reloading"
    BY <1>1 DEF InstallAll
<1> DEFINE new == [NoJob EXCEPT !.at = "committing", !.found = old.found]
<1>3. new.at = "committing" /\ new.found = old.found
    BY DEF NoJob
<1>4. /\ job' = [job EXCEPT ![r] = new] /\ engine' = [id |-> old.id, keys |-> old.keys]
      /\ UNCHANGED <<files, sched, rows, draft, writer>>
    BY <1>2 DEF InstallAll, Carry, disk, tables
<1> HIDE DEF new
<1>5. job'[r] = new /\ \A q \in Requests \ {r} : job'[q] = job[q]
    BY <1>1, <1>4
<1>6. /\ old.keys[old.id] # 0 /\ sched.last # "none"
      /\ \A x \in Kept(old.found) : rows[x] # NoRow /\ old.found[x].token = rows[x].token
      /\ ~mixed /\ ~misled => Kept(old.found) = Kept(rows)
      /\ writer = r => Turns(draft, Kept(old.found))
    BY <1>2 DEF CustodyInv, Fine, Handy, Moving, Rotating, Rotate, Published
<1>7. ASSUME writer' = r PROVE Turns(draft, Kept(job[r].found))'
  <2>1. PICK table, found : table = draft /\ found = Kept(old.found)
      OBVIOUS
  <2>2. Turns(table, found)'
      BY <1>4, <1>6, <1>7, <2>1, TurnsStays
  <2>3. table = draft' /\ found = (Kept(job[r].found))'
      BY <1>3, <1>4, <1>5, <2>1 DEF Kept
  <2> QED
      BY <2>2, <2>3
<1>8. Handy(new)'
    BY <1>3, <1>4, <1>6 DEF Handy, Pending, Moving, Kept, Onward
<1>9. Fine(r)'
    BY <1>3, <1>4, <1>5, <1>6, <1>7, <1>8 DEF Fine
<1>10. EngineFine'
  <2>1. engine'.id = old.id /\ engine'.keys = old.keys
      BY <1>4
  <2> QED
      BY <1>6, <2>1 DEF EngineFine
<1>11. SchedFine'
    BY <1>4 DEF CustodyInv, SchedFine
<1> QED
    BY <1>4, <1>5, <1>9, <1>10, <1>11, CustodyRequest

LEMMA CustodyInstall == ASSUME KeyInv, CustodyInv, Onward, NEW r \in Requests, Install(r) PROVE CustodyInv'
<1>1. job \in [Requests -> Job] /\ active \in KeyIds /\ job[r].at = "installing" /\ job[r].key # 0
    BY Types DEF KeyInv, Lawful, Install
<1>2. /\ job' = [job EXCEPT ![r] = NoJob] /\ UNCHANGED <<sched, rows, draft, writer>>
      /\ engine' = [id |-> active, keys |-> [NoKeys EXCEPT ![active] = job[r].key]]
    BY DEF Install, Carry, disk, tables
<1>3. job'[r] = NoJob /\ \A q \in Requests \ {r} : job'[q] = job[q]
    BY <1>1, <1>2
<1>4. EngineFine'
  <2>1. engine'.id = active /\ engine'.keys = [NoKeys EXCEPT ![active] = job[r].key]
      BY <1>2
  <2>2. engine'.keys[engine'.id] = job[r].key
      BY <1>1, <2>1 DEF NoKeys
  <2> QED
      BY <1>1, <2>2 DEF EngineFine
<1>5. SchedFine'
    BY <1>2 DEF CustodyInv, SchedFine
<1> QED
    BY <1>2, <1>3, <1>4, <1>5, EndedFine, CustodyRequest

LEMMA CustodyFail == ASSUME KeyInv, CustodyInv, Onward, NEW r \in Requests, Fail(r) PROVE CustodyInv'
<1>1. /\ job' = [job EXCEPT ![r] = NoJob] /\ UNCHANGED <<sched, engine, rows>>
      /\ (writer' = writer /\ draft' = draft) \/ writer' = NoRequest
    BY DEF Fail, Rollback, Carry, disk, memory
<1>2. job'[r] = NoJob /\ \A q \in Requests \ {r} : job'[q] = job[q]
    BY <1>1, Types DEF KeyInv, Lawful
<1>3. EngineFine' /\ SchedFine'
    BY <1>1 DEF CustodyInv, EngineFine, SchedFine
<1> QED
    BY <1>1, <1>2, <1>3, EndedFine, CustodyRequest

(* A commit: a rotation under way with it is a mixed one. *)
LEMMA CustodyCommit ==
    ASSUME KeyInv, CustodyInv, Onward, NEW r \in Requests, Under(r), job' = [job EXCEPT ![r] = NoJob],
           UNCHANGED <<sched, engine>>, rows' = draft, writer' = NoRequest, RowsFine'
    PROVE  CustodyInv'
<1>1. Lawful /\ NoRequest \notin Requests /\ job \in [Requests -> Job]
    BY Types, KeyAssumption DEF KeyInv, Lawful
<1>2. job'[r] = NoJob /\ \A q \in Requests \ {r} : job'[q] = job[q]
    BY <1>1
<1>3. ASSUME NEW q \in Requests \ {r} PROVE LeftAlone(q)
  <2>1. mixed' \/ misled' \/ ~Moving(job[q])
      BY DEF Onward, KeyInv, Sound, Alone, Rotating, Rotate, Moving
  <2> QED
      BY <1>1, <1>2, <2>1 DEF LeftAlone
<1>4. EngineFine' /\ SchedFine'
    BY DEF CustodyInv, EngineFine, SchedFine
<1> QED
    BY <1>1, <1>2, <1>3, <1>4, EndedFine, CustodyStep

LEMMA CustodyCommitPut == ASSUME KeyInv, CustodyInv, Onward, NEW r \in Requests, CommitPut(r) PROVE CustodyInv'
<1>1. /\ job' = [job EXCEPT ![r] = NoJob] /\ rows' = draft /\ writer' = NoRequest
      /\ UNCHANGED <<sched, engine>> /\ Under(r)
    BY DEF CommitPut, Carry, disk, memory, Under
<1>2. RowsFine'
    BY PutCommits, AddsKeepRows DEF KeyInv
<1> QED
    BY <1>1, <1>2, CustodyCommit

LEMMA CustodyCommitRotation ==
    ASSUME KeyInv, CustodyInv, Onward, NEW r \in Requests, CommitRotation(r)
    PROVE  CustodyInv'
<1>1. job' = [job EXCEPT ![r] = NoJob] /\ UNCHANGED <<memory, sched>> /\ Under(r)
    BY DEF CommitRotation, Carry, disk, Under
<1>2. CASE UNCHANGED tables
  <2>1. job'[r] = NoJob
      BY <1>1, Types DEF KeyInv, Lawful
  <2> QED
      BY <1>1, <1>2, <2>1, EndedFine, CustodyHand
<1>3. CASE Turns(draft, Kept(job[r].found)) /\ rows' = draft /\ writer' = NoRequest /\ writer = r
  <2>1. RowsFine'
      BY <1>3, TurnsKeepRows DEF KeyInv
  <2> QED
      BY <1>1, <1>3, <2>1, CustodyCommit DEF memory
<1> QED
    BY <1>2, <1>3, RotationCommits

LEMMA CustodyCrash == ASSUME KeyInv, CustodyInv, Crash PROVE CustodyInv'
<1>1. /\ job' = [r \in Requests |-> NoJob] /\ UNCHANGED <<sched, rows>> /\ engine' = NoEngine
    BY DEF Crash
<1>2. \A q \in Requests : Fine(q)'
    BY <1>1, EndedFine
<1>3. RowsFine' /\ EngineFine' /\ SchedFine'
    BY <1>1 DEF CustodyInv, RowsFine, EngineFine, SchedFine
<1> QED
    BY <1>2, <1>3 DEF CustodyInv

LEMMA CustodyInit == Init => CustodyInv
<1> SUFFICES ASSUME Init PROVE CustodyInv
    OBVIOUS
<1>1. /\ \A q \in Requests : job[q] = NoJob /\ job[q].at = "idle"
      /\ engine = NoEngine /\ \A x \in Records : rows[x] = NoRow
    BY NoJobIsJob DEF Init
<1>2. \A q \in Requests : Fine(q)
    BY <1>1 DEF Fine, Handy, Pending, Moving, Rotating, Rotate, Published
<1>3. SchedFine
  <2>1. NoState.last = "none" /\ [NoState EXCEPT !.saved = TRUE, !.last = "old", !.auto = TRUE].saved
      BY DEF NoState
  <2> QED
      BY <2>1 DEF Init, SchedFine
<1> QED
    BY <1>1, <1>2, <1>3 DEF CustodyInv, RowsFine, EngineFine

LEMMA CustodyHolds == KeyInv /\ CustodyInv /\ [Next]_vars => CustodyInv'
<1> SUFFICES ASSUME KeyInv, CustodyInv, [Next]_vars PROVE CustodyInv'
    OBVIOUS
<1>1. Onward
    BY OnwardAlways
<1>2. CASE CliCreate \/ RotatePassphrase \/ SealKey \/ SplitKey \/ Configure \/ IntervalPasses \/ UNCHANGED vars
    BY <1>1, <1>2, CustodyCommands
<1>3. CASE Crash
    BY <1>3, CustodyCrash
<1>4. ASSUME NEW r \in Requests,
             \/ SetupKey(r) \/ UnlockKey(r) \/ UnsealKey(r) \/ CombineShares(r) \/ Install(r)
             \/ StartPut(r) \/ SealRecord(r) \/ InsertRow(r) \/ CommitPut(r)
      PROVE  CustodyInv'
    BY <1>1, <1>4, CustodyKeys, CustodyInstall, CustodyStartPut, CustodySeal, CustodyInsert, CustodyCommitPut
<1>5. ASSUME NEW r \in Requests,
             \/ StartRotation(r) \/ SelectRows(r) \/ SelectFails(r) \/ PublishKey(r)
             \/ InstallAll(r) \/ CommitRotation(r) \/ Fail(r)
      PROVE  CustodyInv'
    BY <1>1, <1>5, CustodyStartRotation, CustodySelect, CustodySelectFails, CustodyPublish,
       CustodyInstallAll, CustodyCommitRotation, CustodyFail
<1> QED
    BY <1>2, <1>3, <1>4, <1>5 DEF Next


-----------------------------------------------------------------------------
(* Every step is one of Custody. *)

FileOf == [kid \in KeyIds |-> [key |-> files[kid].key, whole |-> Loadable(kid)]]
Clean  == ~mixed /\ ~misled
Seeded == sched.last # "none"

LEMMA FileOfIs ==
    ASSUME NEW kid \in KeyIds
    PROVE  FileOf[kid].key = files[kid].key /\ (FileOf[kid].whole <=> Loadable(kid))
<1>1. FileOf[kid] = [key |-> files[kid].key, whole |-> Loadable(kid)]
    BY DEF FileOf
<1> QED
    BY <1>1

(* A name without a key. *)
LEMMA NoFileIs ==
    ASSUME NEW kid \in KeyIds, files[kid].key = 0
    PROVE  FileOf[kid] = Promise!NoFile
<1>1. ~Loadable(kid)
    BY DEF Loadable
<1>2. Loadable(kid) = FALSE
    BY <1>1
<1>3. FileOf[kid] = [key |-> files[kid].key, whole |-> Loadable(kid)]
    BY DEF FileOf
<1> QED
    BY <1>2, <1>3 DEF Promise!NoFile

LEMMA CustodyUnused ==
    ASSUME KeyInv, LossInv, NEW k \in made + 1 .. MaxKeys
    PROVE  Promise!Unused(k)
<1>1. /\ \A kid \in KeyIds : files[kid].key # k
      /\ \A x \in Records : rows[x].wrap # k /\ rows[x].token # k
    BY FreshIsOther DEF Unseen, Unwrapped
<1> QED
    BY <1>1, FileOfIs DEF FileOf, Promise!Unused

(* A key that comes under a name, there or over another one. *)
LEMMA FileChanges ==
    ASSUME Lawful, Lawful', NEW kid \in KeyIds, \A other \in KeyIds \ {kid} : files'[other] = files[other]
    PROVE  \E f \in Promise!Filled(files'[kid].key) :
               /\ FileOf' = [FileOf EXCEPT ![kid] = f]
               /\ files'[kid] = Absent => f = Promise!NoFile
<1>1. PICK w \in BOOLEAN : w = Loadable(kid)'
  <2>1. CASE Loadable(kid)'
    <3>1. Loadable(kid)' = TRUE
        BY <2>1
    <3> QED
        BY <3>1
  <2>2. CASE ~Loadable(kid)'
    <3>1. Loadable(kid)' = FALSE
        BY <2>2
    <3> QED
        BY <3>1
  <2> QED
      BY <2>1, <2>2
<1> DEFINE f == [key |-> files'[kid].key, whole |-> w]
<1>2. f \in Promise!Filled(files'[kid].key)
    BY DEF Promise!Filled
<1>3. ASSUME NEW n \in KeyIds PROVE FileOf'[n] = [FileOf EXCEPT ![kid] = f][n]
  <2>1. CASE n = kid
      BY <1>1, <2>1 DEF FileOf
  <2>2. CASE n # kid
    <3>1. files'[n] = files[n]
        BY <2>2
    <3>2. FileOf'[n] = FileOf[n]
        BY <3>1 DEF FileOf, Loadable
    <3> QED
        BY <2>2, <3>2 DEF FileOf
  <2> QED
      BY <2>1, <2>2
<1>4. FileOf' = [FileOf EXCEPT ![kid] = f]
    BY <1>3 DEF FileOf
<1>5. files'[kid] = Absent => f = Promise!NoFile
  <2>1. SUFFICES ASSUME files'[kid] = Absent PROVE f = Promise!NoFile
      OBVIOUS
  <2>2. files'[kid].key = 0 /\ ~Loadable(kid)'
      BY <2>1 DEF Absent, Loadable
  <2>3. w = FALSE
      BY <1>1, <2>2
  <2> QED
      BY <2>2, <2>3 DEF Promise!NoFile
<1> QED
    BY <1>2, <1>4, <1>5

LEMMA CreateIsMake ==
    ASSUME KeyInv, KeyInv', LossInv, NEW kid \in KeyIds, NEW p \in Passphrases, NEW whole \in BOOLEAN,
           Create(kid, p, whole), rows' = rows
    PROVE  Promise!Make(kid)
<1>1. /\ made + 1 \in made + 1 .. MaxKeys /\ files[kid].key = 0 /\ files'[kid].key = made + 1
      /\ \A b \in KeyIds \ {kid} : files'[b] = files[b]
    BY CreatedFiles
<1>2. made + 1 \in Key \ {0}
    BY Created DEF KeyInv
<1>3. Promise!Unused(made + 1)
    BY <1>1, CustodyUnused
<1>4. PICK f \in Promise!Filled(made + 1) : FileOf' = [FileOf EXCEPT ![kid] = f]
    BY <1>1, FileChanges DEF KeyInv
<1>5. FileOf[kid] = Promise!NoFile
    BY <1>1, NoFileIs
<1> QED
    BY <1>2, <1>3, <1>4, <1>5 DEF FileOf, Promise!Make

LEMMA PassphraseIsReissue ==
    ASSUME KeyInv, KeyInv', LossInv, RotatePassphrase
    PROVE  Promise!Reissue
<1>1. PICK p \in Passphrases, outcome \in Outcomes : Reissue(p, outcome)
    BY DEF RotatePassphrase
<1>2. Loadable(Configured) /\ ~Clean' /\ rows' = rows
    BY DEF RotatePassphrase, Clean, tables
<1>3. files \in [KeyIds -> File] /\ Configured \in KeyIds /\ made \in Nat /\ MaxKeys \in Nat
    BY Types, KeyAssumption DEF KeyInv, Lawful
<1>4. \A other \in KeyIds \ {Configured} : files'[other] = files[other]
    BY <1>1, <1>3 DEF Reissue
<1>5. PICK f \in Promise!Filled(files'[Configured].key) :
           /\ FileOf' = [FileOf EXCEPT ![Configured] = f]
           /\ files'[Configured] = Absent => f = Promise!NoFile
    BY <1>3, <1>4, FileChanges DEF KeyInv
<1>6. FileOf[Configured].whole
    BY <1>2, <1>3, FileOfIs
<1>7. CASE outcome = "gone"
  <2>1. files'[Configured] = Absent
      BY <1>1, <1>3, <1>7 DEF Reissue
  <2>2. FileOf' = [FileOf EXCEPT ![Configured] = Promise!NoFile]
      BY <1>5, <2>1
  <2> QED
      BY <1>2, <1>6, <2>2 DEF FileOf, Clean, Promise!Reissue
<1>8. CASE outcome # "gone"
  <2>1. files'[Configured].key = made + 1 /\ made < MaxKeys
      BY <1>1, <1>3, <1>8 DEF Reissue
  <2>2. made + 1 \in made + 1 .. MaxKeys
      BY <1>3, <2>1
  <2>3. Promise!Unused(made + 1)
      BY <2>2, CustodyUnused
  <2>4. made + 1 \in Key \ {0}
      BY <1>3, <2>2 DEF Key
  <2> QED
      BY <1>2, <1>5, <1>6, <2>1, <2>3, <2>4 DEF FileOf, Clean, Promise!Reissue
<1> QED
    BY <1>7, <1>8

LEMMA CommitIsPut ==
    ASSUME KeyInv, KeyInv', CustodyInv, NEW r \in Requests, CommitPut(r)
    PROVE  \E x \in Records : Promise!Put(x)
<1>1. Adds(draft) /\ rows' = draft /\ UNCHANGED files
    BY PutCommits DEF CommitPut, disk
<1>2. PICK x \in Records, row \in Row : rows[x] = NoRow /\ PutRow(row) /\ draft = [rows EXCEPT ![x] = row]
    BY <1>1 DEF Adds
<1> DEFINE n == row.label
           k == row.wrap
<1>3. row = [label |-> n, wrap |-> k, token |-> k] /\ n \in KeyIds /\ k \in Key \ {0}
    BY <1>2 DEF Row, PutRow
<1>4. ASSUME Clean' PROVE FileOf[n].whole /\ FileOf[n].key = k
  <2>1. rows'[x] = row /\ row # NoRow
      BY <1>1, <1>2, Types DEF KeyInv, Lawful, PutRow, NoRow
  <2>2. Told(rows[x])'
      BY <1>4, <2>1 DEF Clean, KeyInv, Sound, Kept
  <2>3. k = Stored(n)
      BY <1>1, <2>1, <2>2 DEF Told, Stored, Loadable
  <2> QED
      BY <1>3, <2>3, FileOfIs DEF Stored
<1>5. rows' = [rows EXCEPT ![x] = [label |-> n, wrap |-> k, token |-> k]]
    BY <1>1, <1>2, <1>3
<1>6. FileOf' = FileOf
    BY <1>1 DEF FileOf, Loadable
<1>7. rows[x] = Promise!None
    BY <1>2 DEF NoRow, Promise!None
<1> QED
    BY <1>3, <1>4, <1>5, <1>6, <1>7 DEF FileOf, Clean, Promise!Put, Promise!Holds

LEMMA CommitIsRewrap ==
    ASSUME KeyInv, KeyInv', LossInv, CustodyInv, Onward, NEW r \in Requests, CommitRotation(r), rows' # rows
    PROVE  \E n \in KeyIds, k \in Key \ {0} : \E found \in SUBSET Promise!Held : Promise!Rewrap(n, k, found)
<1> DEFINE found == Kept(job[r].found)
<1>1. Turns(draft, found) /\ rows' = draft /\ writer = r
    BY RotationCommits DEF tables
<1>2. PICK n \in KeyIds \ {Configured} :
        /\ Loadable(n)
        /\ \A x \in Records : draft[x] = IF x \in found
               THEN [label |-> n, wrap |-> files[n].key, token |-> rows[x].token]
               ELSE rows[x]
    BY <1>1 DEF Turns
<1> DEFINE k == files[n].key
<1>3. k \in Key \ {0} /\ UNCHANGED files
    BY <1>2, Types DEF KeyInv, Lawful, Loadable, CommitRotation, disk
<1>4. job[r].at = "committing" /\ Fine(r)
    BY DEF CommitRotation, CustodyInv
<1>5. /\ Seeded /\ found \subseteq {x \in Records : rows[x] # NoRow}
      /\ Clean => found = {x \in Records : rows[x] # NoRow}
    BY <1>4 DEF Fine, Handy, Moving, Rotating, Rotate, Kept, Seeded, Clean
<1>6. Promise!Held = {x \in Records : rows[x] # NoRow}
    BY DEF Promise!Held, Promise!None, NoRow
<1>7. Clean' => found = Promise!Held
    BY <1>5, <1>6 DEF Onward, Clean
<1>8. \A x \in found : rows[x].token # k
  <2> SUFFICES ASSUME NEW x \in found PROVE rows[x].token # k
      OBVIOUS
  <2>1. Split(draft[x]) /\ x \in Records
      BY <1>1, <1>4 DEF LossInv, DraftFollows, Published, Kept
  <2>2. draft[x] = [label |-> n, wrap |-> k, token |-> rows[x].token]
      BY <1>2, <2>1
  <2>3. draft[x].wrap = k /\ draft[x].token = rows[x].token
      BY <2>2
  <2> QED
      BY <2>1, <2>3 DEF Split
<1>9. rows' = [x \in Records |-> IF x \in found THEN [label |-> n, wrap |-> k, token |-> rows[x].token]
                                                 ELSE rows[x]]
    BY <1>1, <1>2, Types DEF KeyInv, Lawful
<1>10. FileOf[n].whole /\ FileOf[n].key = k /\ FileOf' = FileOf
    BY <1>2, <1>3, FileOfIs DEF FileOf, Loadable
<1> HIDE DEF found, k
<1>11. Promise!Rewrap(n, k, found)
    BY <1>2, <1>5, <1>7, <1>8, <1>9, <1>10 DEF FileOf, Clean, Seeded, Promise!Rewrap, Promise!Holds
<1>12. found \in SUBSET Promise!Held
    BY <1>5, <1>6
<1> QED
    BY <1>2, <1>3, <1>11, <1>12

LEMMA FilesLeft == ASSUME files' = files PROVE FileOf' = FileOf
    BY DEF FileOf, Loadable

LEMMA InitIsCustody == Init => Promise!Init
<1> SUFFICES ASSUME Init PROVE Promise!Init
    OBVIOUS
<1>1. FileOf = [kid \in KeyIds |-> Promise!NoFile]
  <2>1. \A kid \in KeyIds : files[kid].key = 0
      BY DEF Init, Absent
  <2>2. \A kid \in KeyIds : FileOf[kid] = Promise!NoFile
      BY <2>1, NoFileIs
  <2> QED
      BY <2>2 DEF FileOf
<1>2. rows = [x \in Records |-> Promise!None]
    BY DEF Init, NoRow, Promise!None
<1>3. ~mixed /\ ~misled
    BY DEF Init
<1> QED
    BY <1>1, <1>2, <1>3 DEF FileOf, Promise!Init

(* What a step does to the files and the rows. *)
LEMMA CustodyMoves ==
    ASSUME KeyInv, KeyInv', LossInv, CustodyInv, Onward, [Next]_vars
    PROVE  \/ FileOf' = FileOf /\ rows' = rows
           \/ Promise!Reissue
           \/ \E n \in KeyIds : Promise!Make(n)
           \/ \E x \in Records : Promise!Put(x)
           \/ \E n \in KeyIds, k \in Key \ {0} : \E found \in SUBSET Promise!Held : Promise!Rewrap(n, k, found)
<1>1. active \in KeyIds /\ Configured \in KeyIds
    BY Types, KeyAssumption DEF KeyInv, Lawful
<1>2. CASE CliCreate
  <2>1. Promise!Make(Configured)
      BY <1>1, <1>2, CreateIsMake DEF CliCreate, tables
  <2> QED
      BY <1>1, <2>1
<1>3. CASE RotatePassphrase
    BY <1>3, PassphraseIsReissue
<1>4. CASE SealKey \/ SplitKey \/ Configure \/ IntervalPasses \/ UNCHANGED vars
  <2>1. files' = files /\ rows' = rows
      BY <1>4 DEF SealKey, SplitKey, Configure, IntervalPasses, vars, disk, tables
  <2> QED
      BY <2>1, FilesLeft
<1>5. CASE Crash
  <2>1. rows' = rows
      BY <1>5 DEF Crash
  <2>2. CASE files' = files
      BY <2>1, <2>2, FilesLeft
  <2>3. CASE files' # files
    <3>1. PICK kid \in KeyIds \ {Configured}, p \in Passphrases : Create(kid, p, FALSE)
        BY <1>5, <2>3 DEF Crash
    <3>2. Promise!Make(kid)
        BY <2>1, <3>1, CreateIsMake
    <3> QED
        BY <3>2
  <2> QED
      BY <2>2, <2>3
<1>6. ASSUME NEW r \in Requests, SetupKey(r) \/ StartRotation(r) PROVE \E n \in KeyIds : Promise!Make(n)
  <2>1. rows' = rows /\ \E kid \in KeyIds, p \in Passphrases : Create(kid, p, TRUE)
      BY <1>1, <1>6 DEF SetupKey, StartRotation, tables
  <2> QED
      BY <2>1, CreateIsMake
<1>7. ASSUME NEW r \in Requests, CommitPut(r) PROVE \E x \in Records : Promise!Put(x)
    BY <1>7, CommitIsPut
<1>8. ASSUME NEW r \in Requests, CommitRotation(r)
      PROVE  \/ FileOf' = FileOf /\ rows' = rows
             \/ \E n \in KeyIds, k \in Key \ {0} : \E found \in SUBSET Promise!Held : Promise!Rewrap(n, k, found)
  <2>1. files' = files
      BY <1>8 DEF CommitRotation, disk
  <2> QED
      BY <1>8, <2>1, CommitIsRewrap, FilesLeft
<1>9. ASSUME NEW r \in Requests,
             \/ UnlockKey(r) \/ UnsealKey(r) \/ CombineShares(r) \/ Install(r)
             \/ StartPut(r) \/ SealRecord(r) \/ InsertRow(r) \/ SelectRows(r) \/ SelectFails(r)
             \/ PublishKey(r) \/ InstallAll(r) \/ Fail(r)
      PROVE  files' = files /\ rows' = rows
    BY <1>9 DEF UnlockKey, UnsealKey, CombineShares, Install, StartPut, SealRecord, InsertRow,
       SelectRows, SelectFails, PublishKey, InstallAll, Fail, Rollback, Write, disk, tables
<1> QED
    BY <1>2, <1>3, <1>4, <1>5, <1>6, <1>7, <1>8, <1>9, FilesLeft DEF Next

LEMMA StepIsCustody ==
    ASSUME KeyInv, KeyInv', LossInv, CustodyInv, [Next]_vars
    PROVE  [Promise!Next]_<<FileOf, rows, Clean, Seeded>>
<1>1. Onward
    BY OnwardAlways
<1>2. Clean' \in BOOLEAN /\ (Clean' => Clean)
    BY <1>1 DEF Onward, Clean
<1>3. Seeded' = Seeded
  <2>1. Seeded' <=> Seeded
      BY <1>1, UnseededStays DEF Onward, Seeded
  <2> QED
      BY <2>1 DEF Seeded
<1>4. \/ FileOf' = FileOf /\ rows' = rows
      \/ Promise!Reissue
      \/ \E n \in KeyIds : Promise!Make(n)
      \/ \E x \in Records : Promise!Put(x)
      \/ \E n \in KeyIds, k \in Key \ {0} : \E found \in SUBSET Promise!Held : Promise!Rewrap(n, k, found)
    BY <1>1, CustodyMoves
<1> QED
    BY <1>2, <1>3, <1>4 DEF FileOf, Clean, Seeded, Promise!Next

CustodyAll == KeyInv /\ LossInv /\ CustodyInv

LEMMA CustodyInvariance == Spec => []CustodyAll
<1>1. Init => CustodyAll
    BY InitHolds, LossInit, CustodyInit DEF CustodyAll
<1>2. CustodyAll /\ [Next]_vars => CustodyAll'
    BY StepKeeps, LossStep, CustodyHolds DEF CustodyAll
<1> QED
    BY <1>1, <1>2, PTL DEF Spec

(* The key files and the records keep the promise of Custody, whatever requests
   overlap, roll back or die: a name gets a key once, only rotate_master_key
   takes one away, and rotate_all_records turns the records it found together to
   a key that the file of their label holds, all of the records as long as
   nobody gave cause for doubt. *)
THEOREM RotationImplementsCustody == Spec => ImplementsCustody
<1>1. Init => Promise!Init
    BY InitIsCustody
<1>2. CustodyAll /\ CustodyAll' /\ [Next]_vars => [Promise!Next]_<<FileOf, rows, Clean, Seeded>>
    BY StepIsCustody DEF CustodyAll
<1>3. CustodyAll /\ CustodyAll' /\ [Next]_vars =>
          [Promise!Next]_<<[kid \in KeyIds |-> [key |-> files[kid].key, whole |-> Loadable(kid)]],
                           rows, ~mixed /\ ~misled, sched.last # "none">>
    BY <1>2 DEF FileOf, Clean, Seeded
<1> QED
    BY <1>1, <1>3, CustodyInvariance, PTL DEF Spec, ImplementsCustody, Promise!Spec

(* No key file reads the record, now or later. *)
LEMMA MovesLoseForGood ==
    ASSUME KeyInv, KeyInv',
           \/ FileOf' = FileOf /\ rows' = rows
           \/ Promise!Reissue
           \/ \E n \in KeyIds : Promise!Make(n)
           \/ \E x \in Records : Promise!Put(x)
           \/ \E n \in KeyIds, k \in Key \ {0} : \E found \in SUBSET Promise!Held : Promise!Rewrap(n, k, found),
           NEW y \in Promise!Held, ~Promise!Legible(y)
    PROVE  ~Promise!Legible(y)'
<1> DEFINE row == rows[y]
           Reads(file, one) == one.token = one.wrap /\ file[one.label].whole /\ file[one.label].key = one.wrap
<1>1. /\ y \in Records /\ row \in Row /\ row.label \in KeyIds /\ Configured \in KeyIds
      /\ rows \in [Records -> Row]
  <2>1. y \in Records /\ rows \in [Records -> Row] /\ Configured \in KeyIds
      BY Types, KeyAssumption DEF KeyInv, Lawful, Promise!Held
  <2> QED
      BY <2>1 DEF Row
<1>2. /\ Promise!Legible(y) <=> Reads(FileOf, row)
      /\ Promise!Legible(y)' <=> Reads(FileOf', rows'[y])
    BY DEF FileOf, Promise!Legible, Promise!Holds
<1>3. CASE FileOf' = FileOf /\ rows' = rows
    BY <1>2, <1>3
<1>4. ASSUME NEW n \in KeyIds, NEW f, FileOf' = [FileOf EXCEPT ![n] = f], rows' = rows,
             f.whole => Promise!Unused(f.key)
      PROVE  ~Promise!Legible(y)'
  <2>1. CASE row.label = n
    <3>1. FileOf'[n] = f
        BY <1>1, <1>4 DEF FileOf
    <3>2. f.whole => f.key # row.wrap
        BY <1>1, <1>4 DEF Promise!Unused
    <3> QED
        BY <1>2, <1>4, <2>1, <3>1, <3>2
  <2>2. CASE row.label # n
    <3>1. FileOf'[row.label] = FileOf[row.label]
        BY <1>1, <1>4, <2>2 DEF FileOf
    <3> QED
        BY <1>2, <1>4, <3>1
  <2> QED
      BY <2>1, <2>2
<1>5. CASE Promise!Reissue
  <2>1. CASE FileOf' = [FileOf EXCEPT ![Configured] = Promise!NoFile]
    <3>1. Promise!NoFile.whole = FALSE /\ rows' = rows
        BY <1>5 DEF Promise!NoFile, Promise!Reissue
    <3> QED
        BY <1>1, <1>4, <2>1, <3>1
  <2>2. ASSUME NEW k, NEW f \in Promise!Filled(k), Promise!Unused(k), FileOf' = [FileOf EXCEPT ![Configured] = f]
        PROVE  ~Promise!Legible(y)'
      BY <1>1, <1>4, <1>5, <2>2 DEF Promise!Filled, Promise!Reissue
  <2> QED
      BY <1>5, <2>1, <2>2 DEF FileOf, Promise!Reissue
<1>6. ASSUME NEW n \in KeyIds, Promise!Make(n) PROVE ~Promise!Legible(y)'
  <2>1. PICK k \in Key \ {0} :
           \E f \in Promise!Filled(k) : Promise!Unused(k) /\ FileOf' = [FileOf EXCEPT ![n] = f]
      BY <1>6 DEF FileOf, Promise!Make
  <2>2. PICK f \in Promise!Filled(k) : Promise!Unused(k) /\ FileOf' = [FileOf EXCEPT ![n] = f]
      BY <2>1
  <2> QED
      BY <1>4, <1>6, <2>2 DEF Promise!Filled, Promise!Make
<1>7. ASSUME NEW x \in Records, Promise!Put(x) PROVE ~Promise!Legible(y)'
  <2>1. rows'[y] = rows[y] /\ FileOf' = FileOf
      BY <1>1, <1>7 DEF FileOf, Promise!Put, Promise!Held
  <2> QED
      BY <1>2, <2>1
<1>8. ASSUME NEW n \in KeyIds, NEW k \in Key \ {0}, NEW found \in SUBSET Promise!Held, Promise!Rewrap(n, k, found)
      PROVE  ~Promise!Legible(y)'
  <2>1. FileOf' = FileOf
      BY <1>8 DEF FileOf, Promise!Rewrap
  <2>2. CASE y \in found
    <3>1. rows'[y] = [label |-> n, wrap |-> k, token |-> row.token] /\ row.token # k
        BY <1>1, <1>8, <2>2 DEF Promise!Rewrap
    <3>2. rows'[y].wrap = k /\ rows'[y].token = row.token
        BY <3>1
    <3> QED
        BY <1>2, <3>1, <3>2
  <2>3. CASE y \notin found
    <3>1. rows'[y] = rows[y]
        BY <1>1, <1>8, <2>3 DEF Promise!Rewrap
    <3> QED
        BY <1>2, <2>1, <3>1
  <2> QED
      BY <2>2, <2>3
<1> QED
    BY <1>3, <1>5, <1>6, <1>7, <1>8

(* A record that no key file can read is read by none later, whoever rotates,
   reissues, creates or puts, and whatever gave cause for doubt: no step of
   keystore.py, rotation.py or the routes is a way back. *)
THEOREM KeyLossIsFinal == Spec => Promise!LossIsFinal
<1>1. CustodyAll /\ CustodyAll' /\ [Next]_vars =>
          \A x \in Promise!Held : ~Promise!Legible(x) => ~Promise!Legible(x)'
    BY OnwardAlways, CustodyMoves, MovesLoseForGood DEF CustodyAll
<1>2. CustodyAll /\ CustodyAll' /\ [Next]_vars =>
          [\A x \in Promise!Held : ~Promise!Legible(x) => ~Promise!Legible(x)']_
              <<[kid \in KeyIds |-> [key |-> files[kid].key, whole |-> Loadable(kid)]],
                rows, ~mixed /\ ~misled, sched.last # "none">>
    BY <1>1
<1> QED
    BY <1>2, CustodyInvariance, PTL DEF Spec, Promise!LossIsFinal
=============================================================================
