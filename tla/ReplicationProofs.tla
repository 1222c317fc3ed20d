------------------------- MODULE ReplicationProofs -------------------------
(***************************************************************************)
(* What push replication guarantees for every set of records, standbys and *)
(* requests and every number of retries, whichever pushes and answers are  *)
(* lost, whichever requests fail and whenever the primary dies; and that   *)
(* it implements Delivery.                                                 *)
(***************************************************************************)
EXTENDS Replication, FiniteSetTheorems, WellFoundedInduction, TLAPS

-----------------------------------------------------------------------------
(* The inductive invariant. *)

(* The tables are records of four; a session is kept for each request. *)
Shaped(tabs) ==
    tabs = [row |-> tabs.row, node |-> tabs.node, logs |-> tabs.logs, dead |-> tabs.dead]
Shapes ==
    /\ Shaped(db) /\ Shaped(draft)
    /\ loaded = [r \in Requests |-> loaded[r]]
    /\ view = [r \in Requests |-> view[r]]
    /\ \A r \in Requests : DOMAIN loaded[r] \subseteq LogIds
    /\ \A r \in Requests : pc[r] = "idle" => DOMAIN view[r] = {}
    /\ posted \subseteq LogIds

(* A write holds the lock from its first DML on, and only those that have
   something to commit hold it. *)
Holders ==
    /\ \A r \in Requests : pc[r] \in {"wrote", "pushing"} => writer = r
    /\ writer # NoRequest => pc[writer] \in {"wrote", "pushing", "synced"}

(* A log row belongs to a write that is done, or that holds the lock. *)
Written(i) == pc[i[1]] = "done"
RowsOfWrites ==
    /\ \A i \in DOMAIN db.logs : Written(i)
    /\ \A i \in posted : Written(i)
    /\ \A i \in db.dead : i \in posted
    /\ \A i \in DOMAIN draft.logs : Written(i) \/ (i[1] = writer /\ pc[writer] # "wrote")
    /\ \A r \in Requests : \A i \in DOMAIN loaded[r] : Written(i)

(* What a request has still to do: to push rows it has not logged, to retry
   rows it loaded, to delete rows of others. *)
Tasks ==
    \A r \in Requests : \A i \in todo[r] :
        CASE pc[r] = "pushing" -> i[1] = r /\ i \notin DOMAIN draft.logs
          [] pc[r] \in {"loaded", "retrying", "fetched", "read"} -> i \in DOMAIN loaded[r]
          [] pc[r] \in {"resetting", "synced"} -> Written(i)
          [] OTHER -> FALSE

(* A row is about the record of its write, wherever it is kept. *)
Named ==
    /\ \A i \in DOMAIN db.logs : db.logs[i].record = rec[i[1]]
    /\ \A i \in DOMAIN draft.logs : draft.logs[i].record = rec[i[1]]
    /\ \A r \in Requests : \A i \in DOMAIN loaded[r] : loaded[r][i].record = rec[i[1]]
    /\ \A r \in Requests : \A i \in DOMAIN view[r] : view[r][i].record = rec[i[1]]

(* Acked rows are received, in the tables, for the holder of the lock and for
   a retry. *)
Received(log, i) == Acked(log) => log.record \in stored[i[2]]
AckedReceived ==
    /\ \A i \in DOMAIN db.logs : Received(db.logs[i], i)
    /\ \A i \in DOMAIN draft.logs : Received(draft.logs[i], i)
    /\ \A r \in Requests : \A i \in DOMAIN view[r] : Received(view[r][i], i)

(* A retry loads failed rows only. *)
LoadedFailed == \A r \in Requests : \A i \in DOMAIN loaded[r] : loaded[r][i].status = "failed"

(* What the holder of the lock is about to commit undoes no ack, and takes
   rows out of the log only as dead letters or for a reset. *)
DraftKeeps ==
    /\ db.dead \subseteq draft.dead
    /\ \A i \in draft.dead : Written(i) \/ i[1] = writer
    /\ \A i \in DOMAIN db.logs \cap DOMAIN draft.logs : Acked(db.logs[i]) => Acked(draft.logs[i])
    /\ \A i \in DOMAIN db.logs \ DOMAIN draft.logs :
          i \in draft.dead \/ (pc[writer] = "synced" /\ i \in todo[writer])

(* Only a write that is still pushing may have exhausted rows in the log. *)
Spent(log) == log.status = "failed" /\ log.retries >= RetryMax
NoneSpent ==
    /\ \A i \in DOMAIN db.logs : ~Spent(db.logs[i])
    /\ \A i \in DOMAIN draft.logs : Spent(draft.logs[i]) => i[1] = writer /\ pc[writer] = "pushing"

(* Sequence numbers start at one and are unique.  The holder of the lock
   renumbers no committed row, and numbers its own above them. *)
Numerable(logs) == IsFiniteSet(DOMAIN logs) /\ \A i \in DOMAIN logs : logs[i].seq # 0
Numbered ==
    /\ Numerable(db.logs) /\ Numerable(draft.logs)
    /\ SeqUnique
    /\ \A i, j \in DOMAIN draft.logs : draft.logs[i].seq = draft.logs[j].seq => i = j
    /\ \A i \in DOMAIN db.logs \cap DOMAIN draft.logs : draft.logs[i].seq = db.logs[i].seq
    /\ \A i \in DOMAIN draft.logs \ DOMAIN db.logs, j \in DOMAIN db.logs \cap DOMAIN draft.logs :
          db.logs[j].seq < draft.logs[i].seq

(* As long as no row was taken out of the log, no cursor is beyond it. *)
Followed ==
    /\ FeedOrdered
    /\ db.dead = {} /\ cleared = {} =>
          \A n \in Nodes : \/ cursor[n] = 0
                          \/ \E i \in DOMAIN db.logs : cursor[n] <= db.logs[i].seq

ReplInv ==
    /\ TypeOK
    /\ Shapes
    /\ Holders
    /\ RowsOfWrites
    /\ Tasks
    /\ Named
    /\ AckedReceived
    /\ LoadedFailed
    /\ DraftKeeps
    /\ NoneSpent
    /\ NoSilentLoss
    /\ Numbered
    /\ Followed

-----------------------------------------------------------------------------
(* Inclusion of finite sets is well-founded: were there finite sets without a
   greatest element, a smallest of them would be one element more than a set
   that has one. *)
LEMMA GreatestExists ==
    ASSUME NEW S \in SUBSET Nat, IsFiniteSet(S), S # {}
    PROVE  \E x \in S : \A y \in S : x >= y
<1> DEFINE Bad == {U \in SUBSET S : U # {} /\ \A x \in U : \E y \in U : ~(x >= y)}
<1>1. SUFFICES ASSUME S \in Bad PROVE FALSE
    OBVIOUS
<1>2. \A U \in SUBSET S : IsFiniteSet(U)
    BY FS_Subset
<1>3. Bad \subseteq FiniteSubsetsOf(S)
    BY <1>2 DEF FiniteSubsetsOf
<1>4. IsWellFoundedOn(StrictSubsetOrdering(S), FiniteSubsetsOf(S))
    BY FS_StrictSubsetOrderingWellFounded
<1>5. PICK U \in Bad : \A V \in Bad : <<V, U>> \notin StrictSubsetOrdering(S)
  <2> HIDE DEF Bad
  <2> QED
    BY <1>1, <1>3, <1>4, WFMin
<1>6. PICK x \in U : TRUE
    BY <1>5
<1>7. U \ {x} \notin Bad
    BY <1>5, <1>6 DEF StrictSubsetOrdering
<1>8. CASE U \ {x} = {}
    BY <1>5, <1>6, <1>8
<1>9. CASE \E z \in U \ {x} : \A y \in U \ {x} : z >= y
  <2>1. PICK z \in U \ {x} : \A y \in U \ {x} : z >= y
    BY <1>9
  <2>2. \A y \in U : IF z >= x THEN z >= y ELSE x >= y
    BY <2>1, <1>5
  <2> QED
    BY <2>1, <2>2, <1>5, <1>6
<1> QED
    BY <1>5, <1>6, <1>7, <1>8, <1>9

(* The highest number of a finite log: it is a number, none is above it, and
   it is zero or that of a row. *)
LEMMA Highest ==
    ASSUME NEW logs, IsFiniteSet(DOMAIN logs),
           \A i \in DOMAIN logs : logs[i].seq \in Nat
    PROVE  /\ HighestSeq(logs) \in Nat
           /\ \A i \in DOMAIN logs : logs[i].seq <= HighestSeq(logs)
           /\ \/ HighestSeq(logs) = 0
              \/ \E i \in DOMAIN logs : HighestSeq(logs) = logs[i].seq
<1> DEFINE Seqs == {logs[i].seq : i \in DOMAIN logs}
           S == {0} \cup Seqs
           f == [i \in DOMAIN logs |-> logs[i].seq]
<1>1. f \in Surjection(DOMAIN logs, Seqs)
    BY DEF Surjection
<1>2. IsFiniteSet(Seqs)
  <2> HIDE DEF f, Seqs
  <2> QED
    BY <1>1, FS_Surjection
<1>3. IsFiniteSet(S)
  <2> HIDE DEF Seqs
  <2>1. IsFiniteSet({0})
    BY FS_Singleton
  <2> QED
    BY <1>2, <2>1, FS_Union
<1>4. S \in SUBSET Nat /\ S # {}
    OBVIOUS
<1>5. \E x \in S : \A y \in S : x >= y
  <2> HIDE DEF S
  <2> QED
    BY <1>3, <1>4, GreatestExists
<1>6. HighestSeq(logs) \in S /\ \A y \in S : HighestSeq(logs) >= y
  <2>1. HighestSeq(logs) = CHOOSE x \in S : \A y \in S : x >= y
    BY DEF HighestSeq, Max
  <2> HIDE DEF S
  <2> QED
    BY <1>5, <2>1
<1>7. \A y \in S : y \in Nat
    OBVIOUS
<1> QED
    BY <1>6, <1>7

(* Emptiness, and what _process_dead_letter leaves. *)

LEMMA NoRowsInNoLogs == DOMAIN NoLogs = {}
    BY DEF NoLogs

LEMMA DeadLettersTaken ==
    ASSUME NEW tabs, NEW seen, Shaped(tabs)
    PROVE  LET now  == WithDeadLetters(tabs, seen)
               dead == {i \in DOMAIN seen : Exhausted(seen[i])}
           IN  /\ Shaped(now)
               /\ now.row = tabs.row /\ now.node = tabs.node
               /\ now.dead = tabs.dead \cup dead
               /\ DOMAIN now.logs = DOMAIN tabs.logs \ dead
               /\ \A i \in DOMAIN now.logs : now.logs[i] = tabs.logs[i]
<1> DEFINE dead == {i \in DOMAIN seen : Exhausted(seen[i])}
           kept == [i \in DOMAIN tabs.logs \ dead |-> tabs.logs[i]]
<1>1. WithDeadLetters(tabs, seen) = [tabs EXCEPT !.dead = @ \cup dead, !.logs = kept]
    BY DEF WithDeadLetters, Shaped, Restrict
<1> HIDE DEF dead
<1>2. WithDeadLetters(tabs, seen) = [row |-> tabs.row, node |-> tabs.node,
                                    logs |-> kept, dead |-> tabs.dead \cup dead]
  <2> HIDE DEF kept
  <2> QED
    BY <1>1 DEF Shaped
<1>3. DOMAIN kept = DOMAIN tabs.logs \ dead /\ \A i \in DOMAIN kept : kept[i] = tabs.logs[i]
    OBVIOUS
<1> HIDE DEF kept
<1> QED
    BY <1>2, <1>3 DEF Shaped, dead

-----------------------------------------------------------------------------
(* Every step keeps the invariant.  First the ends of requests that fail. *)

LEMMA GivenUpKeeps ==
    ASSUME NEW r \in Requests, NEW how \in {"failed", "unnumbered"},
           ReplInv, pc[r] \in Active, Rollback(r), Leave(r, how),
           UNCHANGED <<blobs, stored, rec, feed, past>>
    PROVE  ReplInv'
<1>1. /\ pc' = [pc EXCEPT ![r] = how]
      /\ todo' = [todo EXCEPT ![r] = {}]
      /\ loaded' = [loaded EXCEPT ![r] = NoLogs]
      /\ view' = [view EXCEPT ![r] = NoLogs]
      /\ peers' = [peers EXCEPT ![r] = NoPeers]
      /\ UNCHANGED <<db, blobs, stored, rec, cursor, pulled, posted, cleared>>
    BY DEF Leave, Goto, feed, past, Rollback
<1>2. \/ writer' = NoRequest /\ draft' = db /\ db' = db /\ writer = r
      \/ writer' = writer /\ draft' = draft /\ db' = db /\ writer # r
    BY DEF Rollback
<1>3. DOMAIN NoLogs = {}
    BY NoRowsInNoLogs
<1>4. pc[r] \in Active /\ how \in {"failed", "unnumbered"} /\ NoRequest \notin Requests
    BY ReplicationAssumption
<1>5. \A q \in Requests : /\ loaded'[q] = IF q = r THEN NoLogs ELSE loaded[q]
                          /\ view'[q] = IF q = r THEN NoLogs ELSE view[q]
    BY <1>1 DEF ReplInv, Shapes
<1>6. TypeOK'
  <2>1. TablesOK(db') /\ TablesOK(draft')
    BY <1>1, <1>2, <1>3, <1>4 DEF ReplInv, TypeOK, TablesOK
  <2>2. /\ writer' \in Requests \cup {NoRequest}
        /\ writer' = NoRequest => draft' = db'
    BY <1>1, <1>2, <1>3, <1>4 DEF ReplInv, TypeOK
  <2>3. writer' # NoRequest => pc'[writer'] \in Active
    BY <1>1, <1>2, <1>3, <1>4 DEF ReplInv, TypeOK, Holders, Active
  <2>4. /\ blobs' \subseteq Records
        /\ stored' \in [Nodes -> SUBSET Records]
        /\ rec' \in [Requests -> Records]
    BY <1>1, <1>2, <1>3, <1>4 DEF ReplInv, TypeOK
  <2>5. pc' \in [Requests -> {"idle"} \cup Active \cup Ended]
    BY <1>1, <1>2, <1>3, <1>4 DEF ReplInv, TypeOK, Active, Ended
  <2>6. /\ todo' \in [Requests -> SUBSET LogIds]
        /\ cursor' \in [Nodes -> Nat] /\ pulled' \in [Nodes -> SUBSET LogIds]
    BY <1>1, <1>2, <1>3, <1>4 DEF ReplInv, TypeOK, TablesOK
  <2>7. peers' \in [Requests -> [Nodes -> NodeStatus]]
    BY <1>1, <1>2, <1>3, <1>4 DEF ReplInv, TypeOK, NoPeers, NodeStatus
  <2>8. /\ \A q \in Requests : DOMAIN view'[q] \subseteq DOMAIN loaded'[q]
        /\ \A q \in Requests : \A i \in DOMAIN loaded'[q] : loaded'[q][i] \in Log
        /\ \A q \in Requests : \A i \in DOMAIN view'[q] : view'[q][i] \in Log
    BY <1>3, <1>5 DEF ReplInv, TypeOK
  <2> QED
    BY <2>1, <2>2, <2>3, <2>4, <2>5, <2>6, <2>7, <2>8 DEF TypeOK
<1>7. Shapes'
    BY <1>1, <1>2, <1>3, <1>4, <1>5 DEF ReplInv, Shapes, TypeOK, TablesOK
<1>8. Holders'
    BY <1>1, <1>2, <1>3, <1>4, <1>5 DEF ReplInv, Holders, TypeOK, TablesOK,
       Shapes, RowsOfWrites, Written, Tasks, Named, DraftKeeps, AckedReceived,
       Received, Acked, NoneSpent, Spent, LoadedFailed, Numbered, Active,
       LogIds, Log
<1>9. RowsOfWrites'
    BY <1>1, <1>2, <1>3, <1>4, <1>5 DEF ReplInv, RowsOfWrites, Written,
       TypeOK, TablesOK, Shapes, Holders, Tasks, Active, LogIds
<1>10. Tasks'
  <2> SUFFICES ASSUME NEW q \in Requests, NEW i \in todo'[q]
               PROVE  CASE pc'[q] = "pushing" -> i[1] = q /\ i \notin DOMAIN draft'.logs
                        [] pc'[q] \in {"loaded", "retrying", "fetched", "read"} -> i \in DOMAIN loaded'[q]
                        [] pc'[q] \in {"resetting", "synced"} -> Written(i)'
                        [] OTHER -> FALSE
    BY DEF Tasks
  <2>1. /\ q # r /\ i \in todo[q] /\ pc'[q] = pc[q] /\ loaded'[q] = loaded[q]
    BY <1>1, <1>5 DEF ReplInv, TypeOK
  <2>2. pc[q] = "pushing" => writer = q
    BY DEF ReplInv, Holders
  <2>3. Written(i) => Written(i)'
    BY <1>1, <1>4, <2>1 DEF ReplInv, TypeOK, Written, Active, LogIds
  <2>4. pc[q] = "pushing" => draft' = draft
    BY <1>2, <2>1, <2>2
  <2>5. CASE pc[q] = "pushing"
    BY <2>1, <2>4, <2>5 DEF ReplInv, Tasks
  <2>6. CASE pc[q] # "pushing"
    BY <2>1, <2>3, <2>6 DEF ReplInv, Tasks
  <2> QED
    BY <2>5, <2>6
<1>11. Named'
    BY <1>1, <1>2, <1>3, <1>4, <1>5 DEF ReplInv, Named
<1>12. AckedReceived'
    BY <1>1, <1>2, <1>3, <1>4, <1>5 DEF ReplInv, AckedReceived, Received,
       Acked
<1>13. LoadedFailed'
    BY <1>1, <1>2, <1>3, <1>4, <1>5 DEF ReplInv, LoadedFailed
<1>14. DraftKeeps'
    BY <1>1, <1>2, <1>3, <1>4, <1>5 DEF ReplInv, DraftKeeps, Acked, TypeOK,
       TablesOK, Shapes, Holders, RowsOfWrites, Written, Tasks, Active, LogIds
<1>15. NoneSpent'
    BY <1>1, <1>2, <1>3, <1>4, <1>5 DEF ReplInv, NoneSpent, Spent
<1>16. NoSilentLoss'
    BY <1>1, <1>2, <1>3, <1>4, <1>5 DEF ReplInv, NoSilentLoss
<1>17. Numbered'
    BY <1>1, <1>2, <1>3, <1>4, <1>5 DEF ReplInv, Numbered, SeqUnique,
       Numerable
<1>18. Followed'
    BY <1>1, <1>2, <1>3, <1>4, <1>5 DEF ReplInv, Followed, FeedOrdered
<1> QED
    BY <1>6, <1>7, <1>8, <1>9, <1>10, <1>11, <1>12, <1>13, <1>14, <1>15,
       <1>16, <1>17, <1>18 DEF ReplInv

LEMMA CrashKeeps == ASSUME ReplInv, Crash PROVE ReplInv'
<1>1. /\ pc' = [r \in Requests |-> IF pc[r] \in Active THEN "lost" ELSE pc[r]]
      /\ todo' = [r \in Requests |-> {}]
      /\ loaded' = [r \in Requests |-> NoLogs]
      /\ view' = [r \in Requests |-> NoLogs]
      /\ peers' = [r \in Requests |-> NoPeers]
      /\ draft' = db /\ writer' = NoRequest
      /\ UNCHANGED <<db, blobs, stored, rec, cursor, pulled, posted, cleared>>
    BY DEF Crash, feed, past
<1>2. DOMAIN NoLogs = {}
    BY NoRowsInNoLogs
<1>3. TypeOK'
  <2>1. TablesOK(db') /\ TablesOK(draft')
    BY <1>1, <1>2 DEF ReplInv, TypeOK, TablesOK
  <2>2. /\ writer' \in Requests \cup {NoRequest}
        /\ writer' = NoRequest => draft' = db'
    BY <1>1, <1>2 DEF ReplInv, TypeOK
  <2>3. writer' # NoRequest => pc'[writer'] \in Active
    BY <1>1, <1>2 DEF ReplInv, TypeOK, Holders, Active
  <2>4. /\ blobs' \subseteq Records
        /\ stored' \in [Nodes -> SUBSET Records]
        /\ rec' \in [Requests -> Records]
    BY <1>1, <1>2 DEF ReplInv, TypeOK
  <2>5. pc' \in [Requests -> {"idle"} \cup Active \cup Ended]
    BY <1>1, <1>2 DEF ReplInv, TypeOK, Active, Ended
  <2>6. /\ todo' \in [Requests -> SUBSET LogIds]
        /\ cursor' \in [Nodes -> Nat] /\ pulled' \in [Nodes -> SUBSET LogIds]
    BY <1>1, <1>2 DEF ReplInv, TypeOK, TablesOK
  <2>7. peers' \in [Requests -> [Nodes -> NodeStatus]]
    BY <1>1, <1>2 DEF ReplInv, TypeOK, NoPeers, NodeStatus
  <2>8. /\ \A q \in Requests : DOMAIN view'[q] \subseteq DOMAIN loaded'[q]
        /\ \A q \in Requests : \A i \in DOMAIN loaded'[q] : loaded'[q][i] \in Log
        /\ \A q \in Requests : \A i \in DOMAIN view'[q] : view'[q][i] \in Log
    BY <1>1, <1>2 DEF ReplInv, TypeOK, Shapes
  <2> QED
    BY <2>1, <2>2, <2>3, <2>4, <2>5, <2>6, <2>7, <2>8 DEF TypeOK
<1>4. Shapes'
    BY <1>1, <1>2 DEF ReplInv, Shapes
<1>5. Holders'
    BY <1>1, <1>2 DEF ReplInv, Holders, TypeOK, TablesOK
<1>6. RowsOfWrites'
    BY <1>1, <1>2 DEF ReplInv, RowsOfWrites, Written, TypeOK, TablesOK,
       Shapes, Holders, Tasks, Active, LogIds
<1>7. Tasks'
    BY <1>1, <1>2 DEF ReplInv, Tasks, Written
<1>8. Named'
    BY <1>1, <1>2 DEF ReplInv, Named
<1>9. AckedReceived'
    BY <1>1, <1>2 DEF ReplInv, AckedReceived, Received, Acked
<1>10. LoadedFailed'
    BY <1>1, <1>2 DEF ReplInv, LoadedFailed
<1>11. DraftKeeps'
    BY <1>1, <1>2 DEF ReplInv, DraftKeeps, Acked, TypeOK, TablesOK, Shapes,
       Holders, RowsOfWrites, Written, Tasks, Active, LogIds
<1>12. NoneSpent'
    BY <1>1, <1>2 DEF ReplInv, NoneSpent, Spent
<1>13. NoSilentLoss'
    BY <1>1, <1>2 DEF ReplInv, NoSilentLoss
<1>14. Numbered'
    BY <1>1, <1>2 DEF ReplInv, Numbered, SeqUnique, Numerable
<1>15. Followed'
    BY <1>1, <1>2 DEF ReplInv, Followed, FeedOrdered
<1> QED
    BY <1>3, <1>4, <1>5, <1>6, <1>7, <1>8, <1>9, <1>10, <1>11, <1>12, <1>13,
       <1>14, <1>15 DEF ReplInv

-----------------------------------------------------------------------------
(* Writes of a record or of the states of nodes. *)

LEMMA AutocommitKeeps ==
    ASSUME ReplInv, NEW tabs, Autocommit(tabs), Shaped(tabs), TablesOK(tabs),
           tabs.logs = db.logs, tabs.dead = db.dead,
           NEW keep \in SUBSET Records, blobs' = keep,
           UNCHANGED <<stored, pc, locals, feed, past>>
    PROVE  ReplInv'
<1>1. /\ writer = NoRequest /\ writer' = NoRequest /\ draft = db
      /\ db' = tabs /\ draft' = tabs
      /\ UNCHANGED <<stored, pc, rec, todo, loaded, view, peers,
                     cursor, pulled, posted, cleared>>
    BY DEF Autocommit, locals, session, feed, past, ReplInv, TypeOK
<1>2. /\ Shaped(tabs) /\ TablesOK(tabs) /\ tabs.logs = db.logs /\ tabs.dead = db.dead
      /\ blobs' = keep /\ keep \subseteq Records
    OBVIOUS
<1>3. TypeOK'
    BY <1>1, <1>2 DEF ReplInv, TypeOK, TablesOK, Active, Ended
<1>4. Shapes'
    BY <1>1, <1>2 DEF ReplInv, Shapes
<1>5. Holders'
    BY <1>1, <1>2 DEF ReplInv, Holders
<1>6. RowsOfWrites'
    BY <1>1, <1>2 DEF ReplInv, RowsOfWrites, Written
<1>7. Tasks'
    BY <1>1, <1>2 DEF ReplInv, Tasks, Written
<1>8. Named'
    BY <1>1, <1>2 DEF ReplInv, Named
<1>9. AckedReceived'
    BY <1>1, <1>2 DEF ReplInv, AckedReceived, Received, Acked
<1>10. LoadedFailed'
    BY <1>1, <1>2 DEF ReplInv, LoadedFailed
<1>11. DraftKeeps'
    BY <1>1, <1>2 DEF ReplInv, DraftKeeps, Acked, TypeOK, TablesOK, Shapes,
       Holders, RowsOfWrites, Written
<1>12. NoneSpent'
    BY <1>1, <1>2 DEF ReplInv, NoneSpent, Spent
<1>13. NoSilentLoss'
    BY <1>1, <1>2 DEF ReplInv, NoSilentLoss
<1>14. Numbered'
    BY <1>1, <1>2 DEF ReplInv, Numbered, SeqUnique, Numerable
<1>15. Followed'
    BY <1>1, <1>2 DEF ReplInv, Followed, FeedOrdered
<1> QED
    BY <1>3, <1>4, <1>5, <1>6, <1>7, <1>8, <1>9, <1>10, <1>11, <1>12, <1>13,
       <1>14, <1>15 DEF ReplInv

LEMMA RowAndNodeWrites ==
    ASSUME Shaped(db), TablesOK(db)
    PROVE  /\ \A x \in Records, s \in RowStatus :
                 LET now == [db EXCEPT !.row[x] = s]
                 IN  /\ Shaped(now) /\ TablesOK(now)
                     /\ now.logs = db.logs /\ now.dead = db.dead
           /\ \A f \in [Nodes -> NodeStatus] :
                 LET now == [db EXCEPT !.node = f]
                 IN  /\ Shaped(now) /\ TablesOK(now)
                     /\ now.logs = db.logs /\ now.dead = db.dead
           /\ \A n \in Nodes, s \in NodeStatus :
                 LET now == [db EXCEPT !.node[n] = s]
                 IN  /\ Shaped(now) /\ TablesOK(now)
                     /\ now.logs = db.logs /\ now.dead = db.dead
    BY DEF Shaped, TablesOK

LEMMA AutocommitsKeep ==
    ASSUME ReplInv PROVE /\ \A n \in Nodes : RegisterNode(n) \/ UnregisterNode(n) => ReplInv'
                         /\ \A x \in Records : PurgeRecord(x) => ReplInv'
<1>1. Shaped(db) /\ TablesOK(db) /\ blobs \in SUBSET Records
    BY DEF ReplInv, Shapes, TypeOK
<1>2. ASSUME NEW n \in Nodes, RegisterNode(n) PROVE ReplInv'
    BY <1>1, <1>2, AutocommitKeeps, RowAndNodeWrites DEF RegisterNode, NodeStatus
<1>3. ASSUME NEW n \in Nodes, UnregisterNode(n) PROVE ReplInv'
    BY <1>1, <1>3, AutocommitKeeps, RowAndNodeWrites DEF UnregisterNode, NodeStatus
<1>4. ASSUME NEW x \in Records, PurgeRecord(x) PROVE ReplInv'
    BY <1>1, <1>4, AutocommitKeeps, RowAndNodeWrites DEF PurgeRecord, RowStatus
<1> QED
    BY <1>2, <1>3, <1>4

LEMMA FirstDMLKeeps ==
    ASSUME ReplInv, NEW r \in Requests, NEW tabs, Shaped(tabs), TablesOK(tabs),
           tabs.logs = db.logs, tabs.dead = db.dead,
           writer = NoRequest, Write(r, tabs),
           \/ /\ pc[r] = "idle" /\ pc' = [pc EXCEPT ![r] = "wrote"]
              /\ \E x \in Records : rec' = [rec EXCEPT ![r] = x]
           \/ /\ pc[r] = "pinging" /\ pc' = [pc EXCEPT ![r] = "synced"]
              /\ rec' = rec,
           blobs' \subseteq Records,
           UNCHANGED <<stored, todo, loaded, view, peers, feed, past>>
    PROVE  ReplInv'
<1>1. /\ writer = NoRequest /\ writer' = r /\ draft = db
      /\ draft' = tabs /\ blobs' \subseteq Records
      /\ UNCHANGED <<db, stored, todo, loaded, view, peers,
                     cursor, pulled, posted, cleared>>
    BY DEF Write, feed, past, ReplInv, TypeOK
<1>2. /\ Shaped(tabs) /\ TablesOK(tabs) /\ tabs.logs = db.logs /\ tabs.dead = db.dead
      /\ NoRequest \notin Requests
    BY ReplicationAssumption
<1>3. /\ pc[r] \in {"idle", "pinging"}
      /\ pc' = [pc EXCEPT ![r] = IF pc[r] = "idle" THEN "wrote" ELSE "synced"]
    OBVIOUS
<1>4. rec' \in [Requests -> Records] /\ \A q \in Requests \ {r} : rec'[q] = rec[q]
    BY DEF ReplInv, TypeOK
<1>5. pc[r] = "pinging" => rec' = rec
    OBVIOUS
<1>6. TypeOK'
    BY <1>1, <1>2, <1>3, <1>4, <1>5 DEF ReplInv, TypeOK, TablesOK, Active,
       Ended
<1>7. Shapes'
    BY <1>1, <1>2, <1>3, <1>4, <1>5 DEF ReplInv, Shapes
<1>8. Holders'
    BY <1>1, <1>2, <1>3, <1>4, <1>5 DEF ReplInv, Holders, TypeOK, TablesOK
<1>9. RowsOfWrites'
    BY <1>1, <1>2, <1>3, <1>4, <1>5 DEF ReplInv, RowsOfWrites, Written
<1>10. Tasks'
    BY <1>1, <1>2, <1>3, <1>4, <1>5 DEF ReplInv, Tasks, Written
<1>11. Named'
    BY <1>1, <1>2, <1>3, <1>4, <1>5 DEF ReplInv, Named, TypeOK, TablesOK,
       Shapes, Holders, RowsOfWrites, Written, Tasks, Active, LogIds
<1>12. AckedReceived'
    BY <1>1, <1>2, <1>3, <1>4, <1>5 DEF ReplInv, AckedReceived, Received,
       Acked
<1>13. LoadedFailed'
    BY <1>1, <1>2, <1>3, <1>4, <1>5 DEF ReplInv, LoadedFailed
<1>14. DraftKeeps'
    BY <1>1, <1>2, <1>3, <1>4, <1>5 DEF ReplInv, DraftKeeps, Acked, TypeOK,
       TablesOK, Shapes, Holders, RowsOfWrites, Written
<1>15. NoneSpent'
    BY <1>1, <1>2, <1>3, <1>4, <1>5 DEF ReplInv, NoneSpent, Spent
<1>16. NoSilentLoss'
    BY <1>1, <1>2, <1>3, <1>4, <1>5 DEF ReplInv, NoSilentLoss, TypeOK,
       TablesOK, Shapes, Holders, RowsOfWrites, Written, Tasks, Active, LogIds
<1>17. Numbered'
    BY <1>1, <1>2, <1>3, <1>4, <1>5 DEF ReplInv, Numbered, SeqUnique,
       Numerable
<1>18. Followed'
    BY <1>1, <1>2, <1>3, <1>4, <1>5 DEF ReplInv, Followed, FeedOrdered
<1> QED
    BY <1>6, <1>7, <1>8, <1>9, <1>10, <1>11, <1>12, <1>13, <1>14, <1>15,
       <1>16, <1>17, <1>18 DEF ReplInv

LEMMA FirstDMLsKeep ==
    ASSUME ReplInv, NEW r \in Requests, PutRecord(r) \/ DeleteRecord(r) \/ HealthFlush(r)
    PROVE  ReplInv'
<1>1. Shaped(db) /\ TablesOK(db) /\ blobs \in SUBSET Records
    BY DEF ReplInv, Shapes, TypeOK
<1>2. CASE PutRecord(r)
  <2>1. PICK x \in Records : /\ Write(r, [db EXCEPT !.row[x] = "live"])
                             /\ blobs' = blobs \cup {x}
                             /\ rec' = [rec EXCEPT ![r] = x]
    BY <1>2 DEF PutRecord
  <2>2. /\ pc[r] = "idle" /\ writer = NoRequest /\ pc' = [pc EXCEPT ![r] = "wrote"]
        /\ UNCHANGED <<stored, todo, loaded, view, peers, feed, past>>
    BY <1>2 DEF PutRecord, Goto
  <2> QED
    BY <1>1, <2>1, <2>2, FirstDMLKeeps, RowAndNodeWrites DEF RowStatus
<1>3. CASE DeleteRecord(r)
  <2>1. PICK x \in Records : /\ Write(r, [db EXCEPT !.row[x] = "deleted"])
                             /\ blobs' \in {blobs, blobs \ {x}}
                             /\ rec' = [rec EXCEPT ![r] = x]
    BY <1>3 DEF DeleteRecord
  <2>2. /\ pc[r] = "idle" /\ writer = NoRequest /\ pc' = [pc EXCEPT ![r] = "wrote"]
        /\ UNCHANGED <<stored, todo, loaded, view, peers, feed, past>>
    BY <1>3 DEF DeleteRecord, Goto
  <2> QED
    BY <1>1, <2>1, <2>2, FirstDMLKeeps, RowAndNodeWrites DEF RowStatus
<1>4. CASE HealthFlush(r)
  <2>1. PICK f \in [Nodes -> NodeStatus] : Write(r, [db EXCEPT !.node = f])
    <3>1. PICK up \in SUBSET Known(peers[r]) :
             Write(r, [db EXCEPT !.node = [n \in Nodes |->
                 IF n \in Known(peers[r])
                    /\ (IF n \in up THEN "active" ELSE "unhealthy") # peers[r][n]
                   THEN (IF n \in up THEN "active" ELSE "unhealthy") ELSE @[n]]])
      BY <1>4 DEF HealthFlush
    <3> DEFINE f == [n \in Nodes |->
                 IF n \in Known(peers[r])
                    /\ (IF n \in up THEN "active" ELSE "unhealthy") # peers[r][n]
                   THEN (IF n \in up THEN "active" ELSE "unhealthy") ELSE db.node[n]]
    <3>2. f \in [Nodes -> NodeStatus]
      BY <1>1 DEF TablesOK, NodeStatus
    <3>3. Write(r, [db EXCEPT !.node = f])
      BY <3>1
    <3> QED
      BY <3>2, <3>3
  <2>2. /\ pc[r] = "pinging" /\ writer = NoRequest /\ pc' = [pc EXCEPT ![r] = "synced"]
        /\ UNCHANGED <<stored, todo, loaded, view, peers, feed, past>>
        /\ rec' = rec /\ blobs' = blobs
    BY <1>4 DEF HealthFlush, Goto, locals, session
  <2> QED
    BY <1>1, <2>1, <2>2, FirstDMLKeeps, RowAndNodeWrites
<1> QED
    BY <1>2, <1>3, <1>4

-----------------------------------------------------------------------------
(* Steps that read the tables and write none. *)

LEMMA SyncNobodyKeeps == ASSUME ReplInv, NEW r \in Requests, SyncNobody(r) PROVE ReplInv'
<1>1. /\ pc[r] = "wrote" /\ pc' = [pc EXCEPT ![r] = "synced"]
      /\ UNCHANGED <<db, draft, writer, blobs, stored, rec, todo, loaded, view, peers,
                     cursor, pulled, posted, cleared>>
    BY DEF SyncNobody, Goto, tables, locals, session, feed, past
<1>2. NoRequest \notin Requests /\ DOMAIN NoLogs = {}
    BY ReplicationAssumption, NoRowsInNoLogs
<1>3. TypeOK'
    BY <1>1, <1>2 DEF ReplInv, TypeOK, TablesOK, Active, Ended
<1>4. Shapes'
    BY <1>1, <1>2 DEF ReplInv, Shapes
<1>5. Holders'
    BY <1>1, <1>2 DEF ReplInv, Holders
<1>6. RowsOfWrites'
    BY <1>1, <1>2 DEF ReplInv, RowsOfWrites, Written
<1>7. Tasks'
    BY <1>1, <1>2 DEF ReplInv, Tasks, Written
<1>8. Named'
    BY <1>1, <1>2 DEF ReplInv, Named
<1>9. AckedReceived'
    BY <1>1, <1>2 DEF ReplInv, AckedReceived, Received, Acked
<1>10. LoadedFailed'
    BY <1>1, <1>2 DEF ReplInv, LoadedFailed
<1>11. DraftKeeps'
    BY <1>1, <1>2 DEF ReplInv, DraftKeeps, Acked, TypeOK, TablesOK, Shapes,
       Holders, RowsOfWrites, Written
<1>12. NoneSpent'
    BY <1>1, <1>2 DEF ReplInv, NoneSpent, Spent
<1>13. NoSilentLoss'
    BY <1>1, <1>2 DEF ReplInv, NoSilentLoss
<1>14. Numbered'
    BY <1>1, <1>2 DEF ReplInv, Numbered, SeqUnique, Numerable
<1>15. Followed'
    BY <1>1, <1>2 DEF ReplInv, Followed, FeedOrdered
<1> QED
    BY <1>3, <1>4, <1>5, <1>6, <1>7, <1>8, <1>9, <1>10, <1>11, <1>12, <1>13,
       <1>14, <1>15 DEF ReplInv

LEMMA SyncStartKeeps == ASSUME ReplInv, NEW r \in Requests, SyncStart(r) PROVE ReplInv'
<1>1. /\ pc[r] = "wrote" /\ pc' = [pc EXCEPT ![r] = "pushing"]
      /\ todo' = [todo EXCEPT ![r] = {<<r, n>> : n \in ActiveNodes(draft)}]
      /\ UNCHANGED <<db, draft, writer, blobs, stored, rec, loaded, view, peers,
                     cursor, pulled, posted, cleared>>
    BY DEF SyncStart, Goto, tables, locals, session, feed, past
<1>2. NoRequest \notin Requests /\ DOMAIN NoLogs = {}
    BY ReplicationAssumption, NoRowsInNoLogs
<1>3. \A i \in {<<r, n>> : n \in ActiveNodes(draft)} : i \in LogIds /\ i[1] = r
    BY DEF LogIds, ActiveNodes
<1>4. TypeOK'
    BY <1>1, <1>2, <1>3 DEF ReplInv, TypeOK, TablesOK, Active, Ended
<1>5. Shapes'
    BY <1>1, <1>2, <1>3 DEF ReplInv, Shapes
<1>6. Holders'
    BY <1>1, <1>2, <1>3 DEF ReplInv, Holders
<1>7. RowsOfWrites'
    BY <1>1, <1>2, <1>3 DEF ReplInv, RowsOfWrites, Written
<1>8. Tasks'
    BY <1>1, <1>2, <1>3 DEF ReplInv, Tasks, Written, TypeOK, TablesOK, Shapes,
       Holders, RowsOfWrites
<1>9. Named'
    BY <1>1, <1>2, <1>3 DEF ReplInv, Named
<1>10. AckedReceived'
    BY <1>1, <1>2, <1>3 DEF ReplInv, AckedReceived, Received, Acked
<1>11. LoadedFailed'
    BY <1>1, <1>2, <1>3 DEF ReplInv, LoadedFailed
<1>12. DraftKeeps'
    BY <1>1, <1>2, <1>3 DEF ReplInv, DraftKeeps, Acked, TypeOK, TablesOK,
       Shapes, Holders, RowsOfWrites, Written
<1>13. NoneSpent'
    BY <1>1, <1>2, <1>3 DEF ReplInv, NoneSpent, Spent
<1>14. NoSilentLoss'
    BY <1>1, <1>2, <1>3 DEF ReplInv, NoSilentLoss
<1>15. Numbered'
    BY <1>1, <1>2, <1>3 DEF ReplInv, Numbered, SeqUnique, Numerable
<1>16. Followed'
    BY <1>1, <1>2, <1>3 DEF ReplInv, Followed, FeedOrdered
<1> QED
    BY <1>4, <1>5, <1>6, <1>7, <1>8, <1>9, <1>10, <1>11, <1>12, <1>13, <1>14,
       <1>15, <1>16 DEF ReplInv

LEMMA RetrySelectKeeps == ASSUME ReplInv, NEW r \in Requests, RetrySelect(r) PROVE ReplInv'
<1>1. /\ pc[r] = "idle" /\ pc' = [pc EXCEPT ![r] = IF todo'[r] = {} THEN "done" ELSE "loaded"]
      /\ todo' = [todo EXCEPT ![r] = DOMAIN loaded'[r]]
      /\ UNCHANGED <<db, draft, writer, blobs, stored, rec, view, peers,
                     cursor, pulled, posted, cleared>>
    BY DEF RetrySelect, Goto, tables, locals, session, feed, past
<1>2. NoRequest \notin Requests /\ DOMAIN NoLogs = {}
    BY ReplicationAssumption, NoRowsInNoLogs
<1>3. PICK rows : /\ loaded' = [loaded EXCEPT ![r] = rows]
                  /\ DOMAIN rows \subseteq DOMAIN db.logs
                  /\ \A i \in DOMAIN rows : rows[i] = db.logs[i] /\ rows[i].status = "failed"
  <2> DEFINE rows == RestrictValues(db.logs,
                        LAMBDA log : log.status = "failed" /\ log.retries < RetryMax)
  <2>1. loaded' = [loaded EXCEPT ![r] = rows]
    BY DEF RetrySelect
  <2>2. /\ DOMAIN rows \subseteq DOMAIN db.logs
        /\ \A i \in DOMAIN rows : rows[i] = db.logs[i] /\ rows[i].status = "failed"
    BY DEF RestrictValues, Restrict
  <2> QED
    BY <2>1, <2>2
<1>4. loaded'[r] = rows /\ todo'[r] = DOMAIN rows
    BY <1>1, <1>3 DEF ReplInv, Shapes, TypeOK
<1>5. TypeOK'
  <2>1. TablesOK(db') /\ TablesOK(draft')
    BY <1>1, <1>2, <1>3, <1>4 DEF ReplInv, TypeOK, TablesOK
  <2>2. /\ writer' \in Requests \cup {NoRequest}
        /\ writer' = NoRequest => draft' = db'
    BY <1>1, <1>2, <1>3, <1>4 DEF ReplInv, TypeOK
  <2>3. writer' # NoRequest => pc'[writer'] \in Active
    BY <1>1, <1>2, <1>3, <1>4 DEF ReplInv, TypeOK, Holders, Active
  <2>4. /\ blobs' \subseteq Records
        /\ stored' \in [Nodes -> SUBSET Records]
        /\ rec' \in [Requests -> Records]
    BY <1>1, <1>2, <1>3, <1>4 DEF ReplInv, TypeOK
  <2>5. pc' \in [Requests -> {"idle"} \cup Active \cup Ended]
    BY <1>1, <1>2, <1>3, <1>4 DEF ReplInv, TypeOK, Active, Ended
  <2>6. /\ todo' \in [Requests -> SUBSET LogIds]
        /\ cursor' \in [Nodes -> Nat] /\ pulled' \in [Nodes -> SUBSET LogIds]
    BY <1>1, <1>2, <1>3, <1>4 DEF ReplInv, TypeOK, TablesOK
  <2>7. peers' \in [Requests -> [Nodes -> NodeStatus]]
    BY <1>1, <1>2, <1>3, <1>4 DEF ReplInv, TypeOK, NoPeers, NodeStatus
  <2>8. /\ \A q \in Requests : DOMAIN view'[q] \subseteq DOMAIN loaded'[q]
        /\ \A q \in Requests : \A i \in DOMAIN loaded'[q] : loaded'[q][i] \in Log
        /\ \A q \in Requests : \A i \in DOMAIN view'[q] : view'[q][i] \in Log
    <3>1. \A q \in Requests : loaded'[q] = IF q = r THEN rows ELSE loaded[q]
      BY <1>3 DEF ReplInv, Shapes
    <3>2. view' = view /\ DOMAIN view[r] = {}
      BY <1>1 DEF ReplInv, Shapes
    <3> QED
      BY <1>3, <3>1, <3>2 DEF ReplInv, TypeOK, TablesOK
  <2> QED
    BY <2>1, <2>2, <2>3, <2>4, <2>5, <2>6, <2>7, <2>8 DEF TypeOK
<1>6. Shapes'
    BY <1>1, <1>2, <1>3, <1>4 DEF ReplInv, Shapes, TypeOK, TablesOK
<1>7. Holders'
    BY <1>1, <1>2, <1>3, <1>4 DEF ReplInv, Holders
<1>8. RowsOfWrites'
    BY <1>1, <1>2, <1>3, <1>4 DEF ReplInv, RowsOfWrites, Written
<1>9. Tasks'
    BY <1>1, <1>2, <1>3, <1>4 DEF ReplInv, Tasks, Written, TypeOK, TablesOK
<1>10. Named'
    BY <1>1, <1>2, <1>3, <1>4 DEF ReplInv, Named
<1>11. AckedReceived'
    BY <1>1, <1>2, <1>3, <1>4 DEF ReplInv, AckedReceived, Received, Acked
<1>12. LoadedFailed'
    BY <1>1, <1>2, <1>3, <1>4 DEF ReplInv, LoadedFailed
<1>13. DraftKeeps'
    BY <1>1, <1>2, <1>3, <1>4 DEF ReplInv, DraftKeeps, Acked, TypeOK,
       TablesOK, Shapes, Holders, RowsOfWrites, Written
<1>14. NoneSpent'
    BY <1>1, <1>2, <1>3, <1>4 DEF ReplInv, NoneSpent, Spent
<1>15. NoSilentLoss'
    BY <1>1, <1>2, <1>3, <1>4 DEF ReplInv, NoSilentLoss
<1>16. Numbered'
    BY <1>1, <1>2, <1>3, <1>4 DEF ReplInv, Numbered, SeqUnique, Numerable
<1>17. Followed'
    BY <1>1, <1>2, <1>3, <1>4 DEF ReplInv, Followed, FeedOrdered
<1> QED
    BY <1>5, <1>6, <1>7, <1>8, <1>9, <1>10, <1>11, <1>12, <1>13, <1>14, <1>15,
       <1>16, <1>17 DEF ReplInv

LEMMA RetryReadsKeep ==
    ASSUME ReplInv, NEW r \in Requests, RetryNodes(r) \/ RetryFetch(r) \/ RetryRead(r)
    PROVE  ReplInv'
<1>1. /\ pc[r] \in {"loaded", "retrying", "fetched"}
      /\ \E to \in {"retrying", "fetched", "read"} : pc' = [pc EXCEPT ![r] = to]
      /\ peers' = [peers EXCEPT ![r] = db.node] \/ peers' = peers
      /\ UNCHANGED <<db, draft, writer, blobs, stored, rec, todo, loaded, view,
                     cursor, pulled, posted, cleared>>
    BY DEF RetryNodes, RetryFetch, RetryRead, Goto, tables, locals, session, feed, past
<1>2. NoRequest \notin Requests /\ DOMAIN NoLogs = {}
    BY ReplicationAssumption, NoRowsInNoLogs
<1>3. TypeOK'
    BY <1>1, <1>2 DEF ReplInv, TypeOK, TablesOK, Active, Ended
<1>4. Shapes'
    BY <1>1, <1>2 DEF ReplInv, Shapes
<1>5. Holders'
    BY <1>1, <1>2 DEF ReplInv, Holders
<1>6. RowsOfWrites'
    BY <1>1, <1>2 DEF ReplInv, RowsOfWrites, Written
<1>7. Tasks'
    BY <1>1, <1>2 DEF ReplInv, Tasks, Written
<1>8. Named'
    BY <1>1, <1>2 DEF ReplInv, Named
<1>9. AckedReceived'
    BY <1>1, <1>2 DEF ReplInv, AckedReceived, Received, Acked
<1>10. LoadedFailed'
    BY <1>1, <1>2 DEF ReplInv, LoadedFailed
<1>11. DraftKeeps'
    BY <1>1, <1>2 DEF ReplInv, DraftKeeps, Acked, TypeOK, TablesOK, Shapes,
       Holders, RowsOfWrites, Written
<1>12. NoneSpent'
    BY <1>1, <1>2 DEF ReplInv, NoneSpent, Spent
<1>13. NoSilentLoss'
    BY <1>1, <1>2 DEF ReplInv, NoSilentLoss
<1>14. Numbered'
    BY <1>1, <1>2 DEF ReplInv, Numbered, SeqUnique, Numerable
<1>15. Followed'
    BY <1>1, <1>2 DEF ReplInv, Followed, FeedOrdered
<1> QED
    BY <1>3, <1>4, <1>5, <1>6, <1>7, <1>8, <1>9, <1>10, <1>11, <1>12, <1>13,
       <1>14, <1>15 DEF ReplInv

LEMMA HealthSelectKeeps == ASSUME ReplInv, NEW r \in Requests, HealthSelect(r) PROVE ReplInv'
<1>1. /\ pc[r] = "idle" /\ pc' = [pc EXCEPT ![r] = "pinging"]
      /\ peers' = [peers EXCEPT ![r] = db.node]
      /\ UNCHANGED <<db, draft, writer, blobs, stored, rec, todo, loaded, view,
                     cursor, pulled, posted, cleared>>
    BY DEF HealthSelect, Goto, tables, locals, session, feed, past
<1>2. NoRequest \notin Requests /\ DOMAIN NoLogs = {}
    BY ReplicationAssumption, NoRowsInNoLogs
<1>3. TypeOK'
    BY <1>1, <1>2 DEF ReplInv, TypeOK, TablesOK, Active, Ended
<1>4. Shapes'
    BY <1>1, <1>2 DEF ReplInv, Shapes
<1>5. Holders'
    BY <1>1, <1>2 DEF ReplInv, Holders
<1>6. RowsOfWrites'
    BY <1>1, <1>2 DEF ReplInv, RowsOfWrites, Written
<1>7. Tasks'
    BY <1>1, <1>2 DEF ReplInv, Tasks, Written
<1>8. Named'
    BY <1>1, <1>2 DEF ReplInv, Named
<1>9. AckedReceived'
    BY <1>1, <1>2 DEF ReplInv, AckedReceived, Received, Acked
<1>10. LoadedFailed'
    BY <1>1, <1>2 DEF ReplInv, LoadedFailed
<1>11. DraftKeeps'
    BY <1>1, <1>2 DEF ReplInv, DraftKeeps, Acked, TypeOK, TablesOK, Shapes,
       Holders, RowsOfWrites, Written
<1>12. NoneSpent'
    BY <1>1, <1>2 DEF ReplInv, NoneSpent, Spent
<1>13. NoSilentLoss'
    BY <1>1, <1>2 DEF ReplInv, NoSilentLoss
<1>14. Numbered'
    BY <1>1, <1>2 DEF ReplInv, Numbered, SeqUnique, Numerable
<1>15. Followed'
    BY <1>1, <1>2 DEF ReplInv, Followed, FeedOrdered
<1> QED
    BY <1>3, <1>4, <1>5, <1>6, <1>7, <1>8, <1>9, <1>10, <1>11, <1>12, <1>13,
       <1>14, <1>15 DEF ReplInv

LEMMA ResetSelectKeeps == ASSUME ReplInv, NEW r \in Requests, ResetSelect(r) PROVE ReplInv'
<1>1. /\ pc[r] = "idle" /\ pc' = [pc EXCEPT ![r] = "resetting"]
      /\ \E rows \in SUBSET DOMAIN db.logs : todo' = [todo EXCEPT ![r] = rows]
      /\ UNCHANGED <<db, draft, writer, blobs, stored, rec, loaded, view, peers,
                     cursor, pulled, posted, cleared>>
    BY DEF ResetSelect, Goto, tables, locals, session, feed, past
<1>2. NoRequest \notin Requests /\ DOMAIN NoLogs = {}
    BY ReplicationAssumption, NoRowsInNoLogs
<1>3. TypeOK'
    BY <1>1, <1>2 DEF ReplInv, TypeOK, TablesOK, Active, Ended
<1>4. Shapes'
    BY <1>1, <1>2 DEF ReplInv, Shapes
<1>5. Holders'
    BY <1>1, <1>2 DEF ReplInv, Holders
<1>6. RowsOfWrites'
    BY <1>1, <1>2 DEF ReplInv, RowsOfWrites, Written
<1>7. Tasks'
    BY <1>1, <1>2 DEF ReplInv, Tasks, Written, TypeOK, TablesOK, Shapes,
       Holders, RowsOfWrites
<1>8. Named'
    BY <1>1, <1>2 DEF ReplInv, Named
<1>9. AckedReceived'
    BY <1>1, <1>2 DEF ReplInv, AckedReceived, Received, Acked
<1>10. LoadedFailed'
    BY <1>1, <1>2 DEF ReplInv, LoadedFailed
<1>11. DraftKeeps'
    BY <1>1, <1>2 DEF ReplInv, DraftKeeps, Acked, TypeOK, TablesOK, Shapes,
       Holders, RowsOfWrites, Written
<1>12. NoneSpent'
    BY <1>1, <1>2 DEF ReplInv, NoneSpent, Spent
<1>13. NoSilentLoss'
    BY <1>1, <1>2 DEF ReplInv, NoSilentLoss
<1>14. Numbered'
    BY <1>1, <1>2 DEF ReplInv, Numbered, SeqUnique, Numerable
<1>15. Followed'
    BY <1>1, <1>2 DEF ReplInv, Followed, FeedOrdered
<1> QED
    BY <1>3, <1>4, <1>5, <1>6, <1>7, <1>8, <1>9, <1>10, <1>11, <1>12, <1>13,
       <1>14, <1>15 DEF ReplInv

LEMMA RetrySkipKeeps == ASSUME ReplInv, NEW r \in Requests, RetrySkip(r) PROVE ReplInv'
<1>1. /\ pc[r] = "retrying" /\ \E i \in LogIds : todo' = [todo EXCEPT ![r] = @ \ {i}]
      /\ UNCHANGED <<db, draft, writer, blobs, stored, pc, rec, loaded, view, peers,
                     cursor, pulled, posted, cleared>>
    BY DEF RetrySkip, Goto, tables, locals, session, feed, past
<1>2. NoRequest \notin Requests /\ DOMAIN NoLogs = {}
    BY ReplicationAssumption, NoRowsInNoLogs
<1>3. TypeOK'
    BY <1>1, <1>2 DEF ReplInv, TypeOK, TablesOK, Active, Ended
<1>4. Shapes'
    BY <1>1, <1>2 DEF ReplInv, Shapes
<1>5. Holders'
    BY <1>1, <1>2 DEF ReplInv, Holders
<1>6. RowsOfWrites'
    BY <1>1, <1>2 DEF ReplInv, RowsOfWrites, Written
<1>7. Tasks'
    BY <1>1, <1>2 DEF ReplInv, Tasks, Written
<1>8. Named'
    BY <1>1, <1>2 DEF ReplInv, Named
<1>9. AckedReceived'
    BY <1>1, <1>2 DEF ReplInv, AckedReceived, Received, Acked
<1>10. LoadedFailed'
    BY <1>1, <1>2 DEF ReplInv, LoadedFailed
<1>11. DraftKeeps'
    BY <1>1, <1>2 DEF ReplInv, DraftKeeps, Acked, TypeOK, TablesOK, Shapes,
       Holders, RowsOfWrites, Written
<1>12. NoneSpent'
    BY <1>1, <1>2 DEF ReplInv, NoneSpent, Spent
<1>13. NoSilentLoss'
    BY <1>1, <1>2 DEF ReplInv, NoSilentLoss
<1>14. Numbered'
    BY <1>1, <1>2 DEF ReplInv, Numbered, SeqUnique, Numerable
<1>15. Followed'
    BY <1>1, <1>2 DEF ReplInv, Followed, FeedOrdered
<1> QED
    BY <1>3, <1>4, <1>5, <1>6, <1>7, <1>8, <1>9, <1>10, <1>11, <1>12, <1>13,
       <1>14, <1>15 DEF ReplInv

LEMMA RetriedKeeps ==
    ASSUME ReplInv, NEW r \in Requests, NEW i \in todo[r], NEW log \in Log,
           pc[r] \in {"retrying", "read"}, Goto(r, "retrying"),
           log.record = loaded[r][i].record, Acked(log) => log.record \in stored'[i[2]],
           view' = [view EXCEPT ![r] = WithRow(@, i, log)],
           todo' = [todo EXCEPT ![r] = @ \ {i}],
           stored' \in [Nodes -> SUBSET Records],
           \A n \in Nodes : stored[n] \subseteq stored'[n],
           UNCHANGED <<tables, blobs, rec, loaded, peers, feed, past>>
    PROVE  ReplInv'
<1>1. /\ UNCHANGED <<db, draft, writer, blobs, rec, loaded, peers>>
      /\ UNCHANGED <<cursor, pulled, posted, cleared>>
      /\ pc' = [pc EXCEPT ![r] = "retrying"]
    BY DEF Goto, tables, feed, past
<1>2. /\ pc[r] \in {"retrying", "read"} /\ log.record = loaded[r][i].record
      /\ Acked(log) => log.record \in stored'[i[2]]
      /\ todo' = [todo EXCEPT ![r] = @ \ {i}]
      /\ stored' \in [Nodes -> SUBSET Records]
      /\ \A n \in Nodes : stored[n] \subseteq stored'[n]
    OBVIOUS
<1>3. i \in DOMAIN loaded[r] /\ i \in LogIds
    BY <1>2 DEF ReplInv, Tasks, TypeOK
<1>4. PICK rows : /\ view' = [view EXCEPT ![r] = rows]
                  /\ DOMAIN rows = DOMAIN view[r] \cup {i}
                  /\ rows[i] = log
                  /\ \A j \in DOMAIN rows \ {i} : rows[j] = view[r][j]
  <2>1. view' = [view EXCEPT ![r] = WithRow(view[r], i, log)]
    BY DEF ReplInv, Shapes
  <2> DEFINE rows == WithRow(view[r], i, log)
  <2>2. /\ DOMAIN rows = DOMAIN view[r] \cup {i} /\ rows[i] = log
        /\ \A j \in DOMAIN rows \ {i} : rows[j] = view[r][j]
    BY DEF WithRow
  <2> QED
    BY <2>1, <2>2
<1>5. view' = [q \in Requests |-> IF q = r THEN rows ELSE view[q]]
    BY <1>4 DEF ReplInv, Shapes
<1>6. TypeOK'
    BY <1>1, <1>2, <1>3, <1>4, <1>5 DEF ReplInv, TypeOK, TablesOK, Active,
       Ended
<1>7. Shapes'
    BY <1>1, <1>2, <1>3, <1>4, <1>5 DEF ReplInv, Shapes
<1>8. Holders'
    BY <1>1, <1>2, <1>3, <1>4, <1>5 DEF ReplInv, Holders
<1>9. RowsOfWrites'
    BY <1>1, <1>2, <1>3, <1>4, <1>5 DEF ReplInv, RowsOfWrites, Written
<1>10. Tasks'
    BY <1>1, <1>2, <1>3, <1>4, <1>5 DEF ReplInv, Tasks, Written
<1>11. Named'
    BY <1>1, <1>2, <1>3, <1>4, <1>5 DEF ReplInv, Named
<1>12. AckedReceived'
    BY <1>1, <1>2, <1>3, <1>4, <1>5 DEF ReplInv, AckedReceived, Received,
       Acked, TypeOK, TablesOK, Shapes, Holders, RowsOfWrites, Written, Tasks,
       Active, LogIds
<1>13. LoadedFailed'
    BY <1>1, <1>2, <1>3, <1>4, <1>5 DEF ReplInv, LoadedFailed
<1>14. DraftKeeps'
    BY <1>1, <1>2, <1>3, <1>4, <1>5 DEF ReplInv, DraftKeeps, Acked, TypeOK,
       TablesOK, Shapes, Holders, RowsOfWrites, Written
<1>15. NoneSpent'
    BY <1>1, <1>2, <1>3, <1>4, <1>5 DEF ReplInv, NoneSpent, Spent
<1>16. NoSilentLoss'
    BY <1>1, <1>2, <1>3, <1>4, <1>5 DEF ReplInv, NoSilentLoss, TypeOK,
       TablesOK, Shapes, Holders, RowsOfWrites, Written, Tasks, Active, LogIds
<1>17. Numbered'
    BY <1>1, <1>2, <1>3, <1>4, <1>5 DEF ReplInv, Numbered, SeqUnique,
       Numerable
<1>18. Followed'
    BY <1>1, <1>2, <1>3, <1>4, <1>5 DEF ReplInv, Followed, FeedOrdered
<1> QED
    BY <1>6, <1>7, <1>8, <1>9, <1>10, <1>11, <1>12, <1>13, <1>14, <1>15,
       <1>16, <1>17, <1>18 DEF ReplInv

LEMMA Delivered ==
    ASSUME NEW n \in Nodes, NEW x \in Records, NEW received \in BOOLEAN,
           NEW answered \in BOOLEAN, stored \in [Nodes -> SUBSET Records],
           Deliver(n, x, received, answered)
    PROVE  /\ stored' \in [Nodes -> SUBSET Records]
           /\ \A m \in Nodes : stored[m] \subseteq stored'[m]
           /\ Outcome(answered) = "acked" => x \in stored'[n]
           /\ Outcome(answered) \in {"acked", "failed"}
    BY DEF Deliver, Outcome

LEMMA RetriedRow ==
    ASSUME NEW log \in Log, NEW answered \in BOOLEAN
    PROVE  /\ Retried(log, answered) \in Log
           /\ Retried(log, answered).record = log.record
           /\ Retried(log, answered).status = Outcome(answered)
<1> DEFINE tries == log.retries + 1
           outcome == Outcome(answered)
<1>1. tries \in Nat /\ outcome \in {"acked", "failed"}
    BY DEF Log, Outcome
<1>2. Retried(log, answered) = [log EXCEPT !.retries = tries, !.status = outcome]
    BY DEF Retried
<1> HIDE DEF tries, outcome
<1>3. LET new == [log EXCEPT !.retries = tries, !.status = outcome]
      IN  new \in Log /\ new.record = log.record /\ new.status = outcome
    BY <1>1 DEF Log
<1> QED
    BY <1>2, <1>3 DEF outcome

LEMMA RetriesKeep ==
    ASSUME ReplInv, NEW r \in Requests, RetryMissing(r) \/ RetryPush(r)
    PROVE  ReplInv'
<1>1. CASE RetryMissing(r)
  <2>1. PICK i \in todo[r] : /\ view' = [view EXCEPT ![r] = WithRow(@, i, loaded[r][i])]
                             /\ todo' = [todo EXCEPT ![r] = @ \ {i}]
    BY <1>1 DEF RetryMissing, IsNext
  <2>2. /\ pc[r] = "retrying" /\ Goto(r, "retrying")
        /\ UNCHANGED <<tables, blobs, stored, rec, loaded, peers, feed, past>>
    BY <1>1 DEF RetryMissing, Goto, ReplInv, TypeOK
  <2>3. i \in DOMAIN loaded[r]
    BY <2>1, <2>2 DEF ReplInv, Tasks
  <2>4. loaded[r][i] \in Log /\ loaded[r][i].status = "failed"
    BY <2>3 DEF ReplInv, TypeOK, LoadedFailed
  <2>5. stored' \in [Nodes -> SUBSET Records] /\ \A n \in Nodes : stored[n] \subseteq stored'[n]
    BY <2>2 DEF ReplInv, TypeOK
  <2> QED
    BY <2>1, <2>2, <2>4, <2>5, RetriedKeeps DEF Acked
<1>2. CASE RetryPush(r)
  <2>1. PICK i \in todo[r], received \in BOOLEAN, answered \in BOOLEAN :
           /\ Deliver(i[2], loaded[r][i].record, received, answered)
           /\ view' = [view EXCEPT ![r] = WithRow(@, i, Retried(loaded[r][i], answered))]
           /\ todo' = [todo EXCEPT ![r] = @ \ {i}]
    BY <1>2 DEF RetryPush, IsNext
  <2>2. /\ pc[r] = "read" /\ Goto(r, "retrying")
        /\ UNCHANGED <<tables, blobs, rec, loaded, peers, feed, past>>
    BY <1>2 DEF RetryPush
  <2>3. i \in DOMAIN loaded[r] /\ i[2] \in Nodes
    BY <2>1, <2>2 DEF ReplInv, Tasks, TypeOK, LogIds
  <2>4. loaded[r][i] \in Log /\ stored \in [Nodes -> SUBSET Records]
    BY <2>3 DEF ReplInv, TypeOK
  <2> DEFINE log == Retried(loaded[r][i], answered)
  <2>5. /\ log \in Log /\ log.record = loaded[r][i].record
        /\ log.status = Outcome(answered)
    BY <2>4, RetriedRow
  <2>6. /\ stored' \in [Nodes -> SUBSET Records]
        /\ \A n \in Nodes : stored[n] \subseteq stored'[n]
        /\ Acked(log) => log.record \in stored'[i[2]]
    BY <2>1, <2>3, <2>4, <2>5, Delivered DEF Acked, Log
  <2>7. view' = [view EXCEPT ![r] = WithRow(@, i, log)]
    BY <2>1
  <2> HIDE DEF log
  <2> QED
    BY <2>1, <2>2, <2>5, <2>6, <2>7, RetriedKeeps
<1> QED
    BY <1>1, <1>2

-----------------------------------------------------------------------------
(* The steps that write the log. *)

LEMMA PushKeeps == ASSUME ReplInv, NEW r \in Requests, Push(r) PROVE ReplInv'
<1>1. PICK i \in todo[r], received \in BOOLEAN, answered \in BOOLEAN :
         /\ Deliver(i[2], rec[r], received, answered)
         /\ Write(r, [draft EXCEPT !.logs = WithRow(draft.logs, i,
               [record |-> rec[r], status |-> Outcome(answered),
                retries |-> IF answered THEN 0 ELSE 1, seq |-> NextSeq(draft.logs, r)])])
         /\ todo' = [todo EXCEPT ![r] = @ \ {i}]
    BY DEF Push, ReplInv, Shapes, Shaped
<1> DEFINE log == [record |-> rec[r], status |-> Outcome(answered),
                   retries |-> IF answered THEN 0 ELSE 1, seq |-> NextSeq(draft.logs, r)]
<1>2. /\ pc[r] = "pushing" /\ pc' = [pc EXCEPT ![r] = "pushing"]
      /\ UNCHANGED <<db, blobs, rec, loaded, view, peers, cursor, pulled, posted, cleared>>
      /\ writer' = r /\ writer = r /\ NoRequest \notin Requests
      /\ todo' = [todo EXCEPT ![r] = @ \ {i}]
    BY <1>1, ReplicationAssumption DEF Push, Goto, Write, feed, past, ReplInv, Holders
<1>3. /\ Shaped(draft') /\ draft'.row = draft.row /\ draft'.node = draft.node
      /\ draft'.dead = draft.dead
      /\ DOMAIN draft'.logs = DOMAIN draft.logs \cup {i}
      /\ draft'.logs[i] = log
      /\ \A j \in DOMAIN draft'.logs \ {i} : draft'.logs[j] = draft.logs[j]
    BY <1>1 DEF Write, WithRow, ReplInv, Shapes, Shaped
<1>4. /\ i \in LogIds /\ i[1] = r /\ i[2] \in Nodes
      /\ i \notin DOMAIN draft.logs /\ i \notin DOMAIN db.logs
    BY <1>2 DEF ReplInv, TypeOK, Tasks, LogIds, RowsOfWrites, Written
<1>5. /\ stored' \in [Nodes -> SUBSET Records]
      /\ \A n \in Nodes : stored[n] \subseteq stored'[n]
      /\ Outcome(answered) = "acked" => rec[r] \in stored'[i[2]]
      /\ Outcome(answered) \in {"acked", "failed"}
    BY <1>1, <1>4, Delivered DEF ReplInv, TypeOK
<1>6. /\ log.seq \in Nat /\ log.seq # 0
      /\ \A j \in DOMAIN draft.logs : draft.logs[j].seq \in Nat /\ draft.logs[j].seq < log.seq
  <2>1. \A j \in DOMAIN draft.logs : draft.logs[j].seq \in Nat
    BY DEF ReplInv, TypeOK, TablesOK, Log
  <2>2. IsFiniteSet(DOMAIN draft.logs)
    BY DEF ReplInv, Numbered, Numerable
  <2>3. /\ HighestSeq(draft.logs) \in Nat
        /\ \A j \in DOMAIN draft.logs : draft.logs[j].seq <= HighestSeq(draft.logs)
    BY <2>1, <2>2, Highest
  <2> QED
    BY <2>1, <2>3 DEF NextSeq
<1>7. /\ log \in Log /\ log.record = rec[r] /\ log.status = Outcome(answered)
    BY <1>5, <1>6 DEF Log, ReplInv, TypeOK
<1>8. IsFiniteSet(DOMAIN draft'.logs)
    BY <1>3, FS_AddElement DEF ReplInv, Numbered, Numerable
<1> HIDE DEF log
<1>9. TypeOK'
  <2>1. TablesOK(db') /\ TablesOK(draft')
    BY <1>2, <1>3, <1>4, <1>5, <1>7 DEF ReplInv, TypeOK, TablesOK
  <2>2. /\ writer' \in Requests \cup {NoRequest}
        /\ writer' = NoRequest => draft' = db'
    BY <1>2, <1>3, <1>4, <1>5, <1>7 DEF ReplInv, TypeOK
  <2>3. writer' # NoRequest => pc'[writer'] \in Active
    BY <1>2, <1>3, <1>4, <1>5, <1>7 DEF ReplInv, TypeOK, Holders, Active
  <2>4. /\ blobs' \subseteq Records
        /\ stored' \in [Nodes -> SUBSET Records]
        /\ rec' \in [Requests -> Records]
    BY <1>2, <1>3, <1>4, <1>5, <1>7 DEF ReplInv, TypeOK
  <2>5. pc' \in [Requests -> {"idle"} \cup Active \cup Ended]
    BY <1>2, <1>3, <1>4, <1>5, <1>7 DEF ReplInv, TypeOK, Active, Ended
  <2>6. /\ todo' \in [Requests -> SUBSET LogIds]
        /\ cursor' \in [Nodes -> Nat] /\ pulled' \in [Nodes -> SUBSET LogIds]
    BY <1>2, <1>3, <1>4, <1>5, <1>7 DEF ReplInv, TypeOK, TablesOK
  <2>7. peers' \in [Requests -> [Nodes -> NodeStatus]]
    BY <1>2, <1>3, <1>4, <1>5, <1>7 DEF ReplInv, TypeOK, NoPeers, NodeStatus
  <2>8. /\ \A q \in Requests : DOMAIN view'[q] \subseteq DOMAIN loaded'[q]
        /\ \A q \in Requests : \A k \in DOMAIN loaded'[q] : loaded'[q][k] \in Log
        /\ \A q \in Requests : \A k \in DOMAIN view'[q] : view'[q][k] \in Log
    BY <1>2, <1>3, <1>4, <1>5, <1>7 DEF ReplInv, TypeOK, Shapes
  <2> QED
    BY <2>1, <2>2, <2>3, <2>4, <2>5, <2>6, <2>7, <2>8 DEF TypeOK
<1>10. Shapes'
    BY <1>1, <1>2, <1>3, <1>4, <1>5, <1>6, <1>7, <1>8 DEF ReplInv, Shapes
<1>11. Holders'
    BY <1>1, <1>2, <1>3, <1>4, <1>5, <1>6, <1>7, <1>8 DEF ReplInv, Holders
<1>12. RowsOfWrites'
    BY <1>1, <1>2, <1>3, <1>4, <1>5, <1>6, <1>7, <1>8 DEF ReplInv,
       RowsOfWrites, Written
<1>13. Tasks'
    BY <1>1, <1>2, <1>3, <1>4, <1>5, <1>6, <1>7, <1>8 DEF ReplInv, Tasks,
       Written, TypeOK, TablesOK
<1>14. Named'
    BY <1>1, <1>2, <1>3, <1>4, <1>5, <1>6, <1>7, <1>8 DEF ReplInv, Named
<1>15. AckedReceived'
    BY <1>1, <1>2, <1>3, <1>4, <1>5, <1>6, <1>7, <1>8 DEF ReplInv,
       AckedReceived, Received, Acked, TypeOK, TablesOK, Shapes, Holders,
       RowsOfWrites, Written, Tasks, Active, LogIds
<1>16. LoadedFailed'
    BY <1>1, <1>2, <1>3, <1>4, <1>5, <1>6, <1>7, <1>8 DEF ReplInv,
       LoadedFailed
<1>17. DraftKeeps'
    BY <1>1, <1>2, <1>3, <1>4, <1>5, <1>6, <1>7, <1>8 DEF ReplInv, DraftKeeps,
       Acked, TypeOK, TablesOK, Shapes, Holders, RowsOfWrites, Written
<1>18. NoneSpent'
    BY <1>1, <1>2, <1>3, <1>4, <1>5, <1>6, <1>7, <1>8 DEF ReplInv, NoneSpent,
       Spent
<1>19. NoSilentLoss'
  <2>1. \A j \in posted : j[2] \in Nodes
    BY DEF ReplInv, Shapes, LogIds
  <2> QED
    BY <1>2, <1>5, <2>1 DEF ReplInv, NoSilentLoss
<1>20. Numbered'
    BY <1>1, <1>2, <1>3, <1>4, <1>5, <1>6, <1>7, <1>8 DEF ReplInv, Numbered,
       SeqUnique, Numerable
<1>21. Followed'
    BY <1>1, <1>2, <1>3, <1>4, <1>5, <1>6, <1>7, <1>8 DEF ReplInv, Followed,
       FeedOrdered
<1> QED
    BY <1>9, <1>10, <1>11, <1>12, <1>13, <1>14, <1>15, <1>16, <1>17, <1>18,
       <1>19, <1>20, <1>21 DEF ReplInv

LEMMA SyncEndKeeps == ASSUME ReplInv, NEW r \in Requests, SyncEnd(r) PROVE ReplInv'
<1>1. /\ pc[r] = "pushing" /\ pc' = [pc EXCEPT ![r] = "synced"] /\ todo[r] = {}
      /\ UNCHANGED <<db, blobs, stored, rec, todo, loaded, view, peers,
                     cursor, pulled, posted, cleared>>
      /\ writer' = r /\ writer = r /\ NoRequest \notin Requests
    BY ReplicationAssumption DEF SyncEnd, Goto, Write, locals, session, feed, past, ReplInv, Holders
<1> DEFINE dead == {i \in DOMAIN draft.logs : i[1] = r /\ Exhausted(draft.logs[i])}
<1>2. /\ Shaped(draft')
      /\ draft'.row = draft.row /\ draft'.node = draft.node
      /\ draft'.dead = draft.dead \cup dead
      /\ DOMAIN draft'.logs = DOMAIN draft.logs \ dead
      /\ \A i \in DOMAIN draft'.logs : draft'.logs[i] = draft.logs[i]
  <2> DEFINE seen == RestrictDomain(draft.logs, LAMBDA i : i[1] = r)
  <2>1. Shaped(draft)
    BY DEF ReplInv, Shapes
  <2>2. draft' = WithDeadLetters(draft, seen)
    BY DEF SyncEnd, Write
  <2>3. {i \in DOMAIN seen : Exhausted(seen[i])} = dead
    BY DEF RestrictDomain, Restrict
  <2> HIDE DEF seen, dead
  <2> QED
    BY <2>1, <2>2, <2>3, DeadLettersTaken
<1>3. \A i \in DOMAIN draft'.logs : ~(i[1] = r /\ Spent(draft'.logs[i]))
    BY <1>2 DEF Spent, Exhausted
<1>4. \A i \in dead : i \in DOMAIN draft.logs /\ i[1] = r
    OBVIOUS
<1>5. IsFiniteSet(DOMAIN draft'.logs)
  <2>1. IsFiniteSet(DOMAIN draft.logs) /\ IsFiniteSet(DOMAIN db.logs)
    BY DEF ReplInv, Numbered, Numerable
  <2> QED
    BY <1>2, <2>1, FS_Subset
<1> HIDE DEF dead
<1>6. TypeOK'
  <2>1. TablesOK(db') /\ TablesOK(draft')
    BY <1>1, <1>2, <1>4 DEF ReplInv, TypeOK, TablesOK
  <2>2. /\ writer' \in Requests \cup {NoRequest}
        /\ writer' = NoRequest => draft' = db'
    BY <1>1, <1>2, <1>4 DEF ReplInv, TypeOK
  <2>3. writer' # NoRequest => pc'[writer'] \in Active
    BY <1>1, <1>2, <1>4 DEF ReplInv, TypeOK, Holders, Active
  <2>4. /\ blobs' \subseteq Records
        /\ stored' \in [Nodes -> SUBSET Records]
        /\ rec' \in [Requests -> Records]
    BY <1>1, <1>2, <1>4 DEF ReplInv, TypeOK
  <2>5. pc' \in [Requests -> {"idle"} \cup Active \cup Ended]
    BY <1>1, <1>2, <1>4 DEF ReplInv, TypeOK, Active, Ended
  <2>6. /\ todo' \in [Requests -> SUBSET LogIds]
        /\ cursor' \in [Nodes -> Nat] /\ pulled' \in [Nodes -> SUBSET LogIds]
    BY <1>1, <1>2, <1>4 DEF ReplInv, TypeOK, TablesOK
  <2>7. peers' \in [Requests -> [Nodes -> NodeStatus]]
    BY <1>1, <1>2, <1>4 DEF ReplInv, TypeOK, NoPeers, NodeStatus
  <2>8. /\ \A q \in Requests : DOMAIN view'[q] \subseteq DOMAIN loaded'[q]
        /\ \A q \in Requests : \A i \in DOMAIN loaded'[q] : loaded'[q][i] \in Log
        /\ \A q \in Requests : \A i \in DOMAIN view'[q] : view'[q][i] \in Log
    BY <1>1, <1>2, <1>4 DEF ReplInv, TypeOK, Shapes
  <2> QED
    BY <2>1, <2>2, <2>3, <2>4, <2>5, <2>6, <2>7, <2>8 DEF TypeOK
<1>7. Shapes'
    BY <1>1, <1>2, <1>3, <1>4, <1>5 DEF ReplInv, Shapes
<1>8. Holders'
    BY <1>1, <1>2, <1>3, <1>4, <1>5 DEF ReplInv, Holders
<1>9. RowsOfWrites'
    BY <1>1, <1>2, <1>3, <1>4, <1>5 DEF ReplInv, RowsOfWrites, Written
<1>10. Tasks'
    BY <1>1, <1>2, <1>3, <1>4, <1>5 DEF ReplInv, Tasks, Written
<1>11. Named'
    BY <1>1, <1>2, <1>3, <1>4, <1>5 DEF ReplInv, Named
<1>12. AckedReceived'
    BY <1>1, <1>2, <1>3, <1>4, <1>5 DEF ReplInv, AckedReceived, Received,
       Acked
<1>13. LoadedFailed'
    BY <1>1, <1>2, <1>3, <1>4, <1>5 DEF ReplInv, LoadedFailed
<1>14. DraftKeeps'
    BY <1>1, <1>2, <1>3, <1>4, <1>5 DEF ReplInv, DraftKeeps, Acked, TypeOK,
       TablesOK, Shapes, Holders, RowsOfWrites, Written
<1>15. NoneSpent'
    BY <1>1, <1>2, <1>3, <1>4, <1>5 DEF ReplInv, NoneSpent, Spent
<1>16. NoSilentLoss'
    BY <1>1, <1>2, <1>3, <1>4, <1>5 DEF ReplInv, NoSilentLoss
<1>17. Numbered'
    BY <1>1, <1>2, <1>3, <1>4, <1>5 DEF ReplInv, Numbered, SeqUnique,
       Numerable
<1>18. Followed'
    BY <1>1, <1>2, <1>3, <1>4, <1>5 DEF ReplInv, Followed, FeedOrdered
<1> QED
    BY <1>6, <1>7, <1>8, <1>9, <1>10, <1>11, <1>12, <1>13, <1>14, <1>15,
       <1>16, <1>17, <1>18 DEF ReplInv

LEMMA RetryFlushWrites ==
    ASSUME ReplInv, NEW r \in Requests, RetryFlush(r), view[r] # NoLogs
    PROVE  ReplInv'
<1>1. /\ pc[r] = "retrying" /\ pc' = [pc EXCEPT ![r] = "synced"] /\ todo[r] = {}
      /\ UNCHANGED <<db, blobs, stored, rec, todo, loaded, view, peers,
                     cursor, pulled, posted, cleared>>
      /\ writer' = r /\ writer = NoRequest /\ draft = db
      /\ DOMAIN view[r] \subseteq DOMAIN db.logs
    BY DEF RetryFlush, Goto, Write, locals, session, feed, past, ReplInv, TypeOK
<1> DEFINE dead == {i \in DOMAIN view[r] : Exhausted(view[r][i])}
           upd(i) == IF i \in DOMAIN view[r] THEN Updated(db.logs[i], loaded[r][i], view[r][i])
                                             ELSE db.logs[i]
<1>2. /\ Shaped(draft')
      /\ draft'.row = db.row /\ draft'.node = db.node
      /\ draft'.dead = db.dead \cup dead
      /\ DOMAIN draft'.logs = DOMAIN db.logs \ dead
      /\ \A i \in DOMAIN draft'.logs : draft'.logs[i] = upd(i)
  <2> DEFINE tabs == [db EXCEPT !.logs = [i \in DOMAIN db.logs |-> upd(i)]]
  <2>1. /\ Shaped(tabs) /\ tabs.row = db.row /\ tabs.node = db.node /\ tabs.dead = db.dead
        /\ tabs.logs = [i \in DOMAIN db.logs |-> upd(i)]
    BY DEF ReplInv, Shapes, Shaped
  <2>2. draft' = WithDeadLetters(tabs, view[r])
    BY DEF RetryFlush, Write, ReplInv, Shapes, Shaped
  <2>3. /\ DOMAIN tabs.logs = DOMAIN db.logs
        /\ \A i \in DOMAIN db.logs : tabs.logs[i] = upd(i)
    BY <2>1
  <2> HIDE DEF tabs, dead, upd
  <2>4. /\ Shaped(draft')
        /\ draft'.row = tabs.row /\ draft'.node = tabs.node
        /\ draft'.dead = tabs.dead \cup dead
        /\ DOMAIN draft'.logs = DOMAIN tabs.logs \ dead
        /\ \A i \in DOMAIN draft'.logs : draft'.logs[i] = tabs.logs[i]
    BY <2>1, <2>2, DeadLettersTaken DEF dead
  <2> QED
    BY <2>1, <2>3, <2>4
<1>3. ASSUME NEW i \in DOMAIN db.logs
      PROVE  /\ upd(i) \in Log
             /\ upd(i).record = db.logs[i].record /\ upd(i).seq = db.logs[i].seq
             /\ upd(i).status = "acked" =>
                   \/ Acked(db.logs[i])
                   \/ i \in DOMAIN view[r] /\ Acked(view[r][i])
             /\ Acked(db.logs[i]) => Acked(upd(i))
             /\ i \in DOMAIN view[r] => i \in LogIds /\ view[r][i].record = db.logs[i].record
             /\ Spent(upd(i)) => i \in dead
  <2>1. db.logs[i] \in Log /\ ~Spent(db.logs[i]) /\ i \in LogIds
    BY DEF ReplInv, TypeOK, TablesOK, NoneSpent
  <2>2. CASE i \in DOMAIN view[r]
    <3>1. /\ i \in DOMAIN loaded[r] /\ loaded[r][i] \in Log /\ view[r][i] \in Log
          /\ loaded[r][i].status = "failed"
          /\ view[r][i].record = db.logs[i].record
      BY <2>2 DEF ReplInv, TypeOK, LoadedFailed, Named
    <3>2. upd(i) = Updated(db.logs[i], loaded[r][i], view[r][i])
      BY <2>2
    <3>3. /\ upd(i) \in Log
          /\ upd(i).record = db.logs[i].record /\ upd(i).seq = db.logs[i].seq
          /\ upd(i).status = IF view[r][i].status = "failed" THEN db.logs[i].status
                                                              ELSE "acked"
          /\ upd(i).retries \in {db.logs[i].retries, view[r][i].retries}
      BY <2>1, <3>1, <3>2 DEF Updated, Log
    <3> HIDE DEF upd
    <3> QED
      BY <2>1, <2>2, <3>1, <3>3 DEF Acked, Spent, Exhausted, Log
  <2>3. CASE i \notin DOMAIN view[r]
    BY <2>1, <2>3 DEF Acked
  <2> QED
    BY <2>2, <2>3
<1>4. \A i \in dead : i \in DOMAIN view[r] /\ i \in DOMAIN loaded[r]
    BY DEF ReplInv, TypeOK
<1>5. IsFiniteSet(DOMAIN draft'.logs)
  <2>1. IsFiniteSet(DOMAIN draft.logs) /\ IsFiniteSet(DOMAIN db.logs)
    BY DEF ReplInv, Numbered, Numerable
  <2> QED
    BY <1>2, <2>1, FS_Subset
<1>6. NoRequest \notin Requests
    BY ReplicationAssumption
<1> HIDE DEF dead, upd
<1>7. TypeOK'
    BY <1>1, <1>2, <1>3, <1>4, <1>5, <1>6 DEF ReplInv, TypeOK, TablesOK,
       Active, Ended
<1>8. Shapes'
    BY <1>1, <1>2, <1>3, <1>4, <1>5, <1>6 DEF ReplInv, Shapes
<1>9. Holders'
    BY <1>1, <1>2, <1>3, <1>4, <1>5, <1>6 DEF ReplInv, Holders, TypeOK,
       TablesOK
<1>10. RowsOfWrites'
    BY <1>1, <1>2, <1>3, <1>4, <1>5, <1>6 DEF ReplInv, RowsOfWrites, Written
<1>11. Tasks'
    BY <1>1, <1>2, <1>3, <1>4, <1>5, <1>6 DEF ReplInv, Tasks, Written
<1>12. Named'
    BY <1>1, <1>2, <1>3, <1>4, <1>5, <1>6 DEF ReplInv, Named
<1>13. AckedReceived'
    BY <1>1, <1>2, <1>3, <1>4, <1>5, <1>6 DEF ReplInv, AckedReceived,
       Received, Acked
<1>14. LoadedFailed'
    BY <1>1, <1>2, <1>3, <1>4, <1>5, <1>6 DEF ReplInv, LoadedFailed
<1>15. DraftKeeps'
    BY <1>1, <1>2, <1>3, <1>4, <1>5, <1>6 DEF ReplInv, DraftKeeps, Acked,
       TypeOK, TablesOK, Shapes, Holders, RowsOfWrites, Written
<1>16. NoneSpent'
    BY <1>1, <1>2, <1>3, <1>4, <1>5, <1>6 DEF ReplInv, NoneSpent, Spent
<1>17. NoSilentLoss'
    BY <1>1, <1>2, <1>3, <1>4, <1>5, <1>6 DEF ReplInv, NoSilentLoss
<1>18. Numbered'
    BY <1>1, <1>2, <1>3, <1>4, <1>5, <1>6 DEF ReplInv, Numbered, SeqUnique,
       Numerable
<1>19. Followed'
    BY <1>1, <1>2, <1>3, <1>4, <1>5, <1>6 DEF ReplInv, Followed, FeedOrdered
<1> QED
    BY <1>7, <1>8, <1>9, <1>10, <1>11, <1>12, <1>13, <1>14, <1>15, <1>16,
       <1>17, <1>18, <1>19 DEF ReplInv

LEMMA SyncedWithoutDML ==
    ASSUME ReplInv, NEW r \in Requests, pc[r] \in {"retrying", "resetting"}, todo[r] = {},
           Goto(r, "synced"), UNCHANGED <<tables, blobs, stored, locals, feed, past>>
    PROVE  ReplInv'
<1>1. /\ pc[r] \in {"retrying", "resetting"} /\ pc' = [pc EXCEPT ![r] = "synced"] /\ todo[r] = {}
      /\ UNCHANGED <<db, draft, writer, blobs, stored, rec, todo, loaded, view, peers,
                     cursor, pulled, posted, cleared>>
    BY DEF Goto, tables, locals, session, feed, past
<1>2. TypeOK'
    BY <1>1 DEF ReplInv, TypeOK, TablesOK, Active, Ended
<1>3. Shapes'
    BY <1>1 DEF ReplInv, Shapes
<1>4. Holders'
    BY <1>1 DEF ReplInv, Holders
<1>5. RowsOfWrites'
    BY <1>1 DEF ReplInv, RowsOfWrites, Written
<1>6. Tasks'
    BY <1>1 DEF ReplInv, Tasks, Written
<1>7. Named'
    BY <1>1 DEF ReplInv, Named
<1>8. AckedReceived'
    BY <1>1 DEF ReplInv, AckedReceived, Received, Acked
<1>9. LoadedFailed'
    BY <1>1 DEF ReplInv, LoadedFailed
<1>10. DraftKeeps'
    BY <1>1 DEF ReplInv, DraftKeeps, Acked, TypeOK, TablesOK, Shapes, Holders,
       RowsOfWrites, Written
<1>11. NoneSpent'
    BY <1>1 DEF ReplInv, NoneSpent, Spent
<1>12. NoSilentLoss'
    BY <1>1 DEF ReplInv, NoSilentLoss
<1>13. Numbered'
    BY <1>1 DEF ReplInv, Numbered, SeqUnique, Numerable
<1>14. Followed'
    BY <1>1 DEF ReplInv, Followed, FeedOrdered
<1> QED
    BY <1>2, <1>3, <1>4, <1>5, <1>6, <1>7, <1>8, <1>9, <1>10, <1>11, <1>12,
       <1>13, <1>14 DEF ReplInv

LEMMA ResetDeleteWrites ==
    ASSUME ReplInv, NEW r \in Requests, ResetDelete(r), todo[r] # {}
    PROVE  ReplInv'
<1>1. /\ pc[r] = "resetting" /\ pc' = [pc EXCEPT ![r] = "synced"]
      /\ UNCHANGED <<db, blobs, stored, rec, todo, loaded, view, peers,
                     cursor, pulled, posted, cleared>>
      /\ writer' = r /\ writer = NoRequest /\ draft = db
    BY DEF ResetDelete, Goto, Write, locals, session, feed, past, ReplInv, TypeOK
<1>2. /\ Shaped(draft')
      /\ draft'.row = db.row /\ draft'.node = db.node /\ draft'.dead = db.dead
      /\ DOMAIN draft'.logs = DOMAIN db.logs \ todo[r]
      /\ \A i \in DOMAIN draft'.logs : draft'.logs[i] = db.logs[i]
    BY DEF ResetDelete, Write, Restrict, ReplInv, Shapes, Shaped
<1>3. IsFiniteSet(DOMAIN draft'.logs)
  <2>1. IsFiniteSet(DOMAIN draft.logs) /\ IsFiniteSet(DOMAIN db.logs)
    BY DEF ReplInv, Numbered, Numerable
  <2> QED
    BY <1>2, <2>1, FS_Subset
<1>4. NoRequest \notin Requests
    BY ReplicationAssumption
<1>5. TypeOK'
    BY <1>1, <1>2, <1>3, <1>4 DEF ReplInv, TypeOK, TablesOK, Active, Ended
<1>6. Shapes'
    BY <1>1, <1>2, <1>3, <1>4 DEF ReplInv, Shapes
<1>7. Holders'
    BY <1>1, <1>2, <1>3, <1>4 DEF ReplInv, Holders, TypeOK, TablesOK
<1>8. RowsOfWrites'
    BY <1>1, <1>2, <1>3, <1>4 DEF ReplInv, RowsOfWrites, Written
<1>9. Tasks'
    BY <1>1, <1>2, <1>3, <1>4 DEF ReplInv, Tasks, Written
<1>10. Named'
    BY <1>1, <1>2, <1>3, <1>4 DEF ReplInv, Named
<1>11. AckedReceived'
    BY <1>1, <1>2, <1>3, <1>4 DEF ReplInv, AckedReceived, Received, Acked
<1>12. LoadedFailed'
    BY <1>1, <1>2, <1>3, <1>4 DEF ReplInv, LoadedFailed
<1>13. DraftKeeps'
    BY <1>1, <1>2, <1>3, <1>4 DEF ReplInv, DraftKeeps, Acked, TypeOK,
       TablesOK, Shapes, Holders, RowsOfWrites, Written
<1>14. NoneSpent'
    BY <1>1, <1>2, <1>3, <1>4 DEF ReplInv, NoneSpent, Spent
<1>15. NoSilentLoss'
    BY <1>1, <1>2, <1>3, <1>4 DEF ReplInv, NoSilentLoss
<1>16. Numbered'
    BY <1>1, <1>2, <1>3, <1>4 DEF ReplInv, Numbered, SeqUnique, Numerable
<1>17. Followed'
    BY <1>1, <1>2, <1>3, <1>4 DEF ReplInv, Followed, FeedOrdered
<1> QED
    BY <1>5, <1>6, <1>7, <1>8, <1>9, <1>10, <1>11, <1>12, <1>13, <1>14, <1>15,
       <1>16, <1>17 DEF ReplInv

LEMMA CommitWrites ==
    ASSUME ReplInv, NEW r \in Requests, Commit(r), writer = r PROVE ReplInv'
<1>1. /\ pc[r] = "synced" /\ pc' = [pc EXCEPT ![r] = "done"]
      /\ todo' = [todo EXCEPT ![r] = {}]
      /\ loaded' = [loaded EXCEPT ![r] = NoLogs]
      /\ view' = [view EXCEPT ![r] = NoLogs]
      /\ peers' = [peers EXCEPT ![r] = NoPeers]
      /\ UNCHANGED <<draft, blobs, stored, rec, cursor, pulled>>
      /\ writer = r /\ writer' = NoRequest /\ db' = draft
      /\ posted' = posted \cup DOMAIN draft.logs \cup draft.dead
      /\ cleared' = cleared \cup todo[r]
    BY DEF Commit, Leave, Goto, feed
<1>2. DOMAIN NoLogs = {} /\ NoRequest \notin Requests
    BY NoRowsInNoLogs, ReplicationAssumption
<1>3. TypeOK'
  <2>1. TablesOK(db') /\ TablesOK(draft')
    BY <1>1, <1>2 DEF ReplInv, TypeOK, TablesOK
  <2>2. /\ writer' \in Requests \cup {NoRequest}
        /\ writer' = NoRequest => draft' = db'
    BY <1>1, <1>2 DEF ReplInv, TypeOK
  <2>3. writer' # NoRequest => pc'[writer'] \in Active
    BY <1>1, <1>2 DEF ReplInv, TypeOK, Holders, Active
  <2>4. /\ blobs' \subseteq Records
        /\ stored' \in [Nodes -> SUBSET Records]
        /\ rec' \in [Requests -> Records]
    BY <1>1, <1>2 DEF ReplInv, TypeOK
  <2>5. pc' \in [Requests -> {"idle"} \cup Active \cup Ended]
    BY <1>1, <1>2 DEF ReplInv, TypeOK, Active, Ended
  <2>6. /\ todo' \in [Requests -> SUBSET LogIds]
        /\ cursor' \in [Nodes -> Nat] /\ pulled' \in [Nodes -> SUBSET LogIds]
    BY <1>1, <1>2 DEF ReplInv, TypeOK, TablesOK
  <2>7. peers' \in [Requests -> [Nodes -> NodeStatus]]
    BY <1>1, <1>2 DEF ReplInv, TypeOK, NoPeers, NodeStatus
  <2>8. /\ \A q \in Requests : DOMAIN view'[q] \subseteq DOMAIN loaded'[q]
        /\ \A q \in Requests : \A i \in DOMAIN loaded'[q] : loaded'[q][i] \in Log
        /\ \A q \in Requests : \A i \in DOMAIN view'[q] : view'[q][i] \in Log
    BY <1>1, <1>2 DEF ReplInv, TypeOK, Shapes
  <2> QED
    BY <2>1, <2>2, <2>3, <2>4, <2>5, <2>6, <2>7, <2>8 DEF TypeOK
<1>4. Shapes'
    BY <1>1, <1>2 DEF ReplInv, Shapes, TypeOK, TablesOK
<1>5. Holders'
    BY <1>1, <1>2 DEF ReplInv, Holders
<1>6. RowsOfWrites'
    BY <1>1, <1>2 DEF ReplInv, RowsOfWrites, Written, TypeOK, TablesOK,
       Shapes, Holders, Tasks, Named, DraftKeeps, Active, LogIds
<1>7. Tasks'
    BY <1>1, <1>2 DEF ReplInv, Tasks, Written, TypeOK, TablesOK
<1>8. Named'
    BY <1>1, <1>2 DEF ReplInv, Named
<1>9. AckedReceived'
    BY <1>1, <1>2 DEF ReplInv, AckedReceived, Received, Acked
<1>10. LoadedFailed'
    BY <1>1, <1>2 DEF ReplInv, LoadedFailed
<1>11. DraftKeeps'
    BY <1>1, <1>2 DEF ReplInv, DraftKeeps, Acked, TypeOK, TablesOK, Shapes,
       Holders, RowsOfWrites, Written
<1>12. NoneSpent'
    BY <1>1, <1>2 DEF ReplInv, NoneSpent, Spent
<1>13. NoSilentLoss'
    BY <1>1, <1>2 DEF ReplInv, NoSilentLoss, TypeOK, TablesOK, Shapes,
       Holders, RowsOfWrites, Written, Tasks, Named, DraftKeeps,
       AckedReceived, Received, Acked, NoneSpent, Spent, LoadedFailed,
       Numbered, Active, LogIds, Log
<1>14. Numbered'
    BY <1>1, <1>2 DEF ReplInv, Numbered, SeqUnique, Numerable
<1>15. Followed'
  <2>1. ASSUME db'.dead = {}, cleared' = {}
        PROVE  /\ db.dead = {} /\ cleared = {}
               /\ DOMAIN db.logs \subseteq DOMAIN draft.logs
               /\ \A i \in DOMAIN db.logs : draft.logs[i].seq = db.logs[i].seq
    BY <1>1, <2>1 DEF ReplInv, DraftKeeps, Numbered
  <2>2. ASSUME db'.dead = {}, cleared' = {}, NEW n \in Nodes
        PROVE  /\ \/ cursor[n] = 0
                  \/ \E i \in DOMAIN draft.logs : cursor[n] <= draft.logs[i].seq
               /\ \A i \in DOMAIN draft.logs : draft.logs[i].seq <= cursor[n] => i \in pulled[n]
    <3>1. \/ cursor[n] = 0
          \/ \E i \in DOMAIN db.logs : cursor[n] <= db.logs[i].seq
      BY <2>1, <2>2 DEF ReplInv, Followed
    <3>2. \A i \in DOMAIN db.logs : db.logs[i].seq <= cursor[n] => i \in pulled[n]
      BY <2>1, <2>2 DEF ReplInv, Followed, FeedOrdered
    <3>3. \A i \in DOMAIN draft.logs : draft.logs[i].seq \in Nat /\ draft.logs[i].seq # 0
      BY DEF ReplInv, TypeOK, TablesOK, Log, Numbered, Numerable
    <3>4. \A i \in DOMAIN draft.logs \ DOMAIN db.logs, j \in DOMAIN db.logs :
             draft.logs[j].seq < draft.logs[i].seq
      BY <2>1, <2>2 DEF ReplInv, Numbered
    <3>5. cursor[n] \in Nat
      BY DEF ReplInv, TypeOK
    <3>6. ASSUME NEW i \in DOMAIN draft.logs \ DOMAIN db.logs
          PROVE  ~(draft.logs[i].seq <= cursor[n])
      BY <2>1, <2>2, <3>1, <3>3, <3>4, <3>5
    <3> QED
      BY <2>1, <2>2, <3>1, <3>2, <3>6
  <2> QED
    BY <1>1, <2>2 DEF Followed, FeedOrdered
<1> QED
    BY <1>3, <1>4, <1>5, <1>6, <1>7, <1>8, <1>9, <1>10, <1>11, <1>12, <1>13,
       <1>14, <1>15 DEF ReplInv

LEMMA CommitOfReader ==
    ASSUME ReplInv, NEW r \in Requests, Commit(r), writer # r PROVE ReplInv'
<1>1. /\ pc[r] = "synced" /\ pc' = [pc EXCEPT ![r] = "done"]
      /\ todo' = [todo EXCEPT ![r] = {}]
      /\ loaded' = [loaded EXCEPT ![r] = NoLogs]
      /\ view' = [view EXCEPT ![r] = NoLogs]
      /\ peers' = [peers EXCEPT ![r] = NoPeers]
      /\ UNCHANGED <<db, draft, writer, blobs, stored, rec, cursor, pulled, posted, cleared>>
      /\ writer # r
    BY DEF Commit, Leave, Goto, feed, tables, past
<1>2. DOMAIN NoLogs = {} /\ NoRequest \notin Requests
    BY NoRowsInNoLogs, ReplicationAssumption
<1>3. TypeOK'
  <2>1. TablesOK(db') /\ TablesOK(draft')
    BY <1>1, <1>2 DEF ReplInv, TypeOK, TablesOK
  <2>2. /\ writer' \in Requests \cup {NoRequest}
        /\ writer' = NoRequest => draft' = db'
    BY <1>1, <1>2 DEF ReplInv, TypeOK
  <2>3. writer' # NoRequest => pc'[writer'] \in Active
    BY <1>1, <1>2 DEF ReplInv, TypeOK, Holders, Active
  <2>4. /\ blobs' \subseteq Records
        /\ stored' \in [Nodes -> SUBSET Records]
        /\ rec' \in [Requests -> Records]
    BY <1>1, <1>2 DEF ReplInv, TypeOK
  <2>5. pc' \in [Requests -> {"idle"} \cup Active \cup Ended]
    BY <1>1, <1>2 DEF ReplInv, TypeOK, Active, Ended
  <2>6. /\ todo' \in [Requests -> SUBSET LogIds]
        /\ cursor' \in [Nodes -> Nat] /\ pulled' \in [Nodes -> SUBSET LogIds]
    BY <1>1, <1>2 DEF ReplInv, TypeOK, TablesOK
  <2>7. peers' \in [Requests -> [Nodes -> NodeStatus]]
    BY <1>1, <1>2 DEF ReplInv, TypeOK, NoPeers, NodeStatus
  <2>8. /\ \A q \in Requests : DOMAIN view'[q] \subseteq DOMAIN loaded'[q]
        /\ \A q \in Requests : \A i \in DOMAIN loaded'[q] : loaded'[q][i] \in Log
        /\ \A q \in Requests : \A i \in DOMAIN view'[q] : view'[q][i] \in Log
    BY <1>1, <1>2 DEF ReplInv, TypeOK, Shapes
  <2> QED
    BY <2>1, <2>2, <2>3, <2>4, <2>5, <2>6, <2>7, <2>8 DEF TypeOK
<1>4. Shapes'
    BY <1>1, <1>2 DEF ReplInv, Shapes, TypeOK, TablesOK
<1>5. Holders'
    BY <1>1, <1>2 DEF ReplInv, Holders
<1>6. RowsOfWrites'
    BY <1>1, <1>2 DEF ReplInv, RowsOfWrites, Written
<1>7. Tasks'
    BY <1>1, <1>2 DEF ReplInv, Tasks, Written, TypeOK, TablesOK
<1>8. Named'
    BY <1>1, <1>2 DEF ReplInv, Named
<1>9. AckedReceived'
    BY <1>1, <1>2 DEF ReplInv, AckedReceived, Received, Acked
<1>10. LoadedFailed'
    BY <1>1, <1>2 DEF ReplInv, LoadedFailed
<1>11. DraftKeeps'
    BY <1>1, <1>2 DEF ReplInv, DraftKeeps, Acked, TypeOK, TablesOK, Shapes,
       Holders, RowsOfWrites, Written
<1>12. NoneSpent'
    BY <1>1, <1>2 DEF ReplInv, NoneSpent, Spent
<1>13. NoSilentLoss'
    BY <1>1, <1>2 DEF ReplInv, NoSilentLoss
<1>14. Numbered'
    BY <1>1, <1>2 DEF ReplInv, Numbered, SeqUnique, Numerable
<1>15. Followed'
    BY <1>1, <1>2 DEF ReplInv, Followed, FeedOrdered
<1> QED
    BY <1>3, <1>4, <1>5, <1>6, <1>7, <1>8, <1>9, <1>10, <1>11, <1>12, <1>13,
       <1>14, <1>15 DEF ReplInv

LEMMA PullKeeps == ASSUME ReplInv, NEW n \in Nodes, Pull(n) PROVE ReplInv'
<1> DEFINE new == ChangesSince(cursor[n])
<1>1. /\ cursor' = [cursor EXCEPT ![n] = HighestSeq(new)]
      /\ pulled' = [pulled EXCEPT ![n] = @ \cup DOMAIN new]
      /\ UNCHANGED <<db, draft, writer, blobs, stored, pc, rec, todo, loaded, view, peers,
                     posted, cleared>>
    BY DEF Pull, tables, locals, session, past
<1>2. /\ DOMAIN new = {i \in DOMAIN db.logs : db.logs[i].seq > cursor[n]}
      /\ \A i \in DOMAIN new : new[i] = db.logs[i]
    BY DEF ChangesSince, RestrictValues, Restrict
<1>3. \A i \in DOMAIN db.logs : db.logs[i].seq \in Nat /\ i \in LogIds
    BY DEF ReplInv, TypeOK, TablesOK, Log
<1>4. /\ HighestSeq(new) \in Nat
      /\ \A i \in DOMAIN new : new[i].seq <= HighestSeq(new)
      /\ HighestSeq(new) = 0 \/ \E i \in DOMAIN new : HighestSeq(new) = new[i].seq
  <2>1. IsFiniteSet(DOMAIN new)
    BY <1>2, FS_Subset DEF ReplInv, Numbered, Numerable
  <2> HIDE DEF new
  <2> QED
    BY <1>2, <1>3, <2>1, Highest
<1> HIDE DEF new
<1>5. TypeOK'
    BY <1>1, <1>2, <1>3, <1>4 DEF ReplInv, TypeOK, TablesOK, Active, Ended
<1>6. Shapes'
    BY <1>1, <1>2, <1>3, <1>4 DEF ReplInv, Shapes
<1>7. Holders'
    BY <1>1, <1>2, <1>3, <1>4 DEF ReplInv, Holders
<1>8. RowsOfWrites'
    BY <1>1, <1>2, <1>3, <1>4 DEF ReplInv, RowsOfWrites, Written
<1>9. Tasks'
    BY <1>1, <1>2, <1>3, <1>4 DEF ReplInv, Tasks, Written
<1>10. Named'
    BY <1>1, <1>2, <1>3, <1>4 DEF ReplInv, Named
<1>11. AckedReceived'
    BY <1>1, <1>2, <1>3, <1>4 DEF ReplInv, AckedReceived, Received, Acked
<1>12. LoadedFailed'
    BY <1>1, <1>2, <1>3, <1>4 DEF ReplInv, LoadedFailed
<1>13. DraftKeeps'
    BY <1>1, <1>2, <1>3, <1>4 DEF ReplInv, DraftKeeps, Acked, TypeOK,
       TablesOK, Shapes, Holders, RowsOfWrites, Written
<1>14. NoneSpent'
    BY <1>1, <1>2, <1>3, <1>4 DEF ReplInv, NoneSpent, Spent
<1>15. NoSilentLoss'
    BY <1>1, <1>2, <1>3, <1>4 DEF ReplInv, NoSilentLoss
<1>16. Numbered'
    BY <1>1, <1>2, <1>3, <1>4 DEF ReplInv, Numbered, SeqUnique, Numerable
<1>17. Followed'
    BY <1>1, <1>2, <1>3, <1>4 DEF ReplInv, Followed, FeedOrdered, TypeOK,
       TablesOK, Shapes, Holders, RowsOfWrites, Written, Tasks, Named,
       DraftKeeps, AckedReceived, Received, Acked, NoneSpent, Spent,
       LoadedFailed, Numbered, Active, LogIds, Log
<1> QED
    BY <1>5, <1>6, <1>7, <1>8, <1>9, <1>10, <1>11, <1>12, <1>13, <1>14, <1>15,
       <1>16, <1>17 DEF ReplInv

(* The cases above cover every step. *)
LEMMA StepKeeps == ReplInv /\ [Next]_vars => ReplInv'
<1> SUFFICES ASSUME ReplInv, [Next]_vars PROVE ReplInv'
    OBVIOUS
<1>1. CASE UNCHANGED vars
  <2>1. UNCHANGED <<db, draft, writer, blobs, stored, pc, rec, todo, loaded, view, peers,
                    cursor, pulled, posted, cleared>>
    BY <1>1 DEF vars, tables, locals, session, feed, past
  <2> QED
    BY <2>1 DEF ReplInv, TypeOK, TablesOK, Shapes, Shaped, Holders, RowsOfWrites, Written,
            Tasks, Named, AckedReceived, Received, LoadedFailed, DraftKeeps, NoneSpent,
            NoSilentLoss, Numbered, SeqUnique, Followed, FeedOrdered
<1>2. CASE Crash
    BY <1>2, CrashKeeps
<1>3. ASSUME NEW n \in Nodes, RegisterNode(n) \/ UnregisterNode(n) \/ Pull(n) PROVE ReplInv'
    BY <1>3, AutocommitsKeep, PullKeeps
<1>4. ASSUME NEW x \in Records, PurgeRecord(x) PROVE ReplInv'
    BY <1>4, AutocommitsKeep
<1>5. ASSUME NEW r \in Requests, PutRecord(r) \/ DeleteRecord(r) \/ HealthFlush(r)
      PROVE  ReplInv'
    BY <1>5, FirstDMLsKeep
<1>6. ASSUME NEW r \in Requests,
             \/ SyncNobody(r) \/ SyncStart(r) \/ RetrySelect(r) \/ RetryNodes(r)
             \/ RetryFetch(r) \/ RetryRead(r) \/ RetrySkip(r) \/ ResetSelect(r) \/ HealthSelect(r)
      PROVE  ReplInv'
    BY <1>6, SyncNobodyKeeps, SyncStartKeeps, RetrySelectKeeps, RetryReadsKeep,
       RetrySkipKeeps, ResetSelectKeeps, HealthSelectKeeps
<1>7. ASSUME NEW r \in Requests, RetryMissing(r) \/ RetryPush(r) PROVE ReplInv'
    BY <1>7, RetriesKeep
<1>8. ASSUME NEW r \in Requests, Push(r) \/ SyncEnd(r) PROVE ReplInv'
    BY <1>8, PushKeeps, SyncEndKeeps
<1>9. ASSUME NEW r \in Requests, RetryFlush(r) PROVE ReplInv'
  <2>1. CASE view[r] # NoLogs
    BY <1>9, <2>1, RetryFlushWrites
  <2>2. CASE view[r] = NoLogs
    BY <1>9, <2>2, SyncedWithoutDML DEF RetryFlush
  <2> QED
    BY <2>1, <2>2
<1>10. ASSUME NEW r \in Requests, ResetDelete(r) PROVE ReplInv'
  <2>1. CASE todo[r] # {}
    BY <1>10, <2>1, ResetDeleteWrites
  <2>2. CASE todo[r] = {}
    BY <1>10, <2>2, SyncedWithoutDML DEF ResetDelete
  <2> QED
    BY <2>1, <2>2
<1>11. ASSUME NEW r \in Requests, Commit(r) PROVE ReplInv'
    BY <1>11, CommitWrites, CommitOfReader
<1>12. ASSUME NEW r \in Requests,
              \/ SyncNoBlob(r) \/ SyncUnnumbered(r) \/ RetryNoBlob(r)
              \/ RetryStale(r) \/ HealthStale(r) \/ Fail(r)
       PROVE  ReplInv'
  <2>1. /\ pc[r] \in Active /\ Rollback(r)
        /\ Leave(r, "failed") \/ Leave(r, "unnumbered")
        /\ UNCHANGED <<blobs, stored, rec, feed, past>>
    BY <1>12 DEF SyncNoBlob, SyncUnnumbered, RetryNoBlob, RetryStale, HealthStale, Fail, Active
  <2> QED
    BY <2>1, GivenUpKeeps
<1> QED
    BY <1>1, <1>2, <1>3, <1>4, <1>5, <1>6, <1>7, <1>8, <1>9, <1>10, <1>11, <1>12 DEF Next

-----------------------------------------------------------------------------
(* The theorems. *)

LEMMA InitHolds == Init => ReplInv
<1> SUFFICES ASSUME Init PROVE ReplInv
    OBVIOUS
<1>1. /\ DOMAIN NoLogs = {} /\ NoRequest \notin Requests
      /\ IsFiniteSet({})
    BY NoRowsInNoLogs, ReplicationAssumption, FS_EmptySet
<1>2. (CHOOSE x \in Records : TRUE) \in Records
    BY ReplicationAssumption
<1> DEFINE tabs == [row |-> [x \in Records |-> "absent"], node |-> NoPeers,
                    logs |-> NoLogs, dead |-> {}]
<1>3. /\ TablesOK(tabs) /\ Shaped(tabs) /\ Numerable(tabs.logs)
      /\ DOMAIN tabs.logs = {} /\ tabs.dead = {}
    BY <1>1 DEF TablesOK, Shaped, Numerable, NoPeers, RowStatus, NodeStatus
<1>4. /\ db = tabs /\ draft = tabs /\ writer = NoRequest
      /\ blobs = {} /\ stored = [n \in Nodes |-> {}]
      /\ pc = [r \in Requests |-> "idle"]
      /\ rec = [r \in Requests |-> CHOOSE x \in Records : TRUE]
      /\ todo = [r \in Requests |-> {}]
      /\ loaded = [r \in Requests |-> NoLogs] /\ view = [r \in Requests |-> NoLogs]
      /\ peers = [r \in Requests |-> NoPeers]
      /\ cursor = [n \in Nodes |-> 0] /\ pulled = [n \in Nodes |-> {}]
      /\ posted = {} /\ cleared = {}
    BY DEF Init
<1> HIDE DEF tabs
<1>5. TypeOK
    BY <1>1, <1>2, <1>3, <1>4 DEF TypeOK, NoPeers, NodeStatus
<1> QED
    BY <1>1, <1>3, <1>4, <1>5 DEF ReplInv, Shapes, Holders, RowsOfWrites, Tasks, Named,
       AckedReceived, LoadedFailed, DraftKeeps, NoneSpent, NoSilentLoss, Numbered,
       SeqUnique, Followed, FeedOrdered

(* The invariant, of which the theorems below are the parts a reader needs. *)
LEMMA InvariantHolds == Spec => []ReplInv
    BY InitHolds, StepKeeps, PTL DEF Spec

(* The tables, the sessions and the lock are of their kinds at any time. *)
THEOREM TypesHold == Spec => []TypeOK
<1>1. ReplInv => TypeOK
    BY DEF ReplInv
<1> QED
    BY <1>1, InvariantHolds, PTL

(* The numbers sync_record gives are unique in the log: whichever syncs roll
   back and whichever rows a retry or a reset takes out. *)
THEOREM NumbersUnique == Spec => []SeqUnique
<1>1. ReplInv => SeqUnique
    BY DEF ReplInv, Numbered
<1> QED
    BY <1>1, InvariantHolds, PTL

(* A row marked acked, by a sync or a retry, is about a blob that reached its
   standby, although pushes and answers are lost and transactions roll back. *)
THEOREM AckedAreStored == Spec => []AckedStored
<1>1. ReplInv => AckedStored
    BY DEF ReplInv, AckedReceived, Received, AckedStored
<1> QED
    BY <1>1, InvariantHolds, PTL

(* _process_dead_letter leaves no committed row without retries in the log. *)
THEOREM ExhaustedBecomeDead == Spec => []ExhaustedAreDead
<1>1. ReplInv => ExhaustedAreDead
    BY ReplicationAssumption DEF ReplInv, NoneSpent, Spent, ExhaustedAreDead,
       TypeOK, TablesOK, Log
<1> QED
    BY <1>1, InvariantHolds, PTL

(* Every change ever logged is received, retried, dead or reset. *)
THEOREM NothingLostSilently == Spec => []NoSilentLoss
<1>1. ReplInv => NoSilentLoss
    BY DEF ReplInv
<1> QED
    BY <1>1, InvariantHolds, PTL

(* get_changes_since hands a standby every row up to its cursor as long as no
   row was taken out of the log: numbers are committed in their order. *)
THEOREM FeedInOrder == Spec => []FeedOrdered
<1>1. ReplInv => FeedOrdered
    BY DEF ReplInv, Followed
<1> QED
    BY <1>1, InvariantHolds, PTL

-----------------------------------------------------------------------------
(* A standby ahead of the primary.  What it has received without a committed
   row is the record of a put that failed, or that holds the lock with the row
   in its transaction; and a row that was ever there never disappears. *)

NotCommitted(x) ==
    \E r \in Requests :
        /\ rec[r] = x
        /\ \/ pc[r] \in {"failed", "lost"}
           \/ pc[r] \in {"pushing", "synced"} /\ writer = r /\ draft.row[x] # "absent"

RowsKnown ==
    /\ \A x \in Records : db.row[x] # "absent" => draft.row[x] # "absent"
    /\ \A r \in Requests : pc[r] \in {"wrote", "pushing"} => draft.row[rec[r]] # "absent"
    /\ \A r \in Requests : pc[r] = "pushing" => rec[r] \in blobs
    /\ \A i \in DOMAIN db.logs : db.row[rec[i[1]]] # "absent"
    /\ \A i \in DOMAIN draft.logs : draft.row[rec[i[1]]] # "absent"
    /\ \A r \in Requests : \A i \in DOMAIN loaded[r] : db.row[rec[i[1]]] # "absent"

Ahead == \A n \in Nodes : \A x \in stored[n] :
             db.row[x] = "absent" => x \in blobs /\ NotCommitted(x)

AheadInv == RowsKnown /\ Ahead

(* Nothing is written: r reads, goes on to push, or retries. *)
LEMMA ReadersAhead ==
    ASSUME ReplInv, AheadInv, NEW r \in Requests, NEW to,
           UNCHANGED <<db, draft, writer, blobs, rec>>,
           pc' = [pc EXCEPT ![r] = to],
           pc[r] \notin {"pushing", "failed", "lost"}, pc[r] = "synced" => writer # r,
           to # "wrote", to = "pushing" => pc[r] = "wrote" /\ rec[r] \in blobs,
           \A q \in Requests : \A i \in DOMAIN loaded'[q] : i \in DOMAIN loaded[q] \cup DOMAIN db.logs,
           \A n \in Nodes : \A x \in stored'[n] : x \in stored[n] \/ db.row[x] # "absent"
    PROVE  AheadInv'
<1>1. pc \in [Requests -> {"idle"} \cup Active \cup Ended]
    BY DEF ReplInv, TypeOK
<1>2. RowsKnown'
    BY <1>1 DEF AheadInv, RowsKnown
<1>3. \A x : NotCommitted(x) => NotCommitted(x)'
    BY <1>1 DEF NotCommitted
<1>4. Ahead'
    BY <1>3 DEF AheadInv, Ahead
<1> QED
    BY <1>2, <1>4 DEF AheadInv

(* r takes the lock: it finds the tables as committed, and nobody pushes. *)
LEMMA WritersAhead ==
    ASSUME ReplInv, AheadInv, NEW r \in Requests, NEW to, NEW y \in Records,
           writer = NoRequest, UNCHANGED <<db, stored, loaded>>,
           pc' = [pc EXCEPT ![r] = to],
           pc[r] \notin {"wrote", "pushing", "failed", "lost"},
           \/ to = "synced" /\ rec' = rec
           \/ pc[r] = "idle" /\ to = "wrote" /\ rec' = [rec EXCEPT ![r] = y]
              /\ draft'.row[y] # "absent",
           \A x \in Records : db.row[x] # "absent" => draft'.row[x] # "absent",
           DOMAIN draft'.logs \subseteq DOMAIN db.logs,
           \A x \in blobs : db.row[x] = "absent" => x \in blobs'
    PROVE  AheadInv'
<1>1. /\ pc \in [Requests -> {"idle"} \cup Active \cup Ended] /\ rec \in [Requests -> Records]
      /\ NoRequest \notin Requests
      /\ stored \in [Nodes -> SUBSET Records]
      /\ \A q \in Requests : pc[q] \notin {"wrote", "pushing"}
      /\ \A i \in DOMAIN db.logs : i[1] \in Requests /\ pc[i[1]] = "done"
      /\ \A q \in Requests : \A i \in DOMAIN loaded[q] : i[1] \in Requests /\ pc[i[1]] = "done"
    BY ReplicationAssumption
       DEF ReplInv, TypeOK, TablesOK, LogIds, Shapes, Holders, RowsOfWrites, Written
<1>2. \A q \in Requests : rec'[q] = rec[q] \/ (q = r /\ pc[r] = "idle")
    BY <1>1
<1>3. \A q \in Requests : rec'[q] \in Records
    BY <1>1
<1>4. RowsKnown'
  <2>1. \A q \in Requests : pc'[q] \in {"wrote", "pushing"} => draft'.row[rec'[q]] # "absent" /\ pc'[q] # "pushing"
    BY <1>1
  <2>2. \A i \in DOMAIN db.logs : db.row[rec'[i[1]]] # "absent" /\ rec'[i[1]] \in Records
    BY <1>1, <1>2, <1>3 DEF AheadInv, RowsKnown
  <2>3. \A q \in Requests : \A i \in DOMAIN loaded[q] : db.row[rec'[i[1]]] # "absent"
    BY <1>1, <1>2 DEF AheadInv, RowsKnown
  <2> QED
    BY <2>1, <2>2, <2>3 DEF RowsKnown
<1>5. \A x : NotCommitted(x) => NotCommitted(x)'
    BY <1>1, <1>2 DEF NotCommitted
<1>6. Ahead'
    BY <1>1, <1>5 DEF AheadInv, Ahead
<1> QED
    BY <1>4, <1>6 DEF AheadInv

(* r holds the lock and pushes, or is done with pushing. *)
LEMMA PushersAhead ==
    ASSUME ReplInv, AheadInv, NEW r \in Requests, NEW to \in {"pushing", "synced"},
           pc[r] = "pushing", pc' = [pc EXCEPT ![r] = to], writer' = writer,
           UNCHANGED <<db, blobs, rec, loaded>>,
           draft'.row = draft.row,
           \A i \in DOMAIN draft'.logs : i \in DOMAIN draft.logs \/ i[1] = r,
           \A n \in Nodes : \A x \in stored'[n] : x \in stored[n] \/ x = rec[r]
    PROVE  AheadInv'
<1>1. pc \in [Requests -> {"idle"} \cup Active \cup Ended] /\ writer = r
    BY DEF ReplInv, TypeOK, Holders
<1>2. draft.row[rec[r]] # "absent" /\ rec[r] \in blobs
    BY DEF AheadInv, RowsKnown
<1>3. RowsKnown'
    BY <1>1, <1>2 DEF AheadInv, RowsKnown
<1>4. \A x : NotCommitted(x) => NotCommitted(x)'
    BY <1>1 DEF NotCommitted
<1>5. NotCommitted(rec[r])'
    BY <1>1, <1>2 DEF NotCommitted
<1>6. Ahead'
    BY <1>2, <1>4, <1>5 DEF AheadInv, Ahead
<1> QED
    BY <1>3, <1>6 DEF AheadInv

(* r gives up. *)
LEMMA GivenUpAhead ==
    ASSUME ReplInv, AheadInv, NEW r \in Requests, NEW how \in {"failed", "unnumbered"},
           Rollback(r), Leave(r, how), pc[r] \in Active, how = "unnumbered" => pc[r] = "wrote",
           UNCHANGED <<blobs, stored, rec>>
    PROVE  AheadInv'
<1>1. /\ pc \in [Requests -> {"idle"} \cup Active \cup Ended]
      /\ pc' = [pc EXCEPT ![r] = how] /\ db' = db
      /\ \A q \in Requests : pc[q] \in {"wrote", "pushing"} => writer = q
    BY DEF ReplInv, TypeOK, Holders, Leave, Goto, Rollback
<1>2. \A q \in Requests : \A i \in DOMAIN loaded'[q] : i \in DOMAIN loaded[q]
    BY NoRowsInNoLogs DEF Leave, ReplInv, Shapes
<1>3. \/ writer = r /\ writer' = NoRequest /\ draft' = db
      \/ writer # r /\ writer' = writer /\ draft' = draft
    BY DEF Rollback
<1>4. RowsKnown'
    BY <1>1, <1>2, <1>3 DEF AheadInv, RowsKnown
<1>5. \A x : NotCommitted(x) => NotCommitted(x)'
    BY <1>1, <1>3 DEF NotCommitted, Active
<1>6. Ahead'
    BY <1>1, <1>5 DEF AheadInv, Ahead
<1> QED
    BY <1>4, <1>6 DEF AheadInv

LEMMA CrashAhead == ASSUME ReplInv, AheadInv, Crash PROVE AheadInv'
<1>1. /\ pc \in [Requests -> {"idle"} \cup Active \cup Ended]
      /\ pc' = [q \in Requests |-> IF pc[q] \in Active THEN "lost" ELSE pc[q]]
      /\ UNCHANGED <<db, blobs, stored, rec>> /\ draft' = db /\ writer' = NoRequest
    BY DEF Crash, ReplInv, TypeOK
<1>2. \A q \in Requests : DOMAIN loaded'[q] = {}
    BY NoRowsInNoLogs DEF Crash
<1>3. RowsKnown'
    BY <1>1, <1>2 DEF AheadInv, RowsKnown, Active
<1>4. \A x : NotCommitted(x) => NotCommitted(x)'
    BY <1>1 DEF NotCommitted, Active
<1>5. Ahead'
    BY <1>1, <1>4 DEF AheadInv, Ahead
<1> QED
    BY <1>3, <1>5 DEF AheadInv

(* The holder of the lock commits: its row is there from now on. *)
LEMMA CommitAhead ==
    ASSUME ReplInv, AheadInv, NEW r \in Requests, Commit(r) PROVE AheadInv'
<1>1. /\ pc \in [Requests -> {"idle"} \cup Active \cup Ended] /\ stored \in [Nodes -> SUBSET Records]
      /\ rec \in [Requests -> Records] /\ DOMAIN draft.logs \subseteq LogIds /\ DOMAIN db.logs \subseteq LogIds
      /\ pc[r] = "synced" /\ pc' = [pc EXCEPT ![r] = "done"] /\ UNCHANGED <<blobs, stored, rec>>
      /\ \A q \in Requests : pc[q] \in {"wrote", "pushing"} => writer = q
      /\ \A q \in Requests : DOMAIN loaded[q] \subseteq LogIds
    BY DEF ReplInv, TypeOK, TablesOK, Shapes, Holders, Commit, Leave, Goto
<1>2. \A q \in Requests : \A i \in DOMAIN loaded'[q] : i \in DOMAIN loaded[q]
    BY NoRowsInNoLogs DEF Commit, Leave, ReplInv, Shapes
<1>3. CASE writer # r
  <2>1. UNCHANGED <<db, draft, writer>>
    BY <1>3 DEF Commit, tables
  <2> QED
    BY <1>1, <1>2, <1>3, <2>1, ReadersAhead
<1>4. CASE writer = r
  <2>1. db' = draft /\ draft' = draft /\ writer' = NoRequest
    BY <1>4 DEF Commit
  <2>2. \A i \in LogIds : rec[i[1]] \in Records
    BY <1>1 DEF LogIds
  <2>3. RowsKnown'
    BY <1>1, <1>2, <1>4, <2>1, <2>2 DEF AheadInv, RowsKnown
  <2>4. \A x : draft.row[x] = "absent" /\ NotCommitted(x) => NotCommitted(x)'
    BY <1>1, <1>4 DEF NotCommitted
  <2>5. Ahead'
    BY <1>1, <2>1, <2>4 DEF AheadInv, Ahead, RowsKnown
  <2> QED
    BY <2>3, <2>5 DEF AheadInv
<1> QED
    BY <1>3, <1>4

(* One statement of its own: a node comes or goes, a deleted row is purged. *)
LEMMA AutocommitsAhead ==
    ASSUME ReplInv, AheadInv, NEW tabs, Autocommit(tabs), UNCHANGED <<stored, pc, rec, loaded>>,
           tabs.logs = db.logs,
           \A x \in Records : (db.row[x] = "absent") <=> (tabs.row[x] = "absent"),
           \A x \in blobs : db.row[x] = "absent" => x \in blobs'
    PROVE  AheadInv'
<1>1. /\ writer = NoRequest /\ writer' = NoRequest /\ db' = tabs /\ draft' = tabs
      /\ rec \in [Requests -> Records] /\ DOMAIN db.logs \subseteq LogIds
      /\ stored \in [Nodes -> SUBSET Records] /\ NoRequest \notin Requests
      /\ \A q \in Requests : DOMAIN loaded[q] \subseteq LogIds
      /\ \A q \in Requests : pc[q] \notin {"wrote", "pushing"}
    BY ReplicationAssumption DEF Autocommit, ReplInv, TypeOK, TablesOK, Shapes, Holders
<1>2. \A i \in LogIds : rec[i[1]] \in Records
    BY <1>1 DEF LogIds
<1>3. RowsKnown'
    BY <1>1, <1>2 DEF AheadInv, RowsKnown
<1>4. \A x : NotCommitted(x) => NotCommitted(x)'
    BY <1>1 DEF NotCommitted
<1>5. Ahead'
    BY <1>1, <1>4 DEF AheadInv, Ahead
<1> QED
    BY <1>3, <1>5 DEF AheadInv

LEMMA AheadInit == Init => AheadInv
<1> SUFFICES ASSUME Init PROVE AheadInv
    OBVIOUS
<1>1. DOMAIN db.logs = {} /\ DOMAIN draft.logs = {} /\ draft.row = db.row
    BY NoRowsInNoLogs DEF Init
<1>2. \A q \in Requests : pc[q] = "idle" /\ DOMAIN loaded[q] = {}
    BY NoRowsInNoLogs DEF Init
<1>3. \A n \in Nodes : stored[n] = {}
    BY DEF Init
<1> QED
    BY <1>1, <1>2, <1>3 DEF AheadInv, RowsKnown, Ahead

LEMMA AheadStep == ReplInv /\ AheadInv /\ [Next]_vars => AheadInv'
<1> SUFFICES ASSUME ReplInv, AheadInv, [Next]_vars PROVE AheadInv'
    OBVIOUS
<1>0. /\ Shaped(db) /\ TablesOK(db) /\ blobs \in SUBSET Records /\ Shaped(draft)
      /\ rec \in [Requests -> Records] /\ loaded = [q \in Requests |-> loaded[q]]
      /\ pc \in [Requests -> {"idle"} \cup Active \cup Ended]
      /\ writer = NoRequest => draft = db
    BY DEF ReplInv, Shapes, TypeOK
<1>1. CASE UNCHANGED vars \/ \E n \in Nodes : Pull(n)
  <2>1. UNCHANGED <<db, draft, writer, blobs, stored, pc, rec, loaded>>
    BY <1>1 DEF Pull, vars, tables, locals, session
  <2> QED
    BY <2>1 DEF AheadInv, RowsKnown, Ahead, NotCommitted
<1>2. ASSUME NEW n \in Nodes, RegisterNode(n) \/ UnregisterNode(n) PROVE AheadInv'
  <2>1. PICK s \in NodeStatus : Autocommit([db EXCEPT !.node[n] = s])
    BY <1>2 DEF RegisterNode, UnregisterNode, NodeStatus
  <2>2. UNCHANGED <<blobs, stored, pc, rec, loaded>>
    BY <1>2 DEF RegisterNode, UnregisterNode, locals, session
  <2>3. [db EXCEPT !.node[n] = s].logs = db.logs /\ [db EXCEPT !.node[n] = s].row = db.row
    BY <1>0 DEF Shaped
  <2> QED
    BY <2>1, <2>2, <2>3, AutocommitsAhead
<1>3. ASSUME NEW x \in Records, PurgeRecord(x) PROVE AheadInv'
  <2> DEFINE tabs == [db EXCEPT !.row[x] = "purged"]
  <2>1. /\ Autocommit(tabs) /\ db.row[x] = "deleted" /\ blobs' = blobs \ {x}
        /\ UNCHANGED <<stored, pc, rec, loaded>>
    BY <1>3 DEF PurgeRecord, locals, session
  <2>2. tabs.logs = db.logs /\ \A y \in Records : (db.row[y] = "absent") <=> (tabs.row[y] = "absent")
    BY <1>0, <2>1 DEF Shaped, TablesOK
  <2> HIDE DEF tabs
  <2> QED
    BY <2>1, <2>2, AutocommitsAhead
<1>4. ASSUME NEW r \in Requests, PutRecord(r) \/ DeleteRecord(r) PROVE AheadInv'
  <2>1. PICK y \in Records, s \in {"live", "deleted"} :
           /\ Write(r, [db EXCEPT !.row[y] = s]) /\ rec' = [rec EXCEPT ![r] = y]
           /\ \A x \in blobs : db.row[x] = "absent" => x \in blobs'
    BY <1>4 DEF PutRecord, DeleteRecord
  <2>2. /\ pc[r] = "idle" /\ pc' = [pc EXCEPT ![r] = "wrote"] /\ writer = NoRequest
        /\ UNCHANGED <<stored, loaded>>
    BY <1>4 DEF PutRecord, DeleteRecord, Goto
  <2>3. /\ db' = db /\ draft' = [db EXCEPT !.row[y] = s]
    BY <2>1 DEF Write
  <2>4. /\ DOMAIN draft'.logs = DOMAIN db.logs /\ draft'.row = [db.row EXCEPT ![y] = s]
    BY <1>0, <2>3 DEF Shaped
  <2>5. \A x \in Records : (db.row[x] # "absent" => draft'.row[x] # "absent") /\ draft'.row[y] # "absent"
    BY <1>0, <2>4 DEF TablesOK
  <2> QED
    BY <2>1, <2>2, <2>3, <2>4, <2>5, WritersAhead
<1>5. ASSUME NEW r \in Requests, pc' = [pc EXCEPT ![r] = "synced"],
             pc[r] \in {"pinging", "retrying", "resetting"}, writer = NoRequest,
             UNCHANGED <<db, blobs, stored, loaded, rec>>, draft'.row = db.row,
             DOMAIN draft'.logs \subseteq DOMAIN db.logs
      PROVE  AheadInv'
  <2>1. rec[r] \in Records
    BY <1>0
  <2> QED
    BY <1>5, <2>1, WritersAhead
<1>6. ASSUME NEW r \in Requests, HealthFlush(r) PROVE AheadInv'
  <2>1. /\ pc[r] = "pinging" /\ writer = NoRequest /\ pc' = [pc EXCEPT ![r] = "synced"]
        /\ UNCHANGED <<db, blobs, stored, loaded, rec>>
    BY <1>6 DEF HealthFlush, Goto, Write, locals, session
  <2>2. PICK f : draft' = [db EXCEPT !.node = f]
    BY <1>6 DEF HealthFlush, Write
  <2>3. draft'.row = db.row /\ DOMAIN draft'.logs = DOMAIN db.logs
    BY <1>0, <2>2 DEF Shaped
  <2> QED
    BY <1>5, <2>1, <2>3
<1>7. ASSUME NEW r \in Requests, RetryFlush(r) \/ ResetDelete(r), UNCHANGED tables PROVE AheadInv'
  <2>1. /\ pc[r] \in {"retrying", "resetting"} /\ pc' = [pc EXCEPT ![r] = "synced"]
        /\ UNCHANGED <<db, draft, writer, blobs, stored, loaded, rec>>
    BY <1>7 DEF RetryFlush, ResetDelete, Goto, locals, session, tables
  <2> QED
    BY <2>1, ReadersAhead
<1>8. ASSUME NEW r \in Requests, RetryFlush(r), view[r] # NoLogs PROVE AheadInv'
  <2>1. /\ pc[r] = "retrying" /\ writer = NoRequest /\ pc' = [pc EXCEPT ![r] = "synced"]
        /\ UNCHANGED <<db, blobs, stored, loaded, rec>>
    BY <1>8 DEF RetryFlush, Goto, Write, locals, session
  <2> DEFINE ups == [i \in DOMAIN db.logs |->
                        IF i \in DOMAIN view[r] THEN Updated(db.logs[i], loaded[r][i], view[r][i])
                                                ELSE db.logs[i]]
             tabs == [db EXCEPT !.logs = ups]
  <2>2. draft' = WithDeadLetters(tabs, view[r])
    BY <1>0, <1>8 DEF RetryFlush, Write, Shaped
  <2>3. Shaped(tabs) /\ tabs.row = db.row /\ DOMAIN tabs.logs = DOMAIN db.logs
    BY <1>0 DEF Shaped
  <2> HIDE DEF tabs, ups
  <2>4. draft'.row = tabs.row /\ DOMAIN draft'.logs \subseteq DOMAIN tabs.logs
    BY <2>2, <2>3, DeadLettersTaken
  <2> QED
    BY <1>5, <2>1, <2>3, <2>4
<1>9. ASSUME NEW r \in Requests, ResetDelete(r), todo[r] # {} PROVE AheadInv'
  <2>1. /\ pc[r] = "resetting" /\ writer = NoRequest /\ pc' = [pc EXCEPT ![r] = "synced"]
        /\ UNCHANGED <<db, blobs, stored, loaded, rec>>
    BY <1>9 DEF ResetDelete, Goto, Write, locals, session
  <2>2. draft'.row = db.row /\ DOMAIN draft'.logs \subseteq DOMAIN db.logs
    BY <1>0, <1>9 DEF ResetDelete, Write, Restrict, Shaped
  <2> QED
    BY <1>5, <2>1, <2>2
<1>10. ASSUME NEW r \in Requests, Push(r) PROVE AheadInv'
  <2>1. PICK i \in todo[r], received \in BOOLEAN :
           /\ stored' = IF received THEN [stored EXCEPT ![i[2]] = @ \cup {rec[r]}] ELSE stored
           /\ \E log : draft' = [draft EXCEPT !.logs = WithRow(draft.logs, i, log)]
    BY <1>0, <1>10 DEF Push, Deliver, Write, Shaped
  <2>2. /\ pc[r] = "pushing" /\ pc' = [pc EXCEPT ![r] = "pushing"] /\ writer' = r
        /\ UNCHANGED <<db, blobs, rec, loaded>>
    BY <1>10 DEF Push, Goto, Write
  <2>3. writer = r /\ i[1] = r /\ i \in LogIds /\ stored \in [Nodes -> SUBSET Records]
    BY <2>1, <2>2 DEF ReplInv, TypeOK, Holders, Tasks
  <2>4. draft'.row = draft.row /\ DOMAIN draft'.logs = DOMAIN draft.logs \cup {i}
    BY <1>0, <2>1 DEF Shaped, WithRow
  <2>5. \A n \in Nodes : \A x \in stored'[n] : x \in stored[n] \/ x = rec[r]
    BY <2>1, <2>3
  <2> QED
    BY <2>2, <2>3, <2>4, <2>5, PushersAhead
<1>11. ASSUME NEW r \in Requests, SyncEnd(r) PROVE AheadInv'
  <2>1. /\ pc[r] = "pushing" /\ pc' = [pc EXCEPT ![r] = "synced"] /\ writer' = r
        /\ UNCHANGED <<db, blobs, stored, rec, loaded>>
    BY <1>11 DEF SyncEnd, Goto, Write, locals, session
  <2>2. writer = r
    BY <2>1 DEF ReplInv, Holders
  <2>3. draft'.row = draft.row /\ DOMAIN draft'.logs \subseteq DOMAIN draft.logs
    <3> DEFINE seen == RestrictDomain(draft.logs, LAMBDA i : i[1] = r)
    <3>1. draft' = WithDeadLetters(draft, seen)
      BY <1>11 DEF SyncEnd, Write
    <3> HIDE DEF seen
    <3> QED
      BY <1>0, <3>1, DeadLettersTaken
  <2> QED
    BY <2>1, <2>2, <2>3, PushersAhead
<1>12. ASSUME NEW r \in Requests, RetryMissing(r) \/ RetrySkip(r) PROVE AheadInv'
  <2>1. pc[r] = "retrying" /\ UNCHANGED <<db, draft, writer, blobs, stored, rec, loaded, pc>>
    BY <1>12 DEF RetryMissing, RetrySkip, tables
  <2>2. pc' = [pc EXCEPT ![r] = "retrying"]
    BY <1>0, <2>1
  <2> QED
    BY <2>1, <2>2, ReadersAhead
<1>13. ASSUME NEW r \in Requests, RetryPush(r) PROVE AheadInv'
  <2>1. PICK i \in todo[r], received \in BOOLEAN :
           stored' = IF received THEN [stored EXCEPT ![i[2]] = @ \cup {loaded[r][i].record}] ELSE stored
    BY <1>13 DEF RetryPush, IsNext, Deliver
  <2>2. /\ pc[r] = "read" /\ pc' = [pc EXCEPT ![r] = "retrying"]
        /\ UNCHANGED <<db, draft, writer, blobs, rec, loaded>>
    BY <1>0, <1>13 DEF RetryPush, Goto, tables
  <2>3. i \in DOMAIN loaded[r] /\ stored \in [Nodes -> SUBSET Records]
    BY <2>1, <2>2 DEF ReplInv, TypeOK, Tasks
  <2>4. db.row[loaded[r][i].record] # "absent"
    BY <2>3 DEF AheadInv, RowsKnown, ReplInv, Named
  <2>5. \A n \in Nodes : \A x \in stored'[n] : x \in stored[n] \/ db.row[x] # "absent"
    BY <2>1, <2>3, <2>4
  <2> QED
    BY <2>2, <2>5, ReadersAhead
<1>14. ASSUME NEW r \in Requests,
              \/ SyncNobody(r) \/ SyncStart(r) \/ RetryNodes(r) \/ RetryFetch(r) \/ RetryRead(r)
       PROVE  AheadInv'
  <2>1. /\ UNCHANGED <<db, draft, writer, blobs, stored, rec, loaded>>
        /\ pc[r] \in {"wrote", "loaded", "retrying", "fetched"}
    BY <1>14 DEF SyncNobody, SyncStart, RetryNodes, RetryFetch, RetryRead, tables, locals, session
  <2>2. PICK to : /\ pc' = [pc EXCEPT ![r] = to] /\ to # "wrote"
                  /\ to = "pushing" => pc[r] = "wrote" /\ rec[r] \in blobs
    BY <1>14 DEF SyncNobody, SyncStart, RetryNodes, RetryFetch, RetryRead, Goto
  <2> QED
    BY <2>1, <2>2, ReadersAhead
<1>15. ASSUME NEW r \in Requests, ResetSelect(r) \/ HealthSelect(r) PROVE AheadInv'
  <2>1. /\ UNCHANGED <<db, draft, writer, blobs, stored, rec, loaded>>
        /\ pc[r] = "idle"
    BY <1>15 DEF ResetSelect, HealthSelect, tables
  <2>2. PICK to \in {"resetting", "pinging"} : pc' = [pc EXCEPT ![r] = to]
    BY <1>15 DEF ResetSelect, HealthSelect, Goto
  <2> QED
    BY <2>1, <2>2, ReadersAhead
<1>16. ASSUME NEW r \in Requests, RetrySelect(r) PROVE AheadInv'
  <2>1. UNCHANGED <<db, draft, writer, blobs, stored, rec>> /\ pc[r] = "idle"
    BY <1>16 DEF RetrySelect, tables
  <2>2. PICK to \in {"done", "loaded"} : pc' = [pc EXCEPT ![r] = to]
    BY <1>16 DEF RetrySelect, Goto
  <2> DEFINE keep == RestrictValues(db.logs, LAMBDA log : log.status = "failed" /\ log.retries < RetryMax)
  <2>3. loaded' = [loaded EXCEPT ![r] = keep] /\ DOMAIN keep \subseteq DOMAIN db.logs
    <3>1. loaded' = [loaded EXCEPT ![r] = keep]
      BY <1>16 DEF RetrySelect
    <3>2. DOMAIN keep \subseteq DOMAIN db.logs
      BY DEF RestrictValues, Restrict
    <3> QED
      BY <3>1, <3>2
  <2> HIDE DEF keep
  <2>4. \A q \in Requests : \A i \in DOMAIN loaded'[q] : i \in DOMAIN loaded[q] \cup DOMAIN db.logs
    BY <1>0, <2>3
  <2> QED
    BY <2>1, <2>2, <2>4, ReadersAhead
<1>17. ASSUME NEW r \in Requests,
              \/ SyncNoBlob(r) \/ SyncUnnumbered(r) \/ RetryNoBlob(r)
              \/ RetryStale(r) \/ HealthStale(r) \/ Fail(r)
       PROVE  AheadInv'
  <2>1. /\ Rollback(r) /\ pc[r] \in Active /\ UNCHANGED <<blobs, stored, rec>>
        /\ Leave(r, "failed") \/ (Leave(r, "unnumbered") /\ pc[r] = "wrote")
    BY <1>17 DEF SyncNoBlob, SyncUnnumbered, RetryNoBlob, RetryStale, HealthStale, Fail, Active
  <2> QED
    BY <2>1, GivenUpAhead
<1> QED
    BY <1>1, <1>2, <1>3, <1>4, <1>6, <1>7, <1>8, <1>9, <1>10, <1>11, <1>12, <1>13, <1>14,
       <1>15, <1>16, <1>17, CrashAhead, CommitAhead DEF Next, RetryFlush, ResetDelete

(* A rollback of the primary leaves a standby ahead by the record of a put
   that failed, never by a record that was committed and is gone: its file is
   still on the primary. *)
THEOREM AheadIsAnOrphan == Spec => []AheadIsOrphaned
<1>1. AheadInv => AheadIsOrphaned
    BY DEF AheadInv, Ahead, NotCommitted, AheadIsOrphaned, AheadOfPut
<1>2. Spec => [](ReplInv /\ AheadInv)
    BY InitHolds, AheadInit, StepKeeps, AheadStep, PTL DEF Spec
<1> QED
    BY <1>1, <1>2, PTL
-----------------------------------------------------------------------------
(* The promise of Delivery.  A row that was committed is in the log, dead or
   reset, and just one of in the log or gone; what the holder of the lock is
   about to commit brings none of the gone back. *)

DeliveryInv ==
    /\ DOMAIN db.logs \subseteq posted /\ cleared \subseteq posted
    /\ posted \subseteq DOMAIN db.logs \cup db.dead \cup cleared
    /\ DOMAIN db.logs \cap (db.dead \cup cleared) = {}
    /\ DOMAIN draft.logs \cap draft.dead = {}
    /\ DOMAIN draft.logs \cap posted \subseteq DOMAIN db.logs
    /\ draft.dead \cap posted \subseteq DOMAIN db.logs \cup db.dead
    /\ writer # NoRequest =>
          /\ pc[writer] # "synced" => draft.dead = db.dead
          /\ pc[writer] = "synced" => todo[writer] \cap DOMAIN draft.logs = {}
    /\ \A r \in Requests : pc[r] \in {"resetting", "synced"} => todo[r] \subseteq posted

(* r goes on without a statement that writes. *)
LEMMA ReadersDeliver ==
    ASSUME ReplInv, DeliveryInv, NEW r \in Requests, NEW to, NEW left,
           UNCHANGED <<db, draft, writer, posted, cleared>>,
           pc' = [pc EXCEPT ![r] = to], todo' = [todo EXCEPT ![r] = left],
           writer = r => pc[r] # "synced" /\ (to = "synced" => left = {}),
           to \in {"resetting", "synced"} => left \subseteq posted
    PROVE  DeliveryInv'
<1>1. /\ pc \in [Requests -> {"idle"} \cup Active \cup Ended]
      /\ todo \in [Requests -> SUBSET LogIds]
      /\ writer \in Requests \cup {NoRequest}
    BY DEF ReplInv, TypeOK
<1> QED
    BY <1>1 DEF DeliveryInv

(* r writes: it takes the lock, or has it. *)
LEMMA WritersDeliver ==
    ASSUME ReplInv, DeliveryInv, NEW r \in Requests, NEW to, NEW left,
           UNCHANGED <<db, posted, cleared>>, writer' = r,
           pc' = [pc EXCEPT ![r] = to], todo' = [todo EXCEPT ![r] = left],
           DOMAIN draft'.logs \cap draft'.dead = {},
           DOMAIN draft'.logs \cap posted \subseteq DOMAIN db.logs,
           draft'.dead \cap posted \subseteq DOMAIN db.logs \cup db.dead,
           to # "synced" => draft'.dead = db.dead,
           to = "synced" => left \cap DOMAIN draft'.logs = {},
           to \in {"resetting", "synced"} => left \subseteq posted
    PROVE  DeliveryInv'
<1>1. /\ pc \in [Requests -> {"idle"} \cup Active \cup Ended]
      /\ todo \in [Requests -> SUBSET LogIds]
    BY DEF ReplInv, TypeOK
<1> QED
    BY <1>1 DEF DeliveryInv

(* The transaction of a request that ends is rolled back, or it had none. *)
LEMMA RollbacksDeliver ==
    ASSUME ReplInv, DeliveryInv, UNCHANGED <<db, posted, cleared>>,
           \/ writer' = NoRequest /\ draft' = db
           \/ /\ UNCHANGED <<writer, draft>>
              /\ writer # NoRequest => pc'[writer] = pc[writer] /\ todo'[writer] = todo[writer],
           \A q \in Requests :
               pc'[q] \in {"resetting", "synced"} => pc'[q] = pc[q] /\ todo'[q] \subseteq todo[q]
    PROVE  DeliveryInv'
<1>1. NoRequest \notin Requests /\ writer \in Requests \cup {NoRequest}
    BY ReplicationAssumption DEF ReplInv, TypeOK
<1>2. CASE writer' = NoRequest /\ draft' = db
    BY <1>2 DEF DeliveryInv
<1>3. CASE /\ UNCHANGED <<writer, draft>>
           /\ writer # NoRequest => pc'[writer] = pc[writer] /\ todo'[writer] = todo[writer]
    BY <1>3 DEF DeliveryInv
<1> QED
    BY <1>2, <1>3

LEMMA AutocommitsDeliver ==
    ASSUME ReplInv, DeliveryInv, NEW tabs, Autocommit(tabs),
           UNCHANGED <<pc, todo, posted, cleared>>,
           tabs.logs = db.logs, tabs.dead = db.dead
    PROVE  DeliveryInv'
<1>1. writer = NoRequest /\ writer' = NoRequest /\ db' = tabs /\ draft' = tabs
    BY DEF Autocommit
<1> QED
    BY <1>1 DEF DeliveryInv

(* What a commit of the holder of the lock does, as far as it shows. *)
LEMMA Committed ==
    ASSUME ReplInv, NEW r \in Requests, Commit(r), writer = r
    PROVE  /\ pc[r] = "synced" /\ pc' = [pc EXCEPT ![r] = "done"]
           /\ todo' = [todo EXCEPT ![r] = {}]
           /\ UNCHANGED <<draft, stored, rec>> /\ writer' = NoRequest /\ db' = draft
           /\ posted' = posted \cup DOMAIN draft.logs \cup draft.dead
           /\ cleared' = cleared \cup todo[r]
    BY DEF Commit, Leave, Goto

LEMMA CommitsDeliver ==
    ASSUME ReplInv, DeliveryInv, NEW r \in Requests, Commit(r) PROVE DeliveryInv'
<1>1. /\ pc \in [Requests -> {"idle"} \cup Active \cup Ended]
      /\ todo \in [Requests -> SUBSET LogIds]
      /\ NoRequest \notin Requests /\ writer \in Requests \cup {NoRequest}
    BY ReplicationAssumption DEF ReplInv, TypeOK
<1>2. CASE writer # r
  <2>1. /\ UNCHANGED <<db, draft, writer, posted, cleared>>
        /\ pc' = [pc EXCEPT ![r] = "done"] /\ todo' = [todo EXCEPT ![r] = {}]
    BY <1>2 DEF Commit, Leave, Goto, tables, past
  <2> QED
    BY <1>2, <2>1, ReadersDeliver
<1>3. CASE writer = r
  <2>1. /\ pc[r] = "synced" /\ pc' = [pc EXCEPT ![r] = "done"]
        /\ todo' = [todo EXCEPT ![r] = {}]
        /\ draft' = draft /\ writer' = NoRequest /\ db' = draft
        /\ posted' = posted \cup DOMAIN draft.logs \cup draft.dead
        /\ cleared' = cleared \cup todo[r]
    BY <1>3, Committed
  <2>2. /\ db.dead \subseteq draft.dead
        /\ \A i \in DOMAIN db.logs \ DOMAIN draft.logs : i \in draft.dead \/ i \in todo[r]
    BY <1>1, <1>3 DEF ReplInv, DraftKeeps
  <2>3. /\ DOMAIN draft.logs \cap draft.dead = {}
        /\ todo[r] \cap DOMAIN draft.logs = {} /\ todo[r] \subseteq posted
    BY <1>1, <1>3, <2>1 DEF DeliveryInv
  <2>4. cleared \cap DOMAIN draft.logs = {}
    BY DEF DeliveryInv
  <2>5. posted' \subseteq DOMAIN draft.logs \cup draft.dead \cup cleared'
    BY <2>1, <2>2 DEF DeliveryInv
  <2>6. cleared' \subseteq posted' /\ DOMAIN draft.logs \subseteq posted'
    BY <2>1, <2>3 DEF DeliveryInv
  <2>7. \A q \in Requests : pc'[q] \in {"resetting", "synced"} => todo'[q] \subseteq posted'
    BY <1>1, <2>1 DEF DeliveryInv
  <2> QED
    BY <2>1, <2>3, <2>4, <2>5, <2>6, <2>7 DEF DeliveryInv
<1> QED
    BY <1>2, <1>3

LEMMA DeliveryInit == Init => DeliveryInv
<1> SUFFICES ASSUME Init PROVE DeliveryInv
    OBVIOUS
<1>1. /\ DOMAIN db.logs = {} /\ DOMAIN draft.logs = {} /\ db.dead = {} /\ draft.dead = {}
      /\ posted = {} /\ cleared = {} /\ writer = NoRequest
    BY NoRowsInNoLogs DEF Init
<1>2. \A q \in Requests : pc[q] = "idle"
    BY DEF Init
<1> QED
    BY <1>1, <1>2 DEF DeliveryInv

LEMMA DeliveryStep == ReplInv /\ DeliveryInv /\ [Next]_vars => DeliveryInv'
<1> SUFFICES ASSUME ReplInv, DeliveryInv, [Next]_vars PROVE DeliveryInv'
    OBVIOUS
<1>0. /\ Shaped(db) /\ TablesOK(db) /\ Shaped(draft)
      /\ pc \in [Requests -> {"idle"} \cup Active \cup Ended]
      /\ todo \in [Requests -> SUBSET LogIds]
      /\ writer = NoRequest => draft = db
      /\ \A q \in Requests : pc[q] \in {"idle", "wrote", "pinging"} => todo[q] = {}
  <2>1. \A q \in Requests : pc[q] \in {"idle", "wrote", "pinging"} => \A i \in todo[q] : FALSE
    BY DEF ReplInv, Tasks
  <2> QED
    BY <2>1 DEF ReplInv, Shapes, TypeOK
<1>1. CASE UNCHANGED vars \/ \E n \in Nodes : Pull(n)
  <2>1. UNCHANGED <<db, draft, writer, pc, todo, posted, cleared>>
    BY <1>1 DEF Pull, vars, tables, locals, session, past
  <2> QED
    BY <2>1 DEF DeliveryInv
<1>2. ASSUME NEW n \in Nodes, RegisterNode(n) \/ UnregisterNode(n) PROVE DeliveryInv'
  <2>1. PICK s \in NodeStatus : Autocommit([db EXCEPT !.node[n] = s])
    BY <1>2 DEF RegisterNode, UnregisterNode, NodeStatus
  <2>2. UNCHANGED <<pc, todo, posted, cleared>>
    BY <1>2 DEF RegisterNode, UnregisterNode, locals, session, past
  <2>3. [db EXCEPT !.node[n] = s].logs = db.logs /\ [db EXCEPT !.node[n] = s].dead = db.dead
    BY <1>0 DEF Shaped
  <2> QED
    BY <2>1, <2>2, <2>3, AutocommitsDeliver
<1>3. ASSUME NEW x \in Records, PurgeRecord(x) PROVE DeliveryInv'
  <2>1. /\ Autocommit([db EXCEPT !.row[x] = "purged"])
        /\ UNCHANGED <<pc, todo, posted, cleared>>
    BY <1>3 DEF PurgeRecord, locals, session, past
  <2>2. /\ [db EXCEPT !.row[x] = "purged"].logs = db.logs
        /\ [db EXCEPT !.row[x] = "purged"].dead = db.dead
    BY <1>0 DEF Shaped
  <2> QED
    BY <2>1, <2>2, AutocommitsDeliver
<1>4. ASSUME NEW r \in Requests, PutRecord(r) \/ DeleteRecord(r) PROVE DeliveryInv'
  <2>1. PICK y, s : Write(r, [db EXCEPT !.row[y] = s])
    BY <1>4 DEF PutRecord, DeleteRecord
  <2>2. /\ pc' = [pc EXCEPT ![r] = "wrote"] /\ UNCHANGED <<todo, posted, cleared>>
    BY <1>4 DEF PutRecord, DeleteRecord, Goto, past
  <2>3. db' = db /\ writer' = r /\ draft'.logs = db.logs /\ draft'.dead = db.dead
    BY <1>0, <2>1 DEF Write, Shaped
  <2>4. todo' = [todo EXCEPT ![r] = todo[r]]
    BY <1>0, <2>2
  <2> QED
    BY <2>2, <2>3, <2>4, WritersDeliver DEF DeliveryInv
<1>5. ASSUME NEW r \in Requests, HealthFlush(r) PROVE DeliveryInv'
  <2>1. /\ pc[r] = "pinging" /\ pc' = [pc EXCEPT ![r] = "synced"]
        /\ UNCHANGED <<todo, posted, cleared>>
    BY <1>5 DEF HealthFlush, Goto, locals, session, past
  <2>2. PICK f : Write(r, [db EXCEPT !.node = f])
    BY <1>5 DEF HealthFlush
  <2>3. db' = db /\ writer' = r /\ draft'.logs = db.logs /\ draft'.dead = db.dead
    BY <1>0, <2>2 DEF Write, Shaped
  <2>4. todo' = [todo EXCEPT ![r] = {}]
    BY <1>0, <2>1
  <2> QED
    BY <2>1, <2>3, <2>4, WritersDeliver DEF DeliveryInv
<1>6. ASSUME NEW r \in Requests, RetryFlush(r) \/ ResetDelete(r), UNCHANGED tables
      PROVE  DeliveryInv'
  <2>1. /\ pc[r] \in {"retrying", "resetting"} /\ pc' = [pc EXCEPT ![r] = "synced"]
        /\ UNCHANGED <<db, draft, writer, todo, posted, cleared>>
        /\ pc[r] = "retrying" => todo[r] = {}
    BY <1>6 DEF RetryFlush, ResetDelete, Goto, locals, session, tables, past
  <2>2. writer # r /\ todo' = [todo EXCEPT ![r] = todo[r]]
    BY <1>0, <2>1, ReplicationAssumption DEF ReplInv, Holders
  <2>3. todo[r] \subseteq posted
    BY <2>1 DEF DeliveryInv
  <2> QED
    BY <2>1, <2>2, <2>3, ReadersDeliver
<1>7. ASSUME NEW r \in Requests, RetryFlush(r), view[r] # NoLogs PROVE DeliveryInv'
  <2>1. /\ pc' = [pc EXCEPT ![r] = "synced"] /\ todo[r] = {} /\ writer' = r
        /\ UNCHANGED <<db, todo, posted, cleared>>
        /\ DOMAIN view[r] \subseteq DOMAIN db.logs
    BY <1>7 DEF RetryFlush, Goto, Write, locals, session, past
  <2> DEFINE ups == [i \in DOMAIN db.logs |->
                        IF i \in DOMAIN view[r] THEN Updated(db.logs[i], loaded[r][i], view[r][i])
                                                ELSE db.logs[i]]
             tabs == [db EXCEPT !.logs = ups]
             dead == {i \in DOMAIN view[r] : Exhausted(view[r][i])}
  <2>2. draft' = WithDeadLetters(tabs, view[r])
    BY <1>0, <1>7 DEF RetryFlush, Write, Shaped
  <2>3. Shaped(tabs) /\ tabs.dead = db.dead /\ DOMAIN tabs.logs = DOMAIN db.logs
    BY <1>0 DEF Shaped
  <2> HIDE DEF tabs, ups
  <2>4. draft'.dead = db.dead \cup dead /\ DOMAIN draft'.logs = DOMAIN db.logs \ dead
    BY <2>2, <2>3, DeadLettersTaken
  <2>5. dead \subseteq DOMAIN db.logs
    BY <2>1
  <2>6. todo' = [todo EXCEPT ![r] = {}]
    BY <1>0, <2>1
  <2> HIDE DEF dead
  <2>7. /\ DOMAIN draft'.logs \cap draft'.dead = {}
        /\ DOMAIN draft'.logs \subseteq DOMAIN db.logs
        /\ draft'.dead \subseteq DOMAIN db.logs \cup db.dead
    BY <2>4, <2>5 DEF DeliveryInv
  <2> QED
    BY <2>1, <2>6, <2>7, WritersDeliver
<1>8. ASSUME NEW r \in Requests, ResetDelete(r), todo[r] # {} PROVE DeliveryInv'
  <2>1. /\ pc[r] = "resetting" /\ pc' = [pc EXCEPT ![r] = "synced"] /\ writer' = r
        /\ UNCHANGED <<db, todo, posted, cleared>>
    BY <1>8 DEF ResetDelete, Goto, Write, locals, session, past
  <2>2. draft'.dead = db.dead /\ DOMAIN draft'.logs = DOMAIN db.logs \ todo[r]
    BY <1>0, <1>8 DEF ResetDelete, Write, Restrict, Shaped
  <2>3. todo' = [todo EXCEPT ![r] = todo[r]] /\ todo[r] \subseteq posted
    BY <1>0, <2>1 DEF DeliveryInv
  <2>4. /\ DOMAIN draft'.logs \cap draft'.dead = {}
        /\ todo[r] \cap DOMAIN draft'.logs = {}
        /\ DOMAIN draft'.logs \subseteq DOMAIN db.logs
        /\ draft'.dead \subseteq DOMAIN db.logs \cup db.dead
    BY <2>2 DEF DeliveryInv
  <2> QED
    BY <2>1, <2>3, <2>4, WritersDeliver
<1>9. ASSUME NEW r \in Requests, Push(r) PROVE DeliveryInv'
  <2>1. PICK i \in todo[r] : /\ \E log : draft' = [draft EXCEPT !.logs = WithRow(draft.logs, i, log)]
                             /\ todo' = [todo EXCEPT ![r] = @ \ {i}]
    BY <1>0, <1>9 DEF Push, Write, Shaped
  <2>2. /\ pc[r] = "pushing" /\ pc' = [pc EXCEPT ![r] = "pushing"] /\ writer' = r
        /\ UNCHANGED <<db, posted, cleared>>
    BY <1>9 DEF Push, Goto, Write, past
  <2>3. writer = r /\ i[1] = r
    BY <2>2 DEF ReplInv, Holders, Tasks
  <2>4. draft'.dead = draft.dead /\ DOMAIN draft'.logs = DOMAIN draft.logs \cup {i}
    BY <1>0, <2>1 DEF Shaped, WithRow
  <2>5. draft.dead = db.dead
    BY <2>2, <2>3, ReplicationAssumption DEF DeliveryInv
  <2>6. i \notin posted /\ i \notin db.dead
    BY <2>2, <2>3 DEF ReplInv, RowsOfWrites, Written
  <2>7. /\ DOMAIN draft'.logs \cap draft'.dead = {}
        /\ DOMAIN draft'.logs \cap posted \subseteq DOMAIN db.logs
        /\ draft'.dead \subseteq db.dead
    BY <2>4, <2>5, <2>6 DEF DeliveryInv
  <2>8. todo' = [todo EXCEPT ![r] = todo[r] \ {i}]
    BY <2>1
  <2> QED
    BY <2>2, <2>4, <2>5, <2>7, <2>8, WritersDeliver
<1>10. ASSUME NEW r \in Requests, SyncEnd(r) PROVE DeliveryInv'
  <2>1. /\ pc[r] = "pushing" /\ pc' = [pc EXCEPT ![r] = "synced"] /\ writer' = r /\ todo[r] = {}
        /\ UNCHANGED <<db, todo, posted, cleared>>
    BY <1>10 DEF SyncEnd, Goto, Write, locals, session, past
  <2>2. writer = r
    BY <2>1 DEF ReplInv, Holders
  <2> DEFINE seen == RestrictDomain(draft.logs, LAMBDA i : i[1] = r)
             dead == {i \in DOMAIN seen : Exhausted(seen[i])}
  <2>3. draft' = WithDeadLetters(draft, seen)
    BY <1>10 DEF SyncEnd, Write
  <2>4. \A i \in dead : i[1] = r
    BY DEF RestrictDomain, Restrict
  <2> HIDE DEF seen
  <2>5. draft'.dead = draft.dead \cup dead /\ DOMAIN draft'.logs = DOMAIN draft.logs \ dead
    BY <1>0, <2>3, DeadLettersTaken
  <2> HIDE DEF dead
  <2>6. \A i \in dead : i \notin posted
    BY <2>1, <2>4 DEF ReplInv, RowsOfWrites, Written
  <2>7. /\ DOMAIN draft'.logs \cap draft'.dead = {}
        /\ DOMAIN draft'.logs \cap posted \subseteq DOMAIN db.logs
        /\ draft'.dead \cap posted \subseteq DOMAIN db.logs \cup db.dead
    BY <2>5, <2>6 DEF DeliveryInv
  <2>8. todo' = [todo EXCEPT ![r] = {}]
    BY <1>0, <2>1
  <2> QED
    BY <2>1, <2>7, <2>8, WritersDeliver
<1>11. ASSUME NEW r \in Requests,
              \/ RetryMissing(r) \/ RetrySkip(r) \/ RetryPush(r) \/ RetryNodes(r) \/ RetrySelect(r)
              \/ RetryFetch(r) \/ RetryRead(r)
              \/ SyncNobody(r) \/ SyncStart(r) \/ HealthSelect(r) \/ ResetSelect(r)
       PROVE  DeliveryInv'
  <2>1. UNCHANGED <<db, draft, writer, posted, cleared>>
    BY <1>11 DEF RetryMissing, RetrySkip, RetryPush, RetryNodes, RetrySelect, RetryFetch, RetryRead,
       SyncNobody, SyncStart, HealthSelect, ResetSelect, tables, past
  <2>2. pc[r] \in {"retrying", "fetched", "read", "loaded", "idle", "wrote"}
    BY <1>11 DEF RetryMissing, RetrySkip, RetryPush, RetryNodes, RetrySelect, RetryFetch, RetryRead,
       SyncNobody, SyncStart, HealthSelect, ResetSelect
  <2>3. \A q \in Requests : q = r \/ (pc'[q] = pc[q] /\ todo'[q] = todo[q])
    BY <1>0, <1>11 DEF RetryMissing, RetrySkip, RetryPush, RetryNodes, RetrySelect, RetryFetch, RetryRead,
       SyncNobody, SyncStart, HealthSelect, ResetSelect, Goto, locals, session
  <2>4. pc' = [pc EXCEPT ![r] = pc'[r]] /\ todo' = [todo EXCEPT ![r] = todo'[r]]
    BY <1>0, <1>11 DEF RetryMissing, RetrySkip, RetryPush, RetryNodes, RetrySelect, RetryFetch, RetryRead,
       SyncNobody, SyncStart, HealthSelect, ResetSelect, Goto, locals, session
  <2>5. pc'[r] = "synced" => todo'[r] = {}
    BY <1>0, <1>11, <2>2 DEF RetryMissing, RetrySkip, RetryPush, RetryNodes, RetrySelect, RetryFetch, RetryRead,
       SyncNobody, SyncStart, HealthSelect, ResetSelect, Goto, locals, session
  <2>6. pc'[r] = "resetting" => todo'[r] \subseteq DOMAIN db.logs
    BY <1>0, <1>11, <2>2 DEF RetryMissing, RetrySkip, RetryPush, RetryNodes, RetrySelect, RetryFetch, RetryRead,
       SyncNobody, SyncStart, HealthSelect, ResetSelect, Goto, locals, session
  <2>7. pc'[r] \in {"resetting", "synced"} => todo'[r] \subseteq posted
    BY <2>5, <2>6 DEF DeliveryInv
  <2> QED
    BY <2>1, <2>2, <2>4, <2>5, <2>7, ReadersDeliver
<1>12. ASSUME NEW r \in Requests,
              \/ SyncNoBlob(r) \/ SyncUnnumbered(r) \/ RetryNoBlob(r)
              \/ RetryStale(r) \/ HealthStale(r) \/ Fail(r)
       PROVE  DeliveryInv'
  <2>1. PICK how \in {"failed", "unnumbered"} : Leave(r, how)
    BY <1>12 DEF SyncNoBlob, SyncUnnumbered, RetryNoBlob, RetryStale, HealthStale, Fail
  <2>2. Rollback(r) /\ UNCHANGED <<posted, cleared>>
    BY <1>12 DEF SyncNoBlob, SyncUnnumbered, RetryNoBlob, RetryStale, HealthStale, Fail, past
  <2>3. pc' = [pc EXCEPT ![r] = how] /\ todo' = [todo EXCEPT ![r] = {}]
    BY <2>1 DEF Leave, Goto
  <2>4. /\ db' = db
        /\ \/ writer' = NoRequest /\ draft' = db
           \/ writer # r /\ UNCHANGED <<writer, draft>>
    BY <2>2 DEF Rollback
  <2>5. writer \in Requests \cup {NoRequest}
    BY DEF ReplInv, TypeOK
  <2>6. writer # NoRequest /\ writer # r => pc'[writer] = pc[writer] /\ todo'[writer] = todo[writer]
    BY <1>0, <2>3, <2>5
  <2>7. \A q \in Requests :
           pc'[q] \in {"resetting", "synced"} => pc'[q] = pc[q] /\ todo'[q] \subseteq todo[q]
    BY <1>0, <2>3
  <2> QED
    BY <2>2, <2>4, <2>6, <2>7, RollbacksDeliver
<1>13. ASSUME Crash PROVE DeliveryInv'
  <2>1. /\ pc' = [r \in Requests |-> IF pc[r] \in Active THEN "lost" ELSE pc[r]]
        /\ draft' = db /\ writer' = NoRequest /\ UNCHANGED <<db, posted, cleared>>
    BY <1>13 DEF Crash, past
  <2>2. \A q \in Requests : pc'[q] \notin {"resetting", "synced"}
    BY <1>0, <2>1 DEF Active, Ended
  <2> QED
    BY <2>1, <2>2, RollbacksDeliver
<1> QED
    BY <1>1, <1>2, <1>3, <1>4, <1>5, <1>6, <1>7, <1>8, <1>9, <1>10, <1>11, <1>12, <1>13,
       CommitsDeliver DEF Next, RetryFlush, ResetDelete

(* What may become of an acked row at another retry.  A row that two retries
   have in hand is contested, and so is one in hand that another has acked; a
   retry commits acks and dead letters of rows it has in hand only. *)

Contestants(q) ==
    /\ \A i \in DOMAIN draft.logs \cap DOMAIN db.logs :
          Acked(draft.logs[i]) => Acked(db.logs[i]) \/ i \in DOMAIN loaded[q]
    /\ (draft.dead \ db.dead) \cap posted \subseteq DOMAIN loaded[q]
ContestInv ==
    /\ \A q \in Requests : DOMAIN loaded[q] \subseteq posted
    /\ \A p, q \in Requests : p # q => DOMAIN loaded[p] \cap DOMAIN loaded[q] \subseteq contested
    /\ \A q \in Requests : \A i \in DOMAIN loaded[q] \cap DOMAIN db.logs :
          Acked(db.logs[i]) => i \in contested
    /\ writer # NoRequest => Contestants(writer)

(* No log row is committed, and no retry takes up more. *)
LEMMA ContestKept ==
    ASSUME ContestInv, db'.logs = db.logs, UNCHANGED <<posted, contested>>,
           \A q \in Requests : DOMAIN loaded'[q] \subseteq DOMAIN loaded[q],
           writer' # NoRequest => Contestants(writer)'
    PROVE  ContestInv'
    BY DEF ContestInv

(* What a retry that begins takes up. *)
LEMMA Selected ==
    ASSUME ReplInv, NEW r \in Requests, RetrySelect(r)
    PROVE  /\ \A q \in Requests \ {r} : loaded'[q] = loaded[q]
           /\ DOMAIN loaded'[r] \subseteq DOMAIN db.logs
           /\ \A i \in DOMAIN loaded'[r] : db.logs[i].status = "failed"
           /\ contested \subseteq contested'
           /\ contested' \ contested \subseteq DOMAIN loaded'[r]
           /\ \A q \in Requests : DOMAIN loaded'[r] \cap DOMAIN loaded[q] \subseteq contested'
<1> DEFINE rows == RestrictValues(db.logs, LAMBDA log : log.status = "failed" /\ log.retries < RetryMax)
<1>1. /\ loaded' = [loaded EXCEPT ![r] = rows] /\ todo' = [todo EXCEPT ![r] = DOMAIN loaded'[r]]
      /\ contested' = contested \cup {i \in todo'[r] : \E q \in Requests : i \in DOMAIN loaded[q]}
    BY DEF RetrySelect
<1>2. DOMAIN rows \subseteq DOMAIN db.logs /\ \A i \in DOMAIN rows : db.logs[i].status = "failed"
    BY DEF RestrictValues, Restrict, RestrictDomain
<1> HIDE DEF rows
<1>3. loaded'[r] = rows /\ \A q \in Requests \ {r} : loaded'[q] = loaded[q]
    BY <1>1 DEF ReplInv, Shapes
<1>4. todo'[r] = DOMAIN rows
    BY <1>1, <1>3 DEF ReplInv, TypeOK
<1> QED
    BY <1>1, <1>2, <1>3, <1>4

(* r writes: what it has not in hand it neither acks nor gives up. *)
LEMMA ContestWritten ==
    ASSUME ContestInv, NEW r \in Requests, writer' = r, UNCHANGED <<db, posted, contested, loaded>>,
           \A i \in DOMAIN draft'.logs \cap DOMAIN db.logs :
               Acked(draft'.logs[i]) => Acked(db.logs[i]) \/ i \in DOMAIN loaded[r],
           (draft'.dead \ db.dead) \cap posted \subseteq DOMAIN loaded[r]
    PROVE  ContestInv'
<1>1. Contestants(writer)'
    BY DEF Contestants
<1> QED
    BY <1>1, ContestKept

(* The transaction is given up, or was not r's. *)
LEMMA ContestDropped ==
    ASSUME ContestInv, UNCHANGED <<posted, contested>>, db'.logs = db.logs, db'.dead = db.dead,
           \A q \in Requests : DOMAIN loaded'[q] \subseteq DOMAIN loaded[q],
           \/ writer' = NoRequest
           \/ UNCHANGED <<writer, draft>> /\ (writer # NoRequest => loaded'[writer] = loaded[writer])
    PROVE  ContestInv'
<1>1. writer' # NoRequest => Contestants(writer)'
    BY DEF ContestInv, Contestants
<1> QED
    BY <1>1, ContestKept

LEMMA ContestInit == Init => ContestInv
<1> SUFFICES ASSUME Init PROVE ContestInv
    OBVIOUS
<1>1. writer = NoRequest /\ \A q \in Requests : loaded[q] = NoLogs
    BY DEF Init
<1>2. \A q \in Requests : DOMAIN loaded[q] = {}
    BY <1>1, NoRowsInNoLogs
<1> QED
    BY <1>1, <1>2 DEF ContestInv

LEMMA CommitContests ==
    ASSUME ReplInv, DeliveryInv, ContestInv, NEW r \in Requests, Commit(r), writer = r
    PROVE  ContestInv'
<1>1. /\ writer' = NoRequest /\ db' = draft /\ posted \subseteq posted'
      /\ contested' = contested /\ loaded' = [loaded EXCEPT ![r] = NoLogs]
      /\ NoRequest # r
    BY Committed, ReplicationAssumption DEF Commit, Leave
<1>2. DOMAIN loaded'[r] = {} /\ \A q \in Requests \ {r} : loaded'[q] = loaded[q]
    BY <1>1, NoRowsInNoLogs DEF ReplInv, Shapes
<1>3. ASSUME NEW q \in Requests, NEW i \in DOMAIN loaded'[q] \cap DOMAIN db'.logs, Acked(db'.logs[i])
      PROVE  i \in contested'
  <2>1. q # r /\ i \in DOMAIN loaded[q] /\ i \in DOMAIN draft.logs /\ Acked(draft.logs[i])
    BY <1>1, <1>2, <1>3
  <2>2. i \in posted
    BY <2>1 DEF ContestInv
  <2>3. i \in DOMAIN db.logs
    BY <2>1, <2>2 DEF DeliveryInv
  <2>4. Acked(db.logs[i]) \/ i \in DOMAIN loaded[r]
    BY <1>1, <2>1, <2>3 DEF ContestInv, Contestants
  <2> QED
    BY <1>1, <2>1, <2>3, <2>4 DEF ContestInv
<1>4. \A q \in Requests : DOMAIN loaded'[q] \subseteq DOMAIN loaded[q]
    BY <1>2
<1> QED
    BY <1>1, <1>3, <1>4 DEF ContestInv

LEMMA SelectContests ==
    ASSUME ReplInv, DeliveryInv, ContestInv, NEW r \in Requests, RetrySelect(r)
    PROVE  ContestInv'
<1>1. UNCHANGED <<db, draft, writer, posted>> /\ pc[r] = "idle"
    BY DEF RetrySelect, tables
<1>2. writer # r
    BY <1>1, ReplicationAssumption DEF ReplInv, Holders
<1>3. \A q \in Requests : DOMAIN loaded'[q] \subseteq posted
    BY Selected DEF ContestInv, DeliveryInv
<1>4. ASSUME NEW q \in Requests, NEW i \in DOMAIN loaded'[q] \cap DOMAIN db.logs, Acked(db.logs[i])
      PROVE  i \in contested'
    BY <1>4, Selected DEF ContestInv, Acked
<1>5. ASSUME NEW p \in Requests, NEW q \in Requests, p # q
      PROVE  DOMAIN loaded'[p] \cap DOMAIN loaded'[q] \subseteq contested'
    BY <1>5, Selected DEF ContestInv
<1>6. writer # NoRequest => Contestants(writer)'
  <2>1. writer \in Requests \cup {NoRequest}
    BY DEF ReplInv, TypeOK
  <2>2. writer # NoRequest => loaded'[writer] = loaded[writer]
    BY <1>2, <2>1, Selected
  <2> QED
    BY <1>1, <2>2 DEF ContestInv, Contestants
<1> QED
    BY <1>1, <1>3, <1>4, <1>5, <1>6 DEF ContestInv

LEMMA OnlySelectsContest ==
    ASSUME [Next]_vars PROVE contested' = contested \/ \E r \in Requests : RetrySelect(r)
    BY DEF Next, Crash, RegisterNode, UnregisterNode, Pull, PurgeRecord, PutRecord, DeleteRecord,
       SyncNobody, SyncNoBlob, SyncUnnumbered, SyncStart, Push, SyncEnd, RetryNodes,
       RetrySkip, RetryMissing, RetryFetch, RetryRead, RetryNoBlob, RetryPush, RetryFlush, RetryStale,
       ResetSelect, ResetDelete, HealthSelect, HealthFlush, HealthStale, Commit, Fail, past, vars

LEMMA ContestStep == ReplInv /\ DeliveryInv /\ ContestInv /\ [Next]_vars => ContestInv'
<1> SUFFICES ASSUME ReplInv, DeliveryInv, ContestInv, [Next]_vars PROVE ContestInv'
    OBVIOUS
<1>0. /\ Shaped(db) /\ Shaped(draft) /\ loaded = [q \in Requests |-> loaded[q]]
      /\ DOMAIN db.logs \subseteq posted
      /\ writer \in Requests \cup {NoRequest} /\ NoRequest \notin Requests
    BY ReplicationAssumption DEF ReplInv, Shapes, TypeOK, DeliveryInv
<1>1. CASE UNCHANGED vars \/ \E n \in Nodes : Pull(n)
  <2>1. UNCHANGED <<db, draft, writer, loaded, posted, contested>>
    BY <1>1 DEF Pull, vars, tables, locals, session, past
  <2> QED
    BY <2>1, ContestDropped
<1>2. ASSUME NEW n \in Nodes, RegisterNode(n) \/ UnregisterNode(n) PROVE ContestInv'
  <2>1. PICK s \in NodeStatus : Autocommit([db EXCEPT !.node[n] = s])
    BY <1>2 DEF RegisterNode, UnregisterNode, NodeStatus
  <2>2. UNCHANGED <<loaded, posted, contested>>
    BY <1>2 DEF RegisterNode, UnregisterNode, locals, session, past
  <2>3. writer' = NoRequest /\ db'.logs = db.logs /\ db'.dead = db.dead
    BY <1>0, <2>1 DEF Autocommit, Shaped
  <2> QED
    BY <2>2, <2>3, ContestDropped
<1>3. ASSUME NEW x \in Records, PurgeRecord(x) PROVE ContestInv'
  <2>1. /\ Autocommit([db EXCEPT !.row[x] = "purged"])
        /\ UNCHANGED <<loaded, posted, contested>>
    BY <1>3 DEF PurgeRecord, locals, session, past
  <2>2. writer' = NoRequest /\ db'.logs = db.logs /\ db'.dead = db.dead
    BY <1>0, <2>1 DEF Autocommit, Shaped
  <2> QED
    BY <2>1, <2>2, ContestDropped
<1>4. ASSUME NEW r \in Requests, PutRecord(r) \/ DeleteRecord(r) \/ HealthFlush(r) PROVE ContestInv'
  <2>1. PICK y, s, f : Write(r, [db EXCEPT !.row[y] = s]) \/ Write(r, [db EXCEPT !.node = f])
    BY <1>4 DEF PutRecord, DeleteRecord, HealthFlush
  <2>2. UNCHANGED <<loaded, posted, contested>>
    BY <1>4 DEF PutRecord, DeleteRecord, HealthFlush, locals, session, past
  <2>3. db' = db /\ writer' = r /\ draft'.logs = db.logs /\ draft'.dead = db.dead
    BY <1>0, <2>1 DEF Write, Shaped
  <2> QED
    BY <2>2, <2>3, ContestWritten
<1>5. ASSUME NEW r \in Requests, Push(r) PROVE ContestInv'
  <2>1. PICK i \in todo[r] : \E log : draft' = [draft EXCEPT !.logs = WithRow(draft.logs, i, log)]
    BY <1>0, <1>5 DEF Push, Write, Shaped
  <2>2. /\ pc[r] = "pushing" /\ writer' = r /\ UNCHANGED <<db, loaded, posted, contested>>
    BY <1>5 DEF Push, Write, past
  <2>3. writer = r /\ i[1] = r
    BY <2>2 DEF ReplInv, Holders, Tasks
  <2>4. /\ draft'.dead = draft.dead /\ DOMAIN draft'.logs = DOMAIN draft.logs \cup {i}
        /\ \A j \in DOMAIN draft'.logs \ {i} : draft'.logs[j] = draft.logs[j]
    BY <1>0, <2>1 DEF Shaped, WithRow
  <2>5. i \notin posted
    BY <2>2, <2>3 DEF ReplInv, RowsOfWrites, Written
  <2>6. Contestants(r)
    BY <1>0, <2>3 DEF ContestInv
  <2>7. \A j \in DOMAIN draft'.logs \cap DOMAIN db.logs :
           j \in DOMAIN draft.logs /\ draft'.logs[j] = draft.logs[j]
    BY <1>0, <2>4, <2>5
  <2> QED
    BY <2>2, <2>4, <2>6, <2>7, ContestWritten DEF Contestants
<1>6. ASSUME NEW r \in Requests, SyncEnd(r) PROVE ContestInv'
  <2>1. pc[r] = "pushing" /\ writer' = r /\ UNCHANGED <<db, loaded, posted, contested>>
    BY <1>6 DEF SyncEnd, Write, locals, session, past
  <2>2. writer = r
    BY <2>1 DEF ReplInv, Holders
  <2> DEFINE seen == RestrictDomain(draft.logs, LAMBDA i : i[1] = r)
             dead == {i \in DOMAIN seen : Exhausted(seen[i])}
  <2>3. draft' = WithDeadLetters(draft, seen)
    BY <1>6 DEF SyncEnd, Write
  <2>4. \A i \in dead : i[1] = r
    BY DEF RestrictDomain, Restrict
  <2> HIDE DEF seen
  <2>5. /\ draft'.dead = draft.dead \cup dead /\ DOMAIN draft'.logs = DOMAIN draft.logs \ dead
        /\ \A i \in DOMAIN draft'.logs : draft'.logs[i] = draft.logs[i]
    BY <1>0, <2>3, DeadLettersTaken
  <2> HIDE DEF dead
  <2>6. \A i \in dead : i \notin posted
    BY <2>1, <2>4 DEF ReplInv, RowsOfWrites, Written
  <2>7. Contestants(r)
    BY <1>0, <2>2 DEF ContestInv
  <2> QED
    BY <2>1, <2>5, <2>6, <2>7, ContestWritten DEF Contestants
<1>7. ASSUME NEW r \in Requests, RetryFlush(r), view[r] # NoLogs PROVE ContestInv'
  <2>1. /\ writer' = r /\ UNCHANGED <<db, loaded, posted, contested>>
        /\ DOMAIN view[r] \subseteq DOMAIN loaded[r]
    BY <1>7 DEF RetryFlush, Write, locals, session, past, ReplInv, TypeOK
  <2> DEFINE ups == [i \in DOMAIN db.logs |->
                        IF i \in DOMAIN view[r] THEN Updated(db.logs[i], loaded[r][i], view[r][i])
                                                ELSE db.logs[i]]
             tabs == [db EXCEPT !.logs = ups]
             dead == {i \in DOMAIN view[r] : Exhausted(view[r][i])}
  <2>2. draft' = WithDeadLetters(tabs, view[r])
    BY <1>0, <1>7 DEF RetryFlush, Write, Shaped
  <2>3. Shaped(tabs) /\ tabs.dead = db.dead /\ tabs.logs = ups
    BY <1>0 DEF Shaped
  <2>4. \A i \in DOMAIN ups : i \in DOMAIN view[r] \/ ups[i] = db.logs[i]
    OBVIOUS
  <2> HIDE DEF tabs, ups
  <2>5. /\ draft'.dead = db.dead \cup dead /\ DOMAIN draft'.logs = DOMAIN ups \ dead
        /\ \A i \in DOMAIN draft'.logs : draft'.logs[i] = ups[i]
    BY <2>2, <2>3, DeadLettersTaken
  <2>6. dead \subseteq DOMAIN view[r]
    OBVIOUS
  <2> HIDE DEF dead
  <2>7. \A i \in DOMAIN draft'.logs : i \in DOMAIN view[r] \/ draft'.logs[i] = db.logs[i]
    BY <2>4, <2>5
  <2> QED
    BY <2>1, <2>5, <2>6, <2>7, ContestWritten
<1>8. ASSUME NEW r \in Requests, ResetDelete(r), todo[r] # {} PROVE ContestInv'
  <2>1. writer' = r /\ UNCHANGED <<db, loaded, posted, contested>>
    BY <1>8 DEF ResetDelete, Write, locals, session, past
  <2>2. /\ draft'.dead = db.dead
        /\ \A i \in DOMAIN draft'.logs : draft'.logs[i] = db.logs[i]
    BY <1>0, <1>8 DEF ResetDelete, Write, Restrict, Shaped
  <2> QED
    BY <2>1, <2>2, ContestWritten
<1>9. ASSUME NEW r \in Requests,
              \/ RetryMissing(r) \/ RetrySkip(r) \/ RetryPush(r) \/ RetryNodes(r)
              \/ RetryFetch(r) \/ RetryRead(r)
              \/ SyncNobody(r) \/ SyncStart(r) \/ HealthSelect(r) \/ ResetSelect(r)
              \/ ((RetryFlush(r) \/ ResetDelete(r)) /\ UNCHANGED tables)
      PROVE  ContestInv'
  <2>1. UNCHANGED <<db, draft, writer, loaded, posted, contested>>
    BY <1>9 DEF RetryMissing, RetrySkip, RetryPush, RetryNodes, RetryFetch, RetryRead, RetryFlush,
       ResetDelete, SyncNobody, SyncStart, HealthSelect, ResetSelect, tables, locals, session, past
  <2> QED
    BY <2>1, ContestDropped
<1>10. ASSUME NEW r \in Requests,
              \/ SyncNoBlob(r) \/ SyncUnnumbered(r) \/ RetryNoBlob(r)
              \/ RetryStale(r) \/ HealthStale(r) \/ Fail(r) \/ (Commit(r) /\ writer # r)
       PROVE  ContestInv'
  <2>1. PICK how : Leave(r, how)
    BY <1>10 DEF SyncNoBlob, SyncUnnumbered, RetryNoBlob, RetryStale, HealthStale, Fail, Commit
  <2>2. /\ Rollback(r) \/ (writer # r /\ UNCHANGED <<db, draft, writer>>)
        /\ UNCHANGED <<posted, contested>>
    BY <1>10 DEF SyncNoBlob, SyncUnnumbered, RetryNoBlob, RetryStale, HealthStale, Fail, Commit,
       tables, past
  <2>3. DOMAIN loaded'[r] = {} /\ \A q \in Requests \ {r} : loaded'[q] = loaded[q]
    BY <1>0, <2>1, NoRowsInNoLogs DEF Leave
  <2>4. /\ db' = db
        /\ writer' = NoRequest \/ (writer # r /\ UNCHANGED <<writer, draft>>)
    BY <2>2 DEF Rollback
  <2>5. /\ \A q \in Requests : DOMAIN loaded'[q] \subseteq DOMAIN loaded[q]
        /\ writer # r /\ writer # NoRequest => loaded'[writer] = loaded[writer]
    BY <1>0, <2>3
  <2> QED
    BY <2>2, <2>4, <2>5, ContestDropped
<1>11. ASSUME Crash PROVE ContestInv'
  <2>1. /\ writer' = NoRequest /\ UNCHANGED <<db, posted, contested>>
        /\ loaded' = [q \in Requests |-> NoLogs]
    BY <1>11 DEF Crash, past
  <2>2. \A q \in Requests : DOMAIN loaded'[q] \subseteq DOMAIN loaded[q]
    BY <2>1, NoRowsInNoLogs
  <2> QED
    BY <2>1, <2>2, ContestDropped
<1> QED
    BY <1>1, <1>2, <1>3, <1>4, <1>5, <1>6, <1>7, <1>8, <1>9, <1>10, <1>11,
       CommitContests, SelectContests DEF Next, RetryFlush, ResetDelete

(* The map to Delivery, and what a step may do to it. *)

(* The fates there are, and where a row of each is: nothing is stuck in the
   log, nothing lost. *)
FatesKnown ==
    \A i \in LogIds :
        \/ Fate(i) = "none" /\ i \notin posted
        \/ i \in posted /\ i \in DOMAIN db.logs /\ IF Acked(db.logs[i]) THEN Fate(i) = "acked"
                                                                     ELSE Fate(i) = "owed"
        \/ i \in posted /\ i \notin DOMAIN db.logs /\ i \in db.dead /\ Fate(i) = "dead"
        \/ /\ i \in posted /\ i \notin DOMAIN db.logs /\ i \notin db.dead /\ i \in cleared
           /\ Fate(i) = "reset"

LEMMA FatesAreKnown == ReplInv /\ DeliveryInv => FatesKnown
<1> SUFFICES ASSUME ReplInv, DeliveryInv, NEW i \in LogIds
             PROVE  \/ Fate(i) = "none" /\ i \notin posted
                    \/ /\ i \in posted /\ i \in DOMAIN db.logs
                       /\ IF Acked(db.logs[i]) THEN Fate(i) = "acked" ELSE Fate(i) = "owed"
                    \/ i \in posted /\ i \notin DOMAIN db.logs /\ i \in db.dead /\ Fate(i) = "dead"
                    \/ /\ i \in posted /\ i \notin DOMAIN db.logs /\ i \notin db.dead /\ i \in cleared
                       /\ Fate(i) = "reset"
    BY DEF FatesKnown
<1>1. i \in DOMAIN db.logs => ~Exhausted(db.logs[i])
    BY DEF ReplInv, NoneSpent, Spent, Exhausted
<1>2. i \in posted => i \in DOMAIN db.logs \cup db.dead \cup cleared
    BY DEF DeliveryInv
<1> QED
    BY <1>1, <1>2 DEF Fate

LEMMA InitIsDelivery == Init => Promise!Init
<1> SUFFICES ASSUME Init PROVE Promise!Init
    OBVIOUS
<1>1. posted = {} /\ contested = {} /\ \A q \in Requests : pc[q] = "idle"
    BY DEF Init
<1>2. \A i \in LogIds : Fate(i) = "none"
    BY <1>1 DEF Fate
<1>3. Arrived = {}
    BY <1>1 DEF Arrived, LogIds
<1> QED
    BY <1>1, <1>2, <1>3 DEF Promise!Init

(* A standby keeps what it received, and a write its record once it began. *)
LEMMA ArrivalsStay ==
    ASSUME ReplInv, [Next]_vars PROVE Arrived \subseteq Arrived'
<1>0. /\ pc \in [Requests -> {"idle"} \cup Active \cup Ended]
      /\ rec \in [Requests -> Records] /\ stored \in [Nodes -> SUBSET Records]
    BY DEF ReplInv, TypeOK
<1>1. SUFFICES /\ \A n \in Nodes : stored[n] \subseteq stored'[n]
               /\ \A q \in Requests : pc[q] # "idle" => pc'[q] # "idle" /\ rec'[q] = rec[q]
  <2> SUFFICES ASSUME NEW i \in Arrived PROVE i \in Arrived'
      OBVIOUS
  <2>1. i \in LogIds /\ pc[i[1]] # "idle" /\ rec[i[1]] \in stored[i[2]]
    BY DEF Arrived
  <2>2. i[1] \in Requests /\ i[2] \in Nodes
    BY <2>1 DEF LogIds
  <2>3. pc'[i[1]] # "idle" /\ rec'[i[1]] \in stored'[i[2]]
    BY <1>1, <2>1, <2>2
  <2> QED
    BY <2>1, <2>3 DEF Arrived
<1>2. \A n \in Nodes : stored[n] \subseteq stored'[n]
  <2>1. CASE UNCHANGED stored
    BY <2>1
  <2>2. ASSUME NEW n \in Nodes, NEW x, NEW received, NEW answered, Deliver(n, x, received, answered)
        PROVE  \A m \in Nodes : stored[m] \subseteq stored'[m]
    BY <1>0, <2>2 DEF Deliver
  <2>3. ASSUME NEW r \in Requests, Push(r) PROVE \A m \in Nodes : stored[m] \subseteq stored'[m]
    <3>1. PICK i \in todo[r], received \in BOOLEAN, answered \in BOOLEAN :
             Deliver(i[2], rec[r], received, answered)
      BY <2>3 DEF Push
    <3>2. i \in LogIds
      BY DEF ReplInv, TypeOK
    <3>3. i[2] \in Nodes
      BY <3>2 DEF LogIds
    <3> QED
      BY <2>2, <3>1, <3>3
  <2>4. ASSUME NEW r \in Requests, RetryPush(r) PROVE \A m \in Nodes : stored[m] \subseteq stored'[m]
    <3>1. PICK i \in LogIds, received \in BOOLEAN, answered \in BOOLEAN :
             Deliver(i[2], loaded[r][i].record, received, answered)
      BY <2>4 DEF RetryPush
    <3>2. i[2] \in Nodes
      BY DEF LogIds
    <3> QED
      BY <2>2, <3>1, <3>2
  <2>5. Crash => UNCHANGED stored
    BY DEF Crash
  <2>6. \A n \in Nodes : RegisterNode(n) \/ UnregisterNode(n) \/ Pull(n) => UNCHANGED stored
    BY DEF RegisterNode, UnregisterNode, Pull
  <2>7. \A x \in Records : PurgeRecord(x) => UNCHANGED stored
    BY DEF PurgeRecord
  <2>8. ASSUME NEW r \in Requests,
               \/ PutRecord(r)    \/ DeleteRecord(r)
               \/ SyncNobody(r)   \/ SyncNoBlob(r)  \/ SyncUnnumbered(r)
               \/ SyncStart(r)    \/ SyncEnd(r)
               \/ RetrySelect(r)  \/ RetryNodes(r)  \/ RetrySkip(r)  \/ RetryMissing(r)
               \/ RetryFetch(r)   \/ RetryRead(r)
               \/ RetryNoBlob(r)  \/ RetryFlush(r) \/ RetryStale(r)
               \/ ResetSelect(r)  \/ ResetDelete(r)
               \/ HealthSelect(r) \/ HealthFlush(r) \/ HealthStale(r)
               \/ Commit(r)       \/ Fail(r)
        PROVE  UNCHANGED stored
    BY <2>8 DEF PutRecord, DeleteRecord, SyncNobody, SyncNoBlob, SyncUnnumbered, SyncStart,
       SyncEnd, RetrySelect, RetryNodes, RetrySkip, RetryMissing, RetryFetch, RetryRead, RetryNoBlob, RetryFlush,
       RetryStale, ResetSelect, ResetDelete, HealthSelect, HealthFlush, HealthStale, Commit, Fail
  <2>9. UNCHANGED vars => UNCHANGED stored
    BY DEF vars
  <2> QED
    BY <2>1, <2>3, <2>4, <2>5, <2>6, <2>7, <2>8, <2>9 DEF Next
<1>3. \A q \in Requests : pc[q] # "idle" => pc'[q] # "idle" /\ rec'[q] = rec[q]
  <2>1. CASE UNCHANGED <<pc, rec>>
    BY <2>1
  <2>2. CASE UNCHANGED rec /\ \A q \in Requests : pc'[q] = "idle" => pc[q] = "idle"
    BY <2>2
  <2>3. ASSUME NEW r \in Requests, PutRecord(r) \/ DeleteRecord(r)
        PROVE  \A q \in Requests : pc[q] # "idle" => pc'[q] # "idle" /\ rec'[q] = rec[q]
    <3>1. PICK x \in Records : rec' = [rec EXCEPT ![r] = x]
      BY <2>3 DEF PutRecord, DeleteRecord
    <3>2. pc[r] = "idle" /\ pc' = [pc EXCEPT ![r] = "wrote"]
      BY <2>3 DEF PutRecord, DeleteRecord, Goto
    <3> QED
      BY <1>0, <3>1, <3>2
  <2>4. ASSUME Crash PROVE UNCHANGED rec /\ \A q \in Requests : pc'[q] = "idle" => pc[q] = "idle"
    BY <2>4 DEF Crash
  <2>5. \A n \in Nodes : RegisterNode(n) \/ UnregisterNode(n) \/ Pull(n) => UNCHANGED <<pc, rec>>
    BY DEF RegisterNode, UnregisterNode, Pull, locals
  <2>6. \A x \in Records : PurgeRecord(x) => UNCHANGED <<pc, rec>>
    BY DEF PurgeRecord, locals
  <2>7. ASSUME NEW r \in Requests, RetrySkip(r) \/ RetryMissing(r) PROVE UNCHANGED <<pc, rec>>
    BY <2>7 DEF RetrySkip, RetryMissing
  <2>8. ASSUME NEW r \in Requests,
               \/ SyncNobody(r)   \/ SyncNoBlob(r)  \/ SyncUnnumbered(r)
               \/ SyncStart(r)    \/ Push(r)        \/ SyncEnd(r)
               \/ RetrySelect(r)  \/ RetryNodes(r)   \/ RetryFetch(r)  \/ RetryRead(r)
               \/ RetryPush(r)    \/ RetryNoBlob(r)  \/ RetryFlush(r) \/ RetryStale(r)
               \/ ResetSelect(r)  \/ ResetDelete(r)
               \/ HealthSelect(r) \/ HealthFlush(r) \/ HealthStale(r)
               \/ Commit(r)       \/ Fail(r)
        PROVE  UNCHANGED rec /\ \A q \in Requests : pc'[q] = "idle" => pc[q] = "idle"
    <3>1. UNCHANGED rec
      BY <2>8 DEF SyncNobody, SyncNoBlob, SyncUnnumbered, SyncStart, Push,
         SyncEnd, RetrySelect, RetryNodes, RetryFetch, RetryRead, RetryPush, RetryNoBlob, RetryFlush,
         RetryStale, ResetSelect, ResetDelete, HealthSelect, HealthFlush, HealthStale, Commit, Fail,
         locals
    <3>2. PICK to : pc' = [pc EXCEPT ![r] = to] /\ to # "idle"
      BY <2>8 DEF SyncNobody, SyncNoBlob, SyncUnnumbered, SyncStart, Push,
         SyncEnd, RetrySelect, RetryNodes, RetryFetch, RetryRead, RetryPush, RetryNoBlob, RetryFlush,
         RetryStale, ResetSelect, ResetDelete, HealthSelect, HealthFlush, HealthStale, Commit, Fail,
         Goto, Leave
    <3> QED
      BY <1>0, <3>1, <3>2
  <2>9. UNCHANGED vars => UNCHANGED <<pc, rec>>
    BY DEF vars, locals
  <2> QED
    BY <2>1, <2>2, <2>3, <2>4, <2>5, <2>6, <2>7, <2>8, <2>9 DEF Next
<1> QED
    BY <1>1, <1>2, <1>3

(* Until a commit the log stays as it is, and so do the fates. *)
LEMMA FatesStay ==
    ASSUME ReplInv, [Next]_vars, ~\E r \in Requests : Commit(r) /\ writer = r
    PROVE  /\ db'.logs = db.logs /\ db'.dead = db.dead
           /\ posted' = posted /\ cleared' = cleared
<1>0. Shaped(db)
    BY DEF ReplInv, Shapes
<1>1. posted' = posted /\ cleared' = cleared
    BY DEF Next, Crash, RegisterNode, UnregisterNode, Pull, PurgeRecord, PutRecord, DeleteRecord,
       SyncNobody, SyncNoBlob, SyncUnnumbered, SyncStart, Push, SyncEnd, RetrySelect, RetryNodes,
       RetrySkip, RetryMissing, RetryFetch, RetryRead, RetryNoBlob, RetryPush, RetryFlush, RetryStale, ResetSelect,
       ResetDelete, HealthSelect, HealthFlush, HealthStale, Commit, Fail, past, vars
<1>2. ASSUME NEW n \in Nodes, RegisterNode(n) \/ UnregisterNode(n)
      PROVE  db'.logs = db.logs /\ db'.dead = db.dead
  <2>1. PICK s \in NodeStatus : Autocommit([db EXCEPT !.node[n] = s])
    BY <1>2 DEF RegisterNode, UnregisterNode, NodeStatus
  <2> QED
    BY <1>0, <2>1 DEF Autocommit, Shaped
<1>3. ASSUME NEW x \in Records, PurgeRecord(x)
      PROVE  db'.logs = db.logs /\ db'.dead = db.dead
  <2>1. Autocommit([db EXCEPT !.row[x] = "purged"])
    BY <1>3 DEF PurgeRecord
  <2> QED
    BY <1>0, <2>1 DEF Autocommit, Shaped
<1>4. ASSUME NEW r \in Requests,
             \/ PutRecord(r)    \/ DeleteRecord(r) \/ SyncNobody(r)   \/ SyncNoBlob(r)
             \/ SyncUnnumbered(r) \/ SyncStart(r)  \/ Push(r)        \/ SyncEnd(r)
             \/ RetrySelect(r) \/ RetryNodes(r)  \/ RetrySkip(r)  \/ RetryMissing(r)
             \/ RetryFetch(r) \/ RetryRead(r)
             \/ RetryNoBlob(r) \/ RetryPush(r)   \/ RetryFlush(r) \/ RetryStale(r)
      PROVE  db' = db
    BY <1>4 DEF PutRecord, DeleteRecord, SyncNobody, SyncNoBlob, SyncUnnumbered, SyncStart,
       Push, SyncEnd, RetrySelect, RetryNodes, RetrySkip, RetryMissing, RetryFetch, RetryRead, RetryNoBlob, RetryPush,
       RetryFlush, RetryStale, Write, Rollback, tables
<1>5. ASSUME NEW r \in Requests,
             \/ ResetSelect(r)  \/ ResetDelete(r) \/ HealthSelect(r)
             \/ HealthFlush(r) \/ HealthStale(r) \/ Fail(r) \/ (Commit(r) /\ writer # r)
      PROVE  db' = db
    BY <1>5 DEF ResetSelect, ResetDelete, HealthSelect, HealthFlush, HealthStale, Fail, Commit,
       Write, Rollback, tables
<1>6. ASSUME Crash \/ (\E n \in Nodes : Pull(n)) \/ UNCHANGED vars PROVE db' = db
    BY <1>6 DEF Crash, Pull, tables, vars
<1> QED
    BY <1>1, <1>2, <1>3, <1>4, <1>5, <1>6 DEF Next

(* A commit settles fates: each row of the log goes where it may. *)
LEMMA CommitSettles ==
    ASSUME ReplInv, DeliveryInv, ContestInv, ReplInv', DeliveryInv',
           NEW r \in Requests, Commit(r), writer = r
    PROVE  Promise!Settle
<1>0. /\ pc \in [Requests -> {"idle"} \cup Active \cup Ended] /\ r # NoRequest
      /\ pc[r] = "synced" /\ pc' = [pc EXCEPT ![r] = "done"]
      /\ UNCHANGED <<stored, rec>> /\ db' = draft
      /\ posted' = posted \cup DOMAIN draft.logs \cup draft.dead
      /\ cleared' = cleared \cup todo[r]
    BY Committed, ReplicationAssumption DEF ReplInv, TypeOK
<1>1. Arrived' = Arrived
  <2>1. \A i \in LogIds : pc'[i[1]] # "idle" <=> pc[i[1]] # "idle"
    BY <1>0 DEF LogIds
  <2> QED
    BY <1>0, <2>1 DEF Arrived
<1>2. ASSUME NEW i \in LogIds
      PROVE  /\ Fate(i)' \in {"none", "acked", "owed", "dead", "reset"}
             /\ Fate(i)' = "acked" => i \in Arrived
             /\ Fate(i)' # Fate(i) => \/ Fate(i)' \in Promise!Follows[Fate(i)]
                                      \/ Fate(i) = "acked" /\ i \in contested /\ Fate(i)' = "dead"
  <2>1. FatesKnown /\ FatesKnown'
    BY FatesAreKnown, PTL
  <2>2. \/ Fate(i)' = "none" /\ i \notin posted'
        \/ i \in posted' /\ i \in DOMAIN draft.logs /\ IF Acked(draft.logs[i]) THEN Fate(i)' = "acked"
                                                                          ELSE Fate(i)' = "owed"
        \/ i \in posted' /\ i \notin DOMAIN draft.logs /\ i \in draft.dead /\ Fate(i)' = "dead"
        \/ /\ i \in posted' /\ i \notin DOMAIN draft.logs /\ i \notin draft.dead /\ i \in cleared'
           /\ Fate(i)' = "reset"
    BY <1>0, <2>1 DEF FatesKnown
  <2>3. Fate(i)' = "acked" => i \in Arrived
    <3>1. i \in DOMAIN draft.logs => draft.logs[i].record = rec[i[1]]
      BY DEF ReplInv, Named
    <3>2. i \in DOMAIN draft.logs /\ Acked(draft.logs[i]) => draft.logs[i].record \in stored[i[2]]
      BY DEF ReplInv, AckedReceived, Received
    <3>3. i \in DOMAIN draft.logs => pc[i[1]] # "idle"
      BY <1>0 DEF ReplInv, RowsOfWrites, Written
    <3> QED
      BY <2>2, <3>1, <3>2, <3>3 DEF Arrived
  <2>4. \/ i \notin posted /\ i \notin cleared'
        \/ i \in posted
    <3>1. todo[r] \subseteq posted
      BY <1>0 DEF DeliveryInv
    <3> QED
      BY <1>0, <3>1 DEF DeliveryInv
  <2>5. /\ i \in DOMAIN db.logs /\ i \in DOMAIN draft.logs /\ Acked(db.logs[i]) => Acked(draft.logs[i])
        /\ i \in db.dead => i \in draft.dead
    BY DEF ReplInv, DraftKeeps
  <2>6. /\ i \in DOMAIN draft.logs /\ i \in posted => i \in DOMAIN db.logs
        /\ i \in draft.dead /\ i \in posted => i \in DOMAIN db.logs \/ i \in db.dead
    BY DEF DeliveryInv
  <2>7. posted \subseteq posted'
    BY <1>0
  <2>8. i \in DOMAIN db.logs /\ Acked(db.logs[i]) /\ i \in draft.dead => i \in contested
    <3>1. i \in DOMAIN db.logs => i \in posted /\ i \notin db.dead
      BY DEF DeliveryInv
    <3>2. i \in draft.dead \ db.dead /\ i \in posted => i \in DOMAIN loaded[r]
      BY <1>0 DEF ContestInv, Contestants
    <3> QED
      BY <3>1, <3>2 DEF ContestInv
  <2>9. Fate(i) = "acked" => i \in DOMAIN db.logs /\ Acked(db.logs[i])
    BY <2>1 DEF FatesKnown
  <2>10. \/ Fate(i)' = Fate(i) \/ Fate(i)' \in Promise!Follows[Fate(i)]
         \/ Fate(i) = "acked" /\ Fate(i)' = "dead"
    BY <2>1, <2>2, <2>4, <2>5, <2>6, <2>7 DEF Promise!Follows, FatesKnown
  <2>11. Fate(i) = "acked" /\ Fate(i)' = "dead" => i \in contested
    BY <2>2, <2>8, <2>9
  <2> QED
    BY <2>2, <2>3, <2>10, <2>11
<1>3. DOMAIN Promise!Follows = {"none", "acked", "owed", "dead", "reset"}
    BY DEF Promise!Follows
<1>4. contested' = contested
    BY DEF Commit
<1> QED
    BY <1>1, <1>2, <1>3, <1>4 DEF Promise!Settle, Promise!GivenUp

LEMMA StepIsDelivery ==
    ASSUME ReplInv, DeliveryInv, ContestInv, ReplInv', DeliveryInv', [Next]_vars
    PROVE  [Promise!Next]_<<[i \in LogIds |-> Fate(i)], Arrived, contested>>
<1>1. CASE \E r \in Requests : Commit(r) /\ writer = r
    BY <1>1, CommitSettles DEF Promise!Next
<1>2. CASE ~\E r \in Requests : Commit(r) /\ writer = r
  <2>1. /\ db'.logs = db.logs /\ db'.dead = db.dead
        /\ posted' = posted /\ cleared' = cleared
    BY <1>2, FatesStay
  <2>2. \A i \in LogIds : Fate(i)' = Fate(i)
    BY <2>1 DEF Fate
  <2>3. [i \in LogIds |-> Fate(i)]' = [i \in LogIds |-> Fate(i)]
    BY <2>2
  <2>4. Arrived \subseteq Arrived'
    BY ArrivalsStay
  <2>5. CASE contested' = contested
    BY <2>3, <2>4, <2>5 DEF Promise!Next, Promise!Arrive
  <2>6. CASE \E r \in Requests : RetrySelect(r)
    <3>1. PICK r \in Requests : RetrySelect(r)
      BY <2>6
    <3>2. ASSUME NEW i \in contested' \ contested PROVE i \in LogIds /\ Fate(i) = "owed"
      <4>1. i \in DOMAIN db.logs /\ ~Acked(db.logs[i])
        BY <3>1, <3>2, Selected DEF Acked
      <4>2. i \in LogIds /\ i \in posted
        BY <4>1 DEF ReplInv, TypeOK, TablesOK, DeliveryInv
      <4>3. FatesKnown
        BY FatesAreKnown
      <4> QED
        BY <4>1, <4>2, <4>3 DEF FatesKnown
    <3>3. contested \subseteq contested'
      BY <3>1, Selected
    <3>4. \A i \in contested' \ contested : i \in LogIds /\ [j \in LogIds |-> Fate(j)][i] = "owed"
      BY <3>2
    <3> QED
      BY <2>3, <2>4, <3>3, <3>4 DEF Promise!Next, Promise!Contend
  <2> QED
    BY <1>2, <2>5, <2>6, OnlySelectsContest
<1> QED
    BY <1>1, <1>2

(* Push replication keeps its promise: a change is acked by a standby that has
   it and is never owed again then, what is dead or reset stays so, and no
   committed change is out of the log without having been acked, filed or
   reset, or in it where no retry selects it.  An acked change becomes a dead
   letter only where two retries had it in hand at a time. *)
THEOREM ReplicationImplementsDelivery == Spec => ImplementsDelivery
<1>1. Init => ReplInv /\ DeliveryInv /\ ContestInv
    BY InitHolds, DeliveryInit, ContestInit
<1>2. ReplInv /\ DeliveryInv /\ ContestInv /\ [Next]_vars => (ReplInv /\ DeliveryInv /\ ContestInv)'
    BY StepKeeps, DeliveryStep, ContestStep
<1>3. Init => Promise!Init
    BY InitIsDelivery
<1>4. ReplInv /\ DeliveryInv /\ ContestInv /\ (ReplInv /\ DeliveryInv)' /\ [Next]_vars =>
          [Promise!Next]_<<[i \in LogIds |-> Fate(i)], Arrived, contested>>
    BY StepIsDelivery
<1> QED
    BY <1>1, <1>2, <1>3, <1>4, PTL DEF Spec, ImplementsDelivery, Promise!Spec
==============================================================================
