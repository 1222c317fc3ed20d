---------------------------- MODULE KeyRotationProofs ----------------------------
(***************************************************************************)
(* What the master keys keep to for every set of key names, passphrases,   *)
(* records and requests, and whatever fails or dies between two steps: the *)
(* names on the rows tell the keys they are wrapped under, a rotation that *)
(* was not disturbed can be repeated, and no key file is ever replaced but *)
(* by rotate_master_key.                                                   *)
(***************************************************************************)
EXTENDS KeyRotation, TLAPS

-----------------------------------------------------------------------------
(* The inductive invariant. *)

Ends == {"inserted", "reloading", "committing"}

(* What is so whatever happened: a key in a file was generated, a key that is
   to be installed is one, the lock is held by a request that wrote, and a
   rotation was due. *)
Lawful ==
    /\ TypeOK
    /\ \A kid \in KeyIds : files[kid].key <= made
    /\ \A e \in escrow : e.key # 0
    /\ \A r \in Requests : /\ job[r].at = "installing" => job[r].key # 0
                           /\ job[r].at = "inserted" => writer = r
                           /\ job[r].at \in {"selecting", "rewrapping"} => sched.saved /\ sched.last # "none"
    /\ writer # NoRequest => job[writer].at \in Ends

(* A rotation runs alone. *)
Alone == \A q, r \in Requests : Rotating(q) /\ Under(r) => r = q

(* The key a row is labelled with is the one it is wrapped under. *)
Told(row) == row.wrap # 0 /\ row.wrap = Stored(row.label)

(* What the request in hand relies on. *)
Backed(j) ==
    /\ j.at = "checked" => /\ j.eng.id = active
                           /\ j.eng.keys[active] = Stored(active) /\ Stored(active) # 0
    /\ j.at = "sealed"  => Told(j.row) /\ j.row.label = active
    /\ j.at \in {"selecting", "rewrapping"} => Loadable(j.id) /\ files[j.id].pass = j.pass
    /\ j.at = "reloading" => /\ active = j.id
                             /\ j.keys[j.id] = Stored(j.id) /\ Stored(j.id) # 0

Sound ==
    /\ Alone
    /\ \A x \in Kept(rows) : Told(rows[x])
    /\ \A x \in Kept(draft) : Told(draft[x])
    /\ \A kid \in KeyIds : engine.keys[kid] \in {0, Stored(kid)}
    /\ engine # NoEngine => engine.keys[engine.id] # 0
    /\ (\A r \in Requests : job[r].at # "reloading") => engine.id = active
    /\ \A r \in Requests : Backed(job[r])

Labelled ==
    /\ sched.saved => sched.current = active
    /\ Publishing = {} => \A x \in Kept(rows) : rows[x].label = active
    /\ writer # NoRequest => \A x \in Kept(draft) : draft[x].label = active
    /\ \A r \in Requests : /\ Published(r) => writer = r \/ Kept(rows) = {}
                           /\ job[r].at = "rewrapping" => job[r].found = rows

KeyInv ==
    /\ Lawful
    /\ ~mixed /\ ~misled => Sound
    /\ ~mixed /\ ~misled /\ ~lapsed => Labelled

-----------------------------------------------------------------------------
(* Keys and files. *)

LEMMA KeyFacts ==
    /\ 0 \in Key /\ Wrong \in Key /\ 0 .. MaxKeys \subseteq Key
    /\ \A k \in 0 .. MaxKeys : Garbled(k) \in Key /\ (k # 0 => Garbled(k) # 0)
    /\ Wrong # 0
    BY KeyAssumption DEF Key, Wrong, Garbled

(* The parts of the type invariant that the actions look at. *)
LEMMA Types ==
    ASSUME TypeOK
    PROVE  /\ made \in 0 .. MaxKeys /\ made \in Nat /\ 0 .. made \subseteq 0 .. MaxKeys
           /\ files \in [KeyIds -> File] /\ active \in KeyIds /\ engine \in Engine
           /\ rows \in [Records -> Row] /\ draft \in [Records -> Row]
           /\ job \in [Requests -> Job] /\ writer \in Requests \cup {NoRequest}
           /\ mixed \in BOOLEAN /\ misled \in BOOLEAN /\ lapsed \in BOOLEAN
           /\ \A kid \in KeyIds : /\ files[kid].key \in Key /\ files[kid].salt \in BOOLEAN
                                  /\ files[kid].pass \in Passphrases \cup {NoPassphrase}
    BY KeyAssumption DEF TypeOK, File

LEMMA NoJobIsJob ==
    /\ NoJob \in Job /\ NoJob.at = "idle" /\ NoEngine \in Engine /\ NoRow \in Row
    /\ NoKeys \in KeySet /\ NoEngine.id = Configured
    /\ \A kid \in KeyIds : NoEngine.keys[kid] = 0
    BY KeyAssumption, KeyFacts DEF NoJob, Job, NoEngine, Engine, NoRow, Row, NoKeys, KeySet, Put, Rotate

(* A file that can be loaded stays as it is. *)
Stable == \A kid \in KeyIds : Loadable(kid) => files'[kid] = files[kid]

FilesFine ==
    /\ files \in [KeyIds -> File] /\ made \in 0 .. MaxKeys
    /\ \A kid \in KeyIds : files[kid].key <= made

LEMMA StoredIsKey ==
    ASSUME Lawful, NEW kid \in KeyIds
    PROVE  /\ Stored(kid) \in 0 .. MaxKeys /\ Stored(kid) \in Key
           /\ Loadable(kid) <=> Stored(kid) # 0
           /\ Loadable(kid) => /\ Stored(kid) = files[kid].key
                               /\ \A p : Opened(kid, p) \in Key /\ Opened(kid, p) # 0
<1>1. files[kid].key \in 0 .. MaxKeys
    BY Types, KeyAssumption DEF Lawful, Key
<1>2. CASE Loadable(kid)
  <2>1. Stored(kid) = files[kid].key /\ files[kid].key # 0
    BY <1>2 DEF Stored, Loadable
  <2>2. ASSUME NEW p PROVE Opened(kid, p) \in Key /\ Opened(kid, p) # 0
    <3>1. files[kid].key \in Key /\ Garbled(files[kid].key) \in Key /\ Garbled(files[kid].key) # 0
        BY <1>1, <2>1, KeyFacts
    <3> QED
        BY <2>1, <3>1 DEF Opened
  <2> QED
    BY <1>1, <1>2, <2>1, <2>2, KeyFacts
<1>3. CASE ~Loadable(kid)
    BY <1>3, KeyFacts, KeyAssumption DEF Stored
<1> QED
    BY <1>2, <1>3

LEMMA StoredStays ==
    ASSUME Lawful, Stable, NEW kid \in KeyIds, Stored(kid) # 0
    PROVE  Stored(kid)' = Stored(kid)
    BY StoredIsKey DEF Stable, Stored, Loadable

LEMMA Created ==
    ASSUME Lawful, NEW kid \in KeyIds, NEW p \in Passphrases, NEW whole \in BOOLEAN,
           Create(kid, p, whole)
    PROVE  /\ Stable /\ FilesFine' /\ made + 1 \in Key /\ made + 1 # 0 /\ made' = made + 1
           /\ files' = [files EXCEPT ![kid] = [key |-> made + 1, pass |-> p, salt |-> whole]]
           /\ files'[kid].key = made + 1 /\ files'[kid].pass = p /\ files'[kid].salt = whole
<1>1. /\ made < MaxKeys /\ files[kid].key = 0 /\ made' = made + 1
      /\ files' = [files EXCEPT ![kid] = [key |-> made + 1, pass |-> p, salt |-> whole]]
    BY DEF Create, MayCreate
<1>2. made \in Nat /\ MaxKeys \in Nat /\ files \in [KeyIds -> File] /\ made \in 0 .. MaxKeys
    BY Types, KeyAssumption DEF Lawful
<1>3. made + 1 \in Key /\ made + 1 # 0 /\ made + 1 \in 0 .. MaxKeys
    BY <1>1, <1>2 DEF Key
<1>4. Stable
    BY <1>1, <1>2 DEF Stable, Loadable
<1> DEFINE f == [key |-> made + 1, pass |-> p, salt |-> whole]
<1>5. f \in File /\ f.key = made + 1 /\ f.pass = p /\ f.salt = whole
    BY <1>3 DEF File
<1> HIDE DEF f
<1>6. files' \in [KeyIds -> File] /\ \A k \in KeyIds : files'[k] = IF k = kid THEN f ELSE files[k]
    BY <1>1, <1>2, <1>5 DEF f
<1>7. \A k \in KeyIds : files[k].key <= made /\ files[k].key \in Nat
    BY KeyAssumption DEF Lawful, TypeOK, File, Key
<1>8. FilesFine'
    BY <1>1, <1>2, <1>3, <1>5, <1>6, <1>7 DEF FilesFine
<1> QED
    BY <1>1, <1>3, <1>4, <1>5, <1>6, <1>8 DEF f

LEMMA FilesKept ==
    ASSUME Lawful, files' = files, made' = made
    PROVE  Stable /\ FilesFine'
    BY Types DEF Lawful, Stable, FilesFine

(* What is told stays told, and what a request relies on, while the active name
   is the same. *)
LEMMA ToldStays ==
    ASSUME Lawful, Stable, NEW row \in Row, Told(row)
    PROVE  Told(row)'
    BY StoredStays DEF Told, Row

LEMMA BackedStays ==
    ASSUME Lawful, Stable, active' = active, NEW j \in Job, Backed(j)
    PROVE  Backed(j)'
<1>1. /\ j.id \in KeyIds /\ j.row \in Row /\ active \in KeyIds /\ j.eng \in Engine
    BY Types DEF Job, Lawful
<1>2. Stored(active) # 0 => Stored(active)' = Stored(active)
  <2>1. Stored(active) # 0 => files'[active] = files[active]
    BY <1>1, StoredIsKey DEF Stable
  <2> QED
    BY <2>1 DEF Stored, Loadable
<1>3. Stored(j.id) # 0 => Stored(j.id)' = Stored(j.id)
    BY <1>1, StoredStays
<1>4. j.at = "sealed" => Told(j.row)'
    BY <1>1, ToldStays DEF Backed
<1>5. Loadable(j.id) => Loadable(j.id)' /\ files'[j.id].pass = files[j.id].pass
    BY <1>1 DEF Stable, Loadable
<1> QED
    BY <1>1, <1>2, <1>3, <1>4, <1>5 DEF Backed

-----------------------------------------------------------------------------
(* What a step that neither writes, names nor installs a key keeps: the request
   in hand may go on, q, to something it can rely on. *)

Moved(q) ==
    /\ job[q].at \notin Ends /\ job'[q].at \notin Ends
    /\ job'[q].at = "installing" => job'[q].key # 0
    /\ job'[q].at = "rewrapping" => job'[q].found = rows
    /\ job'[q].at \in {"selecting", "rewrapping"} => sched'.saved /\ sched'.last # "none"
    /\ ~mixed' /\ ~misled => Backed(job[q])'

Quiet ==
    /\ UNCHANGED <<memory, tables, misled, lapsed, stranded>>
    /\ Stable /\ FilesFine'
    /\ sched' \in [saved : BOOLEAN, last : {"none", "recent", "old"}, current : KeyIds, auto : BOOLEAN]
    /\ sched.saved /\ sched.last # "none" => sched'.saved /\ sched'.last # "none"
    /\ (sched.saved => sched.current = active) => (sched'.saved => sched'.current = active)
    /\ escrow' \subseteq [how : {"sealed", "split"}, key : Key] /\ \A e \in escrow' : e.key # 0
    /\ mixed' \in BOOLEAN /\ (mixed => mixed') /\ (~mixed' /\ ~misled => Alone')
    /\ job' \in [Requests -> Job]
    /\ \A q \in Requests : job'[q] = job[q] \/ Moved(q)

LEMMA QuietKeeps == ASSUME KeyInv, Quiet PROVE KeyInv'
<1>1. /\ active' = active /\ engine' = engine /\ rows' = rows /\ draft' = draft
      /\ writer' = writer /\ misled' = misled /\ lapsed' = lapsed /\ stranded' = stranded
    BY DEF Quiet, memory, tables
<1>2. Lawful
    BY DEF KeyInv
<1>3. TypeOK'
    BY <1>1, <1>2 DEF Quiet, FilesFine, TypeOK, Lawful, Moved, Ends, Rotate
<1>4. Lawful'
  <2>1. \A kid \in KeyIds : files'[kid].key <= made'
      BY DEF Quiet, FilesFine
  <2>2. \A e \in escrow' : e.key # 0
      BY DEF Quiet
  <2>3. ASSUME NEW q \in Requests
        PROVE  /\ job'[q].at = "installing" => job'[q].key # 0
               /\ job'[q].at = "inserted" => writer' = q
               /\ job'[q].at \in {"selecting", "rewrapping"} => sched'.saved /\ sched'.last # "none"
    <3>1. job'[q] = job[q] \/ Moved(q)
        BY DEF Quiet
    <3>2. CASE job'[q] = job[q]
        BY <1>1, <1>2, <3>2 DEF Quiet, Lawful
    <3>3. CASE Moved(q)
        BY <3>3 DEF Moved, Ends
    <3> QED
        BY <3>1, <3>2, <3>3
  <2>4. writer' # NoRequest => job'[writer'].at \in Ends
      BY <1>1, <1>2, Types DEF Quiet, Lawful, Moved
  <2> QED
      BY <1>3, <2>1, <2>2, <2>3, <2>4 DEF Lawful
<1>5. ASSUME ~mixed', ~misled' PROVE Sound'
  <2>1. Sound /\ Alone'
      BY <1>1, <1>5 DEF KeyInv, Quiet
  <2>2. \A x \in Records : rows[x] \in Row /\ draft[x] \in Row
      BY <1>2, Types DEF Lawful
  <2>3. \A x \in Kept(rows)' : Told(rows[x])'
      BY <1>1, <1>2, <2>1, <2>2, ToldStays DEF Quiet, Sound, Kept, Told
  <2>4. \A x \in Kept(draft)' : Told(draft[x])'
      BY <1>1, <1>2, <2>1, <2>2, ToldStays DEF Quiet, Sound, Kept, Told
  <2>5. \A kid \in KeyIds : engine'.keys[kid] \in {0, Stored(kid)'}
      BY <1>1, <1>2, <2>1, StoredStays DEF Quiet, Sound
  <2>6. ASSUME NEW q \in Requests PROVE Backed(job[q])'
    <3>1. CASE job'[q] = job[q]
      <4>1. PICK j \in Job : j = job[q] /\ j = job'[q]
          BY <1>2, <3>1, Types DEF Lawful
      <4>2. Backed(j)'
          BY <1>1, <1>2, <2>1, <4>1, BackedStays DEF Quiet, Sound
      <4> QED
          BY <4>1, <4>2
    <3>2. CASE Moved(q)
        BY <1>1, <1>5, <3>2 DEF Moved
    <3> QED
        BY <3>1, <3>2 DEF Quiet
  <2>7. (\A r \in Requests : job'[r].at # "reloading") => (\A r \in Requests : job[r].at # "reloading")
      BY DEF Quiet, Moved, Ends
  <2> QED
      BY <1>1, <2>1, <2>3, <2>4, <2>5, <2>6, <2>7 DEF Sound
<1>6. ASSUME ~mixed', ~misled', ~lapsed' PROVE Labelled'
  <2>1. Labelled
      BY <1>1, <1>6 DEF KeyInv, Quiet
  <2>2. \A q \in Requests : (Published(q) <=> Published(q)')
                            /\ (job'[q].at = "rewrapping" => job'[q].found = rows)
      BY <2>1 DEF Quiet, Moved, Ends, Published, Labelled
  <2>3. Publishing' = Publishing /\ Kept(rows)' = Kept(rows) /\ Kept(draft)' = Kept(draft)
      BY <1>1, <2>2 DEF Publishing, Kept
  <2> QED
      BY <1>1, <2>1, <2>2, <2>3 DEF Labelled, Quiet
<1> QED
    BY <1>4, <1>5, <1>6 DEF KeyInv

(* A request that begins, and one that goes on. *)

LEMMA BeginKeeps ==
    ASSUME KeyInv, NEW r \in Requests, NEW new \in Job, Begin(r, new),
           UNCHANGED <<sched, escrow, memory, tables, misled, lapsed, stranded>>,
           Stable, FilesFine',
           new.at \in {"installing", "checked", "selecting"},
           new.at = "installing" => new.key # 0,
           new.at = "selecting" => sched.saved /\ sched.last # "none",
           ~mixed' /\ ~misled => Backed(new)'
    PROVE  KeyInv'
<1>1. /\ job[r].at = "idle" /\ job' = [job EXCEPT ![r] = new]
      /\ mixed' = (mixed \/ \E q \in Requests \ {r} :
                     Rotating(q) \/ (Under(q) /\ new.at \in Rotate))
    BY DEF Begin, Under
<1>2. /\ job \in [Requests -> Job] /\ mixed \in BOOLEAN /\ TypeOK
    BY Types DEF KeyInv, Lawful
<1>3. /\ job' \in [Requests -> Job] /\ job'[r] = new
      /\ \A q \in Requests \ {r} : job'[q] = job[q]
    BY <1>1, <1>2
<1>4. ~mixed' /\ ~misled => Alone'
  <2> SUFFICES ASSUME ~mixed', ~misled PROVE Alone'
      OBVIOUS
  <2>1. Alone /\ ~mixed /\ \A q \in Requests \ {r} : ~Rotating(q) /\ (new.at \in Rotate => ~Under(q))
      BY <1>1 DEF KeyInv, Sound
  <2> QED
      BY <1>3, <2>1 DEF Alone, Rotating, Under
<1>5. mixed' \in BOOLEAN /\ (mixed => mixed')
    BY <1>1, <1>2
<1>6. Moved(r)
    BY <1>1, <1>3, <1>5 DEF Moved, Ends
<1>7. Quiet
    BY <1>2, <1>3, <1>4, <1>5, <1>6 DEF Quiet, TypeOK, KeyInv, Lawful
<1> QED
    BY <1>7, QuietKeeps

LEMMA CarryKeeps ==
    ASSUME KeyInv, NEW r \in Requests, NEW new \in Job, Carry(r, new), Under(r),
           UNCHANGED <<disk, memory, tables, past>>,
           job[r].at \notin Ends, new.at \in {"idle", "sealed", "rewrapping"},
           new.at = "rewrapping" => /\ Rotating(r) /\ new.found = rows
                                    /\ sched.saved /\ sched.last # "none",
           ~mixed /\ ~misled => Backed(new)'
    PROVE  KeyInv'
<1>1. /\ job' = [job EXCEPT ![r] = new] /\ UNCHANGED <<files, sched, made, escrow>>
      /\ UNCHANGED <<mixed, misled, lapsed, stranded>>
    BY DEF Carry, disk, past
<1>2. /\ job \in [Requests -> Job] /\ mixed \in BOOLEAN /\ TypeOK /\ Lawful
    BY Types DEF KeyInv, Lawful
<1>3. /\ job' \in [Requests -> Job] /\ job'[r] = new
      /\ \A q \in Requests \ {r} : job'[q] = job[q]
    BY <1>1, <1>2
<1>4. ~mixed' /\ ~misled => Alone'
  <2> SUFFICES ASSUME ~mixed, ~misled PROVE Alone'
      BY <1>1
  <2>1. Alone
      BY DEF KeyInv, Sound
  <2> QED
      BY <1>3, <2>1 DEF Alone, Rotating, Under, Rotate
<1>5. Moved(r)
    BY <1>1, <1>3 DEF Moved, Ends
<1>6. Stable /\ FilesFine'
    BY <1>1, <1>2, FilesKept
<1>7. Quiet
    BY <1>1, <1>2, <1>3, <1>4, <1>5, <1>6 DEF Quiet, TypeOK, Lawful
<1> QED
    BY <1>7, QuietKeeps

LEMMA Installing ==
    ASSUME NEW k \in Key
    PROVE  \E j \in Job : /\ j = [NoJob EXCEPT !.at = "installing", !.key = k]
                          /\ j.at = "installing" /\ j.key = k
<1> DEFINE j == [NoJob EXCEPT !.at = "installing", !.key = k]
<1>1. j \in Job /\ j.at = "installing" /\ j.key = k
    BY NoJobIsJob DEF Job
<1> QED
    BY <1>1

LEMMA SetupKeeps == ASSUME KeyInv, NEW r \in Requests, SetupKey(r) PROVE KeyInv'
<1>1. PICK p \in Passphrases : Create(active, p, TRUE)
    BY DEF SetupKey
<1>2. /\ active \in KeyIds /\ Lawful
    BY Types DEF KeyInv, Lawful
<1>3. Stable /\ FilesFine' /\ made + 1 \in Key /\ made + 1 # 0
    BY <1>1, <1>2, Created
<1>4. PICK new \in Job : /\ new = [NoJob EXCEPT !.at = "installing", !.key = made + 1]
                         /\ new.at = "installing" /\ new.key = made + 1
    BY <1>3, Installing
<1>5. Begin(r, new) /\ UNCHANGED <<sched, escrow, memory, tables, misled, lapsed, stranded>>
    BY <1>4 DEF SetupKey
<1>6. Backed(new)'
    BY <1>4 DEF Backed
<1> QED
    BY <1>3, <1>4, <1>5, <1>6, BeginKeeps

LEMMA UnlockKeeps == ASSUME KeyInv, NEW r \in Requests, UnlockKey(r) PROVE KeyInv'
<1>1. PICK p \in Passphrases :
         Begin(r, [NoJob EXCEPT !.at = "installing", !.key = Opened(active, p)])
    BY DEF UnlockKey
<1>2. /\ active \in KeyIds /\ Lawful
    BY Types DEF KeyInv, Lawful
<1>3. Opened(active, p) \in Key /\ Opened(active, p) # 0
    BY <1>2, StoredIsKey DEF UnlockKey
<1>4. PICK new \in Job : /\ new = [NoJob EXCEPT !.at = "installing", !.key = Opened(active, p)]
                         /\ new.at = "installing" /\ new.key = Opened(active, p)
    BY <1>3, Installing
<1>5. Begin(r, new) /\ UNCHANGED <<files, made, sched, escrow, memory, tables, misled, lapsed, stranded>>
    BY <1>1, <1>4 DEF UnlockKey, disk
<1>6. Backed(new)'
    BY <1>4 DEF Backed
<1>7. Stable /\ FilesFine'
    BY <1>2, <1>5, FilesKept
<1> QED
    BY <1>3, <1>4, <1>5, <1>6, <1>7, BeginKeeps

(* A key that was sealed or split. *)
LEMMA EscrowKeeps ==
    ASSUME KeyInv, NEW r \in Requests, NEW k \in Key \ {0},
           Begin(r, [NoJob EXCEPT !.at = "installing", !.key = k]),
           UNCHANGED <<disk, memory, tables, misled, lapsed, stranded>>
    PROVE  KeyInv'
<1>1. Lawful
    BY DEF KeyInv
<1>2. PICK new \in Job : /\ new = [NoJob EXCEPT !.at = "installing", !.key = k]
                         /\ new.at = "installing" /\ new.key = k
    BY Installing
<1>3. Begin(r, new) /\ UNCHANGED <<files, made, sched, escrow>>
    BY <1>2 DEF disk
<1>4. Backed(new)'
    BY <1>2 DEF Backed
<1>5. Stable /\ FilesFine'
    BY <1>1, <1>3, FilesKept
<1> QED
    BY <1>2, <1>3, <1>4, <1>5, BeginKeeps

LEMMA UnsealKeeps == ASSUME KeyInv, NEW r \in Requests, UnsealKey(r) PROVE KeyInv'
<1>1. PICK e \in escrow : Begin(r, [NoJob EXCEPT !.at = "installing", !.key = e.key])
    BY DEF UnsealKey
<1>2. e.key \in Key \ {0}
    BY DEF KeyInv, Lawful, TypeOK
<1> QED
    BY <1>1, <1>2, EscrowKeeps DEF UnsealKey

LEMMA CombineKeeps == ASSUME KeyInv, NEW r \in Requests, CombineShares(r) PROVE KeyInv'
<1>1. PICK e \in escrow : \E k \in {e.key, Wrong} :
         Begin(r, [NoJob EXCEPT !.at = "installing", !.key = k])
    BY DEF CombineShares
<1>2. PICK k \in {e.key, Wrong} : Begin(r, [NoJob EXCEPT !.at = "installing", !.key = k])
    BY <1>1
<1>3. k \in Key \ {0}
    BY KeyFacts DEF KeyInv, Lawful, TypeOK
<1> QED
    BY <1>2, <1>3, EscrowKeeps DEF CombineShares

LEMMA StartPutKeeps == ASSUME KeyInv, NEW r \in Requests, StartPut(r) PROVE KeyInv'
<1>1. Lawful /\ engine \in Engine
    BY Types DEF KeyInv, Lawful
<1> DEFINE new == [NoJob EXCEPT !.at = "checked", !.eng = engine]
<1>2. new \in Job /\ new.at = "checked" /\ new.eng = engine
    BY <1>1, NoJobIsJob DEF Job, Put
<1>3. PICK j \in Job : j = new /\ j.at = "checked" /\ j.eng = engine
    BY <1>2
<1> HIDE DEF new
<1>4. /\ Begin(r, j) /\ UNCHANGED <<files, made, sched, escrow, memory, tables, misled, lapsed, stranded>>
      /\ engine # NoEngine
    BY <1>3 DEF StartPut, new, disk
<1>5. Stable /\ FilesFine'
    BY <1>1, <1>4, FilesKept
<1>6. ASSUME ~mixed', ~misled PROVE Backed(j)'
  <2>1. Sound /\ \A q \in Requests \ {r} : ~Rotating(q)
      BY <1>4, <1>6 DEF Begin, KeyInv
  <2>2. \A q \in Requests : job[q].at # "reloading"
      BY <1>4, <2>1 DEF Begin, Under, Rotating, Rotate
  <2>3. engine.id = active /\ engine.keys[active] # 0 /\ engine.keys[active] \in {0, Stored(active)}
      BY <1>1, <1>4, <2>1, <2>2, Types DEF Sound, KeyInv, Lawful
  <2>4. active' = active /\ Stored(active)' = Stored(active)
      BY <1>4 DEF memory, Stored, Loadable
  <2> QED
      BY <1>3, <2>3, <2>4 DEF Backed
<1> QED
    BY <1>3, <1>4, <1>5, <1>6, BeginKeeps

LEMMA SealKeeps == ASSUME KeyInv, NEW r \in Requests, SealRecord(r) PROVE KeyInv'
<1>1. Lawful /\ active \in KeyIds /\ job \in [Requests -> Job]
    BY Types DEF KeyInv, Lawful
<1>2. PICK old \in Job : old = job[r] /\ old.at = "checked"
    BY <1>1 DEF SealRecord
<1>3. old.eng.id \in KeyIds /\ old.eng.keys[old.eng.id] \in Key
    BY DEF Job, Engine, KeySet
<1> DEFINE row == Sealed(old.eng)
<1>4. row \in Row /\ row.label = active /\ row.wrap = old.eng.keys[old.eng.id]
    BY <1>1, <1>3 DEF Row, Sealed
<1> HIDE DEF row
<1> DEFINE new == [NoJob EXCEPT !.at = "sealed", !.row = row]
<1>5. new \in Job /\ new.at = "sealed" /\ new.row = row
    BY <1>4, NoJobIsJob DEF Job, Put
<1>6. PICK j \in Job : j = new /\ j.at = "sealed" /\ j.row = row
    BY <1>5
<1> HIDE DEF new
<1>7. Carry(r, j) /\ Under(r) /\ job[r].at \notin Ends /\ UNCHANGED <<disk, memory, tables, past>>
    BY <1>2, <1>6 DEF SealRecord, new, row, Ends, Under
<1>8. ASSUME ~mixed, ~misled PROVE Backed(j)'
  <2>1. Backed(old)
      BY <1>2, <1>8 DEF KeyInv, Sound
  <2>2. row.label = active /\ row.wrap = Stored(active) /\ row.wrap # 0
      BY <1>2, <1>4, <2>1 DEF Backed
  <2>3. active' = active /\ Stored(active)' = Stored(active)
      BY <1>7 DEF memory, disk, Stored, Loadable
  <2>4. PICK w \in Row : w = row
      BY <1>4
  <2>5. Told(w)' /\ w.label = active'
      BY <2>2, <2>3, <2>4 DEF Told
  <2> QED
      BY <1>6, <2>4, <2>5 DEF Backed
<1> QED
    BY <1>6, <1>7, <1>8, CarryKeeps

LEMMA SelectKeeps == ASSUME KeyInv, NEW r \in Requests, SelectRows(r) PROVE KeyInv'
<1>1. Lawful /\ rows \in [Records -> Row] /\ job \in [Requests -> Job]
    BY Types DEF KeyInv, Lawful
<1>2. PICK old \in Job : old = job[r] /\ old.at = "selecting"
    BY <1>1 DEF SelectRows
<1> DEFINE new == [old EXCEPT !.at = "rewrapping", !.key = 0, !.found = rows]
<1>3. /\ new \in Job /\ new.at = "rewrapping" /\ new.found = rows
      /\ new.id = old.id /\ new.pass = old.pass
    BY <1>1, KeyFacts DEF Job, Rotate
<1>4. PICK j \in Job : /\ j = new /\ j.at = "rewrapping" /\ j.found = rows
                       /\ j.id = old.id /\ j.pass = old.pass
    BY <1>3
<1> HIDE DEF new
<1>5. /\ Carry(r, j) /\ Under(r) /\ job[r].at \notin Ends /\ UNCHANGED <<disk, memory, tables, past>>
      /\ Rotating(r)
    BY <1>2, <1>4 DEF SelectRows, new, Ends, Under, Rotating, Rotate
<1>6. sched.saved /\ sched.last # "none"
    BY <1>1, <1>2 DEF Lawful
<1>7. ASSUME ~mixed, ~misled PROVE Backed(j)'
  <2>1. Backed(old)
      BY <1>2, <1>7 DEF KeyInv, Sound
  <2>2. Loadable(old.id) /\ files[old.id].pass = old.pass
      BY <1>2, <2>1 DEF Backed
  <2>3. files' = files
      BY <1>5 DEF disk
  <2> QED
      BY <1>4, <2>2, <2>3 DEF Backed, Loadable
<1> QED
    BY <1>4, <1>5, <1>6, <1>7, CarryKeeps

LEMMA SelectFailsKeeps == ASSUME KeyInv, NEW r \in Requests, SelectFails(r) PROVE KeyInv'
<1>1. /\ Carry(r, NoJob) /\ Under(r) /\ job[r].at \notin Ends
      /\ UNCHANGED <<disk, memory, tables, past>>
    BY DEF SelectFails, Ends, Under
<1>2. NoJob \in Job /\ NoJob.at = "idle"
    BY NoJobIsJob
<1>3. Backed(NoJob)'
    BY <1>2 DEF Backed, NoJob
<1> QED
    BY <1>1, <1>2, <1>3, CarryKeeps

(* A rotation is due only where last_rotation is set. *)
LEMMA DueIsSeeded ==
    ASSUME Lawful, Due(State)
    PROVE  /\ sched.saved /\ sched.last # "none"
           /\ State.current \in KeyIds /\ State.auto \in BOOLEAN
    BY Types DEF Lawful, TypeOK, Due, State, NoState

LEMMA StartRotationKeeps == ASSUME KeyInv, NEW r \in Requests, StartRotation(r) PROVE KeyInv'
<1>1. Lawful
    BY DEF KeyInv
<1>2. /\ sched.saved /\ sched.last # "none" /\ State.current \in KeyIds /\ State.auto \in BOOLEAN
    BY <1>1, DueIsSeeded DEF StartRotation
<1>3. PICK p \in Passphrases, kid \in KeyIds :
          /\ Create(kid, p, TRUE)
          /\ Begin(r, [NoJob EXCEPT !.at = "selecting", !.id = kid, !.pass = p,
                                    !.key = Opened(State.current, p), !.auto = State.auto])
    BY DEF StartRotation
<1>4. Opened(State.current, p) \in Key
    BY <1>1, <1>2, StoredIsKey DEF StartRotation
<1>5. PICK k \in Key, a \in BOOLEAN : k = Opened(State.current, p) /\ a = State.auto
    BY <1>2, <1>4
<1> DEFINE new == [NoJob EXCEPT !.at = "selecting", !.id = kid, !.pass = p, !.key = k, !.auto = a]
<1>6. new \in Job /\ new.at = "selecting" /\ new.id = kid /\ new.pass = p
    BY NoJobIsJob DEF Job, Rotate
<1>7. PICK j \in Job : j = new /\ j.at = "selecting" /\ j.id = kid /\ j.pass = p
    BY <1>6
<1>8. Begin(r, new)
    BY <1>3, <1>5
<1> HIDE DEF new
<1>9. Stable /\ FilesFine' /\ files'[kid].key # 0 /\ files'[kid].pass = p /\ files'[kid].salt
    BY <1>1, <1>3, Created
<1>10. Backed(j)'
    BY <1>7, <1>9 DEF Backed, Loadable
<1>11. UNCHANGED <<sched, escrow, memory, tables, misled, lapsed, stranded>>
    BY DEF StartRotation
<1>12. Begin(r, j)
    BY <1>7, <1>8
<1> QED
    BY <1>2, <1>7, <1>9, <1>10, <1>11, <1>12, BeginKeeps

(* What no request does. *)

LEMMA OutsideKeeps ==
    ASSUME KeyInv, UNCHANGED <<memory, tables, job, past>>, Stable, FilesFine',
           sched' \in [saved : BOOLEAN, last : {"none", "recent", "old"}, current : KeyIds, auto : BOOLEAN],
           sched.saved /\ sched.last # "none" => sched'.saved /\ sched'.last # "none",
           (sched.saved => sched.current = active) => (sched'.saved => sched'.current = active),
           escrow' \subseteq [how : {"sealed", "split"}, key : Key], \A e \in escrow' : e.key # 0
    PROVE  KeyInv'
<1>1. job' = job /\ mixed' = mixed /\ misled' = misled /\ UNCHANGED <<lapsed, stranded>>
    BY DEF past
<1>2. mixed \in BOOLEAN /\ job \in [Requests -> Job]
    BY Types DEF KeyInv, Lawful
<1>3. ~mixed /\ ~misled => Alone'
    BY <1>1 DEF KeyInv, Sound, Alone, Rotating, Under
<1>4. Quiet
    BY <1>1, <1>2, <1>3 DEF Quiet
<1> QED
    BY <1>4, QuietKeeps

(* The parts that a step may leave as they are. *)
LEMMA SchedAndEscrow ==
    ASSUME Lawful
    PROVE  /\ sched \in [saved : BOOLEAN, last : {"none", "recent", "old"}, current : KeyIds, auto : BOOLEAN]
           /\ escrow \subseteq [how : {"sealed", "split"}, key : Key] /\ \A e \in escrow : e.key # 0
    BY DEF Lawful, TypeOK

LEMMA CliCreateKeeps == ASSUME KeyInv, CliCreate PROVE KeyInv'
<1>1. Lawful /\ Configured \in KeyIds
    BY KeyAssumption DEF KeyInv
<1>2. Stable /\ FilesFine'
    BY <1>1, Created DEF CliCreate
<1>3. UNCHANGED <<sched, escrow>> /\ UNCHANGED <<memory, tables, job, past>>
    BY DEF CliCreate
<1> QED
    BY <1>1, <1>2, <1>3, SchedAndEscrow, OutsideKeeps

LEMMA KeptAway ==
    ASSUME KeyInv, NEW kid \in KeyIds, Loadable(kid), NEW how \in {"sealed", "split"},
           Keep([how |-> how, key |-> files[kid].key]),
           UNCHANGED <<files, sched, made, memory, tables, job, past>>
    PROVE  KeyInv'
<1>1. Lawful
    BY DEF KeyInv
<1>2. files[kid].key \in Key /\ files[kid].key # 0
    BY <1>1, Types DEF Lawful, Loadable
<1>3. /\ escrow' \subseteq [how : {"sealed", "split"}, key : Key] /\ \A e \in escrow' : e.key # 0
    BY <1>1, <1>2, SchedAndEscrow DEF Keep
<1>4. Stable /\ FilesFine'
    BY <1>1, FilesKept
<1>5. UNCHANGED <<memory, tables, job, past>> /\ UNCHANGED sched
    OBVIOUS
<1> QED
    BY <1>1, <1>3, <1>4, <1>5, SchedAndEscrow, OutsideKeeps

LEMMA SealKeyKeeps == ASSUME KeyInv, SealKey PROVE KeyInv'
<1>1. active \in KeyIds
    BY Types DEF KeyInv, Lawful
<1>2. Keep([how |-> "sealed", key |-> files[active].key])
    BY DEF SealKey, Seals
<1> QED
    BY <1>1, <1>2, KeptAway DEF SealKey

LEMMA SplitKeyKeeps == ASSUME KeyInv, SplitKey PROVE KeyInv'
<1>1. active \in KeyIds
    BY Types DEF KeyInv, Lawful
<1> QED
    BY <1>1, KeptAway DEF SplitKey

LEMMA ConfigureKeeps == ASSUME KeyInv, Configure PROVE KeyInv'
<1>1. Lawful /\ active \in KeyIds /\ Configured \in KeyIds
    BY KeyAssumption, Types DEF KeyInv, Lawful
<1>2. PICK a \in BOOLEAN, l \in (IF State.last = "none" THEN {"none"} ELSE {"recent", "old"}) :
          sched' = [State EXCEPT !.saved = TRUE, !.auto = a, !.last = l]
    BY DEF Configure
<1>3. /\ State \in [saved : BOOLEAN, last : {"none", "recent", "old"}, current : KeyIds, auto : BOOLEAN]
      /\ ~sched.saved => State.last = "none" /\ State.current = active
      /\ sched.saved => State = sched
    BY <1>1, SchedAndEscrow DEF State, NoState
<1>4. l \in {"none", "recent", "old"} /\ (State.last # "none" => l # "none")
    BY <1>2
<1>5. /\ sched' \in [saved : BOOLEAN, last : {"none", "recent", "old"}, current : KeyIds, auto : BOOLEAN]
      /\ sched'.saved /\ sched'.last = l /\ sched'.current = State.current
    BY <1>2, <1>3, <1>4
<1>6. UNCHANGED <<files, made, escrow>> /\ UNCHANGED <<memory, tables, job, past>>
    BY DEF Configure
<1>7. active' = active /\ Stable /\ FilesFine'
    BY <1>1, <1>6, FilesKept DEF memory
<1>8. sched.saved /\ sched.last # "none" => sched'.saved /\ sched'.last # "none"
    BY <1>3, <1>4, <1>5
<1>9. (sched.saved => sched.current = active) => (sched'.saved => sched'.current = active)
    BY <1>3, <1>5
<1> QED
    BY <1>1, <1>5, <1>6, <1>7, <1>8, <1>9, SchedAndEscrow, OutsideKeeps

LEMMA IntervalKeeps == ASSUME KeyInv, IntervalPasses PROVE KeyInv'
<1>1. Lawful
    BY DEF KeyInv
<1>2. sched' = [sched EXCEPT !.last = "old"]
    BY DEF IntervalPasses
<1>3. /\ sched' \in [saved : BOOLEAN, last : {"none", "recent", "old"}, current : KeyIds, auto : BOOLEAN]
      /\ sched'.saved = sched.saved /\ sched'.last = "old" /\ sched'.current = sched.current
    BY <1>1, <1>2, SchedAndEscrow
<1>4. UNCHANGED <<files, made, escrow>> /\ UNCHANGED <<memory, tables, job, past>>
    BY DEF IntervalPasses
<1>5. Stable /\ FilesFine'
    BY <1>1, <1>4, FilesKept
<1> QED
    BY <1>1, <1>3, <1>4, <1>5, SchedAndEscrow, OutsideKeeps

(* The command that reissues a key misleads by its nature. *)
LEMMA ReissueKeeps == ASSUME KeyInv, RotatePassphrase PROVE KeyInv'
<1>1. Lawful /\ Configured \in KeyIds
    BY KeyAssumption DEF KeyInv
<1>2. PICK p \in Passphrases, outcome \in Outcomes : Reissue(p, outcome)
    BY DEF RotatePassphrase
<1>3. /\ UNCHANGED <<sched, escrow, memory, tables, job, mixed, lapsed>>
      /\ stranded' \subseteq Records /\ misled' = TRUE
    BY <1>1 DEF RotatePassphrase, Lawful, TypeOK
<1>4. /\ made \in Nat /\ MaxKeys \in Nat /\ made <= MaxKeys /\ files \in [KeyIds -> File]
      /\ \A k \in KeyIds : files[k].key <= made /\ files[k].key \in Nat
    BY KeyAssumption DEF Lawful, KeyInv, TypeOK, File, Key
<1>5. PICK f \in File : /\ files' = [files EXCEPT ![Configured] = f]
                        /\ made' \in 0 .. MaxKeys /\ made <= made' /\ f.key <= made'
  <2>1. CASE outcome = "gone"
    <3>1. Absent \in File /\ Absent.key = 0
        BY KeyFacts DEF Absent, File
    <3> QED
        BY <1>2, <1>4, <2>1, <3>1 DEF Reissue
  <2>2. CASE outcome # "gone"
    <3> DEFINE f == [key |-> made + 1, pass |-> p, salt |-> outcome = "whole"]
    <3>1. made < MaxKeys /\ made' = made + 1 /\ files' = [files EXCEPT ![Configured] = f]
        BY <1>2, <2>2 DEF Reissue
    <3>2. made + 1 \in Key /\ (outcome = "whole") \in BOOLEAN
        BY <1>4, <3>1 DEF Key
    <3>3. f \in File /\ f.key = made + 1
        BY <3>2 DEF File
    <3> HIDE DEF f
    <3>4. made' \in 0 .. MaxKeys /\ made <= made' /\ f.key <= made'
        BY <1>4, <3>1, <3>3
    <3> QED
        BY <3>1, <3>3, <3>4
  <2> QED
      BY <2>1, <2>2
<1>6. FilesFine'
    BY <1>1, <1>4, <1>5 DEF FilesFine
<1>7. TypeOK'
    BY <1>1, <1>3, <1>6 DEF FilesFine, TypeOK, Lawful, memory, tables
<1>8. Lawful'
    BY <1>1, <1>3, <1>6, <1>7 DEF FilesFine, Lawful, memory, tables
<1> QED
    BY <1>3, <1>8 DEF KeyInv

-----------------------------------------------------------------------------
(* The steps that install a key or write. *)

(* A step of a request that leaves it with nothing in hand, or something that
   nothing is said of. *)
LEMMA Leaving ==
    ASSUME Lawful, NEW r \in Requests, NEW new \in Job, Carry(r, new)
    PROVE  /\ job' \in [Requests -> Job] /\ job'[r] = new
           /\ \A q \in Requests \ {r} : job'[q] = job[q]
    BY Types DEF Carry, Lawful

LEMMA InstallKeeps == ASSUME KeyInv, NEW r \in Requests, Install(r) PROVE KeyInv'
<1>1. Lawful /\ active \in KeyIds /\ job \in [Requests -> Job] /\ misled \in BOOLEAN
    BY Types DEF KeyInv, Lawful
<1>2. PICK k \in Key : k = job[r].key /\ k # 0
    BY <1>1 DEF Install, Lawful, Job
<1>3. /\ job[r].at = "installing" /\ Carry(r, NoJob)
      /\ misled' = (misled \/ k # Stored(active))
      /\ UNCHANGED <<files, sched, made, escrow, active, rows, draft, writer, mixed, lapsed, stranded>>
    BY <1>2 DEF Install, disk, tables
<1>4. /\ job' \in [Requests -> Job] /\ job'[r].at = "idle" /\ job'[r] = NoJob
      /\ \A q \in Requests \ {r} : job'[q] = job[q]
    BY <1>1, <1>3, Leaving, NoJobIsJob
<1>5. /\ engine' \in Engine /\ engine'.id = active /\ engine'.keys[active] = k
      /\ \A kid \in KeyIds \ {active} : engine'.keys[kid] = 0
  <2> DEFINE ks == [NoKeys EXCEPT ![active] = k]
  <2>1. ks \in KeySet /\ ks[active] = k /\ \A kid \in KeyIds \ {active} : ks[kid] = 0
      BY <1>1, NoJobIsJob DEF KeySet, NoKeys
  <2>2. engine' = [id |-> active, keys |-> ks]
      BY <1>2 DEF Install
  <2> HIDE DEF ks
  <2> QED
      BY <1>1, <2>1, <2>2 DEF Engine
<1>6. TypeOK'
    BY <1>1, <1>3, <1>4, <1>5 DEF TypeOK, Lawful, Rotate
<1>7. Lawful'
  <2>1. \A kid \in KeyIds : files'[kid].key <= made'
      BY <1>1, <1>3 DEF Lawful
  <2>2. \A q \in Requests : /\ job'[q].at = "installing" => job'[q].key # 0
                            /\ job'[q].at = "inserted" => writer' = q
                            /\ job'[q].at \in {"selecting", "rewrapping"} => sched'.saved /\ sched'.last # "none"
      BY <1>1, <1>3, <1>4 DEF Lawful
  <2>3. writer' # NoRequest => job'[writer'].at \in Ends
      BY <1>1, <1>3, <1>4, Types DEF Lawful, Ends
  <2> QED
      BY <1>1, <1>3, <1>6, <2>1, <2>2, <2>3 DEF Lawful
<1>8. Stored(active)' = Stored(active) /\ \A kid \in KeyIds : Stored(kid)' = Stored(kid)
    BY <1>1, <1>3 DEF Stored, Loadable
<1>9. ASSUME ~mixed', ~misled' PROVE Sound'
  <2>1. Sound /\ k = Stored(active)
      BY <1>1, <1>3, <1>9 DEF KeyInv
  <2>2. Alone'
      BY <1>3, <1>4, <2>1 DEF Sound, Alone, Rotating, Under, Rotate
  <2>3. ASSUME NEW q \in Requests PROVE Backed(job[q])'
    <3>1. PICK j \in Job : j = job'[q] /\ (j.at = "idle" \/ j = job[q])
        BY <1>4
    <3>2. Stable
        BY <1>3 DEF Stable
    <3>3. Backed(j)'
        BY <1>1, <1>3, <2>1, <3>1, <3>2, BackedStays DEF Sound, Backed
    <3> QED
        BY <3>1, <3>3
  <2>4. (\A x \in Kept(rows)' : Told(rows[x])') /\ (\A x \in Kept(draft)' : Told(draft[x])')
      BY <1>3, <2>1 DEF Sound, Kept, Told, Stored, Loadable
  <2>5. \A kid \in KeyIds : engine'.keys[kid] \in {0, Stored(kid)'}
      BY <1>5, <1>8, <2>1
  <2> QED
      BY <1>2, <1>3, <1>5, <2>2, <2>3, <2>4, <2>5 DEF Sound
<1>10. ASSUME ~mixed', ~misled', ~lapsed' PROVE Labelled'
  <2>1. Labelled
      BY <1>1, <1>3, <1>10 DEF KeyInv
  <2>2. \A q \in Requests : (Published(q)' <=> Published(q))
                            /\ (job'[q].at = "rewrapping" => job'[q].found = rows)
      BY <1>3, <1>4, <2>1 DEF Published, Labelled
  <2>3. Publishing' = Publishing /\ Kept(rows)' = Kept(rows) /\ Kept(draft)' = Kept(draft)
      BY <1>3, <2>2 DEF Publishing, Kept
  <2> QED
      BY <1>3, <2>1, <2>2, <2>3 DEF Labelled
<1> QED
    BY <1>7, <1>9, <1>10 DEF KeyInv

LEMMA OthersBacked ==
    ASSUME Lawful, Stable, active' = active, NEW q \in Requests, job'[q] = job[q], Backed(job[q])
    PROVE  Backed(job[q])'
<1>1. PICK j \in Job : j = job[q] /\ j = job'[q]
    BY Types DEF Lawful
<1> QED
    BY <1>1, BackedStays

(* A put relies on no rotation. *)
LEMMA PutAlone ==
    ASSUME Lawful, Alone, NEW r \in Requests, Under(r), ~Rotating(r)
    PROVE  (\A q \in Requests : ~Rotating(q)) /\ Publishing = {}
<1>1. \A q \in Requests : ~Rotating(q)
    BY DEF Alone
<1> QED
    BY <1>1 DEF Publishing, Published, Rotating, Rotate

LEMMA InsertKeeps == ASSUME KeyInv, NEW r \in Requests, InsertRow(r) PROVE KeyInv'
<1>1. Lawful /\ job \in [Requests -> Job] /\ rows \in [Records -> Row] /\ r # NoRequest
    BY KeyAssumption, Types DEF KeyInv, Lawful
<1>2. PICK old \in Job : old = job[r] /\ old.at = "sealed" /\ old.row \in Row
    BY <1>1 DEF InsertRow, Job
<1>3. PICK x \in Records : rows[x] = NoRow /\ Write(r, [rows EXCEPT ![x] = old.row])
    BY <1>2 DEF InsertRow
<1>4. writer = NoRequest
    BY <1>1, <1>2, <1>3 DEF Write, Lawful, Ends
<1>5. /\ UNCHANGED <<files, sched, made, escrow, active, engine, mixed, misled, lapsed, stranded>>
      /\ writer' = r /\ draft' = [rows EXCEPT ![x] = old.row] /\ rows' = rows
    BY <1>3 DEF InsertRow, Write, disk, memory, past
<1>6. PICK new \in Job : new = [NoJob EXCEPT !.at = "inserted"] /\ new.at = "inserted"
  <2>1. [NoJob EXCEPT !.at = "inserted"] \in Job
      BY NoJobIsJob DEF Job, Put
  <2> QED
      BY <2>1, NoJobIsJob DEF Job
<1>7. /\ job' \in [Requests -> Job] /\ job'[r] = new
      /\ \A q \in Requests \ {r} : job'[q] = job[q]
    BY <1>1, <1>6, Leaving DEF InsertRow
<1>8. /\ draft' \in [Records -> Row] /\ draft'[x] = old.row
      /\ \A y \in Records \ {x} : draft'[y] = rows[y]
    BY <1>1, <1>2, <1>5
<1>9. TypeOK'
    BY <1>1, <1>5, <1>6, <1>7, <1>8 DEF TypeOK, Lawful
<1>10. Lawful'
  <2>1. \A kid \in KeyIds : files'[kid].key <= made'
      BY <1>1, <1>5 DEF Lawful
  <2>2. \A q \in Requests : /\ job'[q].at = "installing" => job'[q].key # 0
                            /\ job'[q].at = "inserted" => writer' = q
                            /\ job'[q].at \in {"selecting", "rewrapping"} => sched'.saved /\ sched'.last # "none"
      BY KeyAssumption, <1>1, <1>4, <1>5, <1>6, <1>7 DEF Lawful
  <2> QED
      BY <1>1, <1>5, <1>6, <1>7, <1>9, <2>1, <2>2 DEF Lawful, Ends
<1>11. ASSUME ~mixed', ~misled' PROVE Sound' /\ Publishing = {} /\ Publishing' = {} /\ old.row.label = active
  <2>1. Sound /\ Backed(old)
      BY <1>2, <1>5, <1>11 DEF KeyInv, Sound
  <2>2. (\A q \in Requests : ~Rotating(q)) /\ Publishing = {}
      BY <1>1, <1>2, <2>1, PutAlone DEF Sound, Under, Rotating, Rotate
  <2>3. \A q \in Requests : ~Rotating(q)'
      BY <1>6, <1>7, <2>2 DEF Rotating, Rotate
  <2>4. Alone' /\ Publishing' = {} /\ \A q \in Requests : job[q].at # "reloading"
      BY <2>2, <2>3 DEF Alone, Publishing, Published, Rotating, Rotate
  <2>5. Stable /\ \A kid \in KeyIds : Stored(kid)' = Stored(kid)
      BY <1>5 DEF Stable, Stored, Loadable
  <2>6. ASSUME NEW q \in Requests PROVE Backed(job[q])'
    <3>1. CASE q = r
        BY <1>6, <1>7, <3>1 DEF Backed
    <3>2. CASE q # r
        BY <1>1, <1>5, <1>7, <2>1, <2>5, <3>2, OthersBacked DEF Sound
    <3> QED
        BY <3>1, <3>2
  <2>7. \A y \in Kept(rows)' : Told(rows[y])'
      BY <1>5, <2>1 DEF Sound, Kept, Told, Stored, Loadable
  <2>8. ASSUME NEW y \in Kept(draft)' PROVE Told(draft[y])'
    <3>1. PICK w \in Row : w = draft'[y]
        BY <1>8 DEF Kept
    <3>2. Told(w)
        BY <1>2, <1>8, <2>1, <3>1 DEF Sound, Kept, Backed
    <3>3. Told(w)'
        BY <1>1, <2>5, <3>2, ToldStays
    <3> QED
        BY <3>1, <3>3
  <2> QED
      BY <1>2, <1>5, <2>1, <2>2, <2>4, <2>5, <2>6, <2>7, <2>8 DEF Sound, Backed
<1>12. ASSUME ~mixed', ~misled', ~lapsed' PROVE Labelled'
  <2>1. Labelled /\ Publishing = {} /\ Publishing' = {} /\ old.row.label = active
      BY <1>5, <1>11, <1>12 DEF KeyInv
  <2>2. \A q \in Requests : ~Published(q)' /\ (job'[q].at = "rewrapping" => job'[q].found = rows)
      BY <1>6, <1>7, <2>1 DEF Published, Labelled, Publishing
  <2>3. \A y \in Kept(draft)' : draft'[y].label = active
      BY <1>8, <2>1 DEF Labelled, Kept
  <2> QED
      BY <1>5, <2>1, <2>2, <2>3 DEF Labelled, Kept
<1> QED
    BY <1>10, <1>11, <1>12 DEF KeyInv

LEMMA CommitPutKeeps == ASSUME KeyInv, NEW r \in Requests, CommitPut(r) PROVE KeyInv'
<1>1. Lawful /\ job \in [Requests -> Job] /\ draft \in [Records -> Row] /\ r # NoRequest
    BY KeyAssumption, Types DEF KeyInv, Lawful
<1>2. /\ job[r].at = "inserted" /\ writer = r
      /\ UNCHANGED <<files, sched, made, escrow, active, engine, mixed, misled, lapsed, stranded>>
      /\ rows' = draft /\ writer' = NoRequest /\ draft' = draft
    BY <1>1 DEF CommitPut, Lawful, disk, memory, past
<1>3. /\ job' \in [Requests -> Job] /\ job'[r] = NoJob /\ NoJob.at = "idle"
      /\ \A q \in Requests \ {r} : job'[q] = job[q]
    BY <1>1, NoJobIsJob, Leaving DEF CommitPut
<1>4. TypeOK'
    BY <1>1, <1>2, <1>3 DEF TypeOK, Lawful
<1>5. Lawful'
  <2>1. \A kid \in KeyIds : files'[kid].key <= made'
      BY <1>1, <1>2 DEF Lawful
  <2>2. \A q \in Requests : /\ job'[q].at = "installing" => job'[q].key # 0
                            /\ job'[q].at = "inserted" => writer' = q
                            /\ job'[q].at \in {"selecting", "rewrapping"} => sched'.saved /\ sched'.last # "none"
      BY <1>1, <1>2, <1>3 DEF Lawful
  <2> QED
      BY <1>1, <1>2, <1>4, <2>1, <2>2 DEF Lawful
<1>6. ASSUME ~mixed', ~misled'
      PROVE  Sound' /\ Publishing' = {} /\ \A q \in Requests : ~Rotating(q)'
  <2>1. Sound
      BY <1>2, <1>6 DEF KeyInv
  <2>2. \A q \in Requests : ~Rotating(q)
      BY <1>1, <1>2, <2>1, PutAlone DEF Sound, Under, Rotating, Rotate
  <2>3. \A q \in Requests : ~Rotating(q)'
      BY <1>3, <2>2 DEF Rotating, Rotate
  <2>4. Alone' /\ Publishing' = {} /\ \A q \in Requests : job[q].at # "reloading"
      BY <2>2, <2>3 DEF Alone, Publishing, Published, Rotating, Rotate
  <2>5. Stable /\ \A kid \in KeyIds : Stored(kid)' = Stored(kid)
      BY <1>2 DEF Stable, Stored, Loadable
  <2>6. ASSUME NEW q \in Requests PROVE Backed(job[q])'
    <3>1. CASE q = r
        BY <1>3, <3>1 DEF Backed
    <3>2. CASE q # r
        BY <1>1, <1>2, <1>3, <2>1, <2>5, <3>2, OthersBacked DEF Sound
    <3> QED
        BY <3>1, <3>2
  <2>7. (\A y \in Kept(rows)' : Told(rows[y])') /\ (\A y \in Kept(draft)' : Told(draft[y])')
      BY <1>2, <2>1 DEF Sound, Kept, Told, Stored, Loadable
  <2> QED
      BY <1>2, <2>1, <2>3, <2>4, <2>5, <2>6, <2>7 DEF Sound
<1>7. ASSUME ~mixed', ~misled', ~lapsed' PROVE Labelled'
  <2>1. Labelled /\ \A q \in Requests : ~Rotating(q)'
      BY <1>2, <1>6, <1>7 DEF KeyInv
  <2>2. \A q \in Requests : ~Published(q)' /\ job'[q].at # "rewrapping"
      BY <2>1 DEF Published, Rotating, Rotate
  <2>3. \A y \in Kept(rows)' : rows'[y].label = active
      BY <1>1, <1>2, <2>1 DEF Labelled, Kept
  <2> QED
      BY <1>2, <2>1, <2>2, <2>3 DEF Labelled
<1> QED
    BY <1>5, <1>6, <1>7 DEF KeyInv

LEMMA PublishKeeps == ASSUME KeyInv, NEW r \in Requests, PublishKey(r) PROVE KeyInv'
<1>1. /\ Lawful /\ job \in [Requests -> Job] /\ rows \in [Records -> Row] /\ draft \in [Records -> Row]
      /\ r # NoRequest
    BY KeyAssumption, Types DEF KeyInv, Lawful
<1>2. PICK j \in Job : j = job[r] /\ j.at = "rewrapping"
    BY <1>1 DEF PublishKey
<1>3. PICK new \in Key : new = files[j.id].key
    BY <1>1, Types DEF Lawful, Job
<1> DEFINE table == [x \in Records |->
                        IF j.found[x] = NoRow THEN rows[x] ELSE Rewrapped(j.found[x], j.id, new)]
<1>4. /\ table \in [Records -> Row]
      /\ \A x \in Records : IF j.found[x] = NoRow THEN table[x] = rows[x]
                            ELSE table[x].label = j.id /\ table[x].wrap = new
  <2>1. ASSUME NEW x \in Records
        PROVE  /\ Rewrapped(j.found[x], j.id, new) \in Row
               /\ Rewrapped(j.found[x], j.id, new).label = j.id
               /\ Rewrapped(j.found[x], j.id, new).wrap = new
    <3>1. PICK row \in Row : row = j.found[x]
        BY DEF Job
    <3>2. j.id \in KeyIds
        BY DEF Job
    <3> QED
        BY <3>1, <3>2 DEF Rewrapped, Row
  <2> QED
      BY <1>1, <2>1
<1> HIDE DEF table
<1>5. /\ IF Kept(j.found) = {} THEN UNCHANGED tables ELSE Write(r, table)
      /\ sched' = [saved |-> TRUE, last |-> "recent", current |-> j.id, auto |-> j.auto]
      /\ active' = j.id
      /\ UNCHANGED <<files, made, escrow, engine, mixed, misled, lapsed, stranded>>
    BY <1>2, <1>3 DEF PublishKey, table, past
<1>6. /\ rows' = rows /\ writer # r
      /\ \/ Kept(j.found) = {} /\ draft' = draft /\ writer' = writer
         \/ Kept(j.found) # {} /\ draft' = table /\ writer' = r /\ writer = NoRequest
    BY <1>1, <1>2, <1>5 DEF Write, Lawful, TypeOK, Ends, tables
<1> DEFINE ks == [kid \in KeyIds |-> IF Loadable(kid) THEN Opened(kid, j.pass) ELSE 0]
<1>7. /\ ks \in KeySet
      /\ \A kid \in KeyIds : ks[kid] = IF Loadable(kid) THEN Opened(kid, j.pass) ELSE 0
    BY <1>1, StoredIsKey, KeyFacts DEF KeySet
<1>8. PICK k \in KeySet : k = ks /\ \A kid \in KeyIds : k[kid] = IF Loadable(kid) THEN Opened(kid, j.pass) ELSE 0
    BY <1>7
<1> HIDE DEF ks
<1> DEFINE next == [j EXCEPT !.at = "reloading", !.pass = NoPassphrase, !.auto = FALSE, !.keys = k]
<1>9. /\ next \in Job /\ next.at = "reloading" /\ next.id = j.id /\ next.keys = k
    BY DEF Job, Rotate
<1>10. PICK after \in Job : /\ after = next /\ after.at = "reloading" /\ after.id = j.id /\ after.keys = k
    BY <1>9
<1> HIDE DEF next
<1>11. Carry(r, after)
    BY <1>2, <1>8, <1>10 DEF PublishKey, next, ks
<1>12. /\ job' \in [Requests -> Job] /\ job'[r] = after
       /\ \A q \in Requests \ {r} : job'[q] = job[q]
    BY <1>1, <1>11, Leaving
<1>13. j.id \in KeyIds /\ j.auto \in BOOLEAN /\ j.found \in [Records -> Row]
    BY DEF Job
<1>14. TypeOK'
  <2>1. sched' \in [saved : BOOLEAN, last : {"none", "recent", "old"}, current : KeyIds, auto : BOOLEAN]
      BY <1>5, <1>13
  <2>2. /\ rows' \in [Records -> Row] /\ draft' \in [Records -> Row] /\ writer' \in Requests \cup {NoRequest}
        /\ writer' = NoRequest => draft' = rows'
      BY <1>1, <1>4, <1>6 DEF Lawful, TypeOK
  <2>3. writer' # NoRequest => job'[writer'].at \in Rotate \cup {"inserted"}
      BY <1>1, <1>6, <1>10, <1>12, Types DEF Lawful, TypeOK, Rotate
  <2> QED
      BY <1>1, <1>5, <1>12, <1>13, <2>1, <2>2, <2>3 DEF TypeOK, Lawful
<1>15. Lawful'
  <2>1. \A kid \in KeyIds : files'[kid].key <= made'
      BY <1>1, <1>5 DEF Lawful
  <2>2. ASSUME NEW q \in Requests
        PROVE  /\ job'[q].at = "installing" => job'[q].key # 0
               /\ job'[q].at = "inserted" => writer' = q
               /\ job'[q].at \in {"selecting", "rewrapping"} => sched'.saved /\ sched'.last # "none"
    <3>1. CASE q = r
        BY <1>10, <1>12, <3>1
    <3>2. CASE q # r
        BY <1>1, <1>5, <1>6, <1>12, <3>2, KeyAssumption DEF Lawful
    <3> QED
        BY <3>1, <3>2
  <2>3. writer' # NoRequest => job'[writer'].at \in Ends
      BY <1>1, <1>6, <1>10, <1>12, Types DEF Lawful, Ends
  <2> QED
      BY <1>1, <1>5, <1>14, <2>1, <2>2, <2>3 DEF Lawful
<1>16. Stable /\ \A kid \in KeyIds : Stored(kid)' = Stored(kid)
    BY <1>5 DEF Stable, Stored, Loadable
<1>17. ASSUME ~mixed', ~misled' PROVE Sound' /\ \A q \in Requests \ {r} : job'[q].at = "idle"
  <2>1. Sound /\ Backed(j)
      BY <1>2, <1>5, <1>17 DEF KeyInv, Sound
  <2>2. \A q \in Requests \ {r} : job'[q].at = "idle"
      BY <1>2, <1>12, <2>1 DEF Sound, Alone, Rotating, Rotate, Under
  <2>3. Alone' /\ (\E q \in Requests : job'[q].at = "reloading")
      BY <1>10, <1>12, <2>2 DEF Alone, Rotating, Rotate, Under
  <2>4. Stored(j.id) = new /\ new # 0 /\ k[j.id] = new
      BY <1>1, <1>2, <1>3, <1>8, <1>13, <2>1 DEF Backed, Stored, Loadable, Opened
  <2>5. ASSUME NEW q \in Requests PROVE Backed(job[q])'
    <3>1. CASE q = r
        BY <1>5, <1>10, <1>12, <1>13, <1>16, <2>4, <3>1 DEF Backed
    <3>2. CASE q # r
        BY <2>2, <3>2 DEF Backed
    <3> QED
        BY <3>1, <3>2
  <2>6. \A x \in Kept(rows)' : Told(rows[x])'
      BY <1>6, <1>16, <2>1, <1>5 DEF Sound, Kept, Told, Stored, Loadable
  <2>7. ASSUME NEW x \in Kept(draft)' PROVE Told(draft[x])'
    <3>1. PICK w \in Row : w = draft'[x] /\ x \in Records /\ w # NoRow
        BY <1>14 DEF Kept, TypeOK
    <3>2. Told(w)
      <4>1. CASE draft' = draft
          BY <2>1, <3>1, <4>1 DEF Sound, Kept
      <4>2. CASE draft' = table /\ j.found[x] = NoRow
          BY <1>4, <2>1, <3>1, <4>2 DEF Sound, Kept
      <4>3. CASE draft' = table /\ j.found[x] # NoRow
          BY <1>4, <2>4, <3>1, <4>3 DEF Told
      <4> QED
          BY <1>6, <4>1, <4>2, <4>3
    <3>3. Told(w)'
        BY <1>1, <1>16, <3>2, ToldStays
    <3> QED
        BY <3>1, <3>3
  <2>8. /\ \A kid \in KeyIds : engine'.keys[kid] \in {0, Stored(kid)'}
        /\ engine' # NoEngine => engine'.keys[engine'.id] # 0
      BY <1>5, <1>16, <2>1 DEF Sound
  <2> QED
      BY <2>2, <2>3, <2>5, <2>6, <2>7, <2>8 DEF Sound
<1>18. ASSUME ~mixed', ~misled', ~lapsed' PROVE Labelled'
  <2>1. Labelled /\ \A q \in Requests \ {r} : job'[q].at = "idle"
      BY <1>5, <1>17, <1>18 DEF KeyInv
  <2>2. j.found = rows
      BY <1>2, <2>1 DEF Labelled
  <2>3. r \in Publishing' /\ sched'.current = active'
      BY <1>5, <1>10, <1>12 DEF Publishing, Published
  <2>4. writer' = r \/ Kept(rows)' = {}
      BY <1>6, <2>2 DEF Kept
  <2>5. writer' # NoRequest => \A x \in Kept(draft)' : draft'[x].label = active'
    <3>1. CASE draft' = table
        BY <1>4, <1>5, <2>2, <3>1 DEF Kept
    <3>2. CASE draft' = draft /\ writer' = writer
        BY <1>1, <1>6, <1>12, <2>1, <3>2, Types DEF Lawful, Ends
    <3> QED
        BY <1>6, <3>1, <3>2
  <2>6. \A q \in Requests : /\ Published(q)' => q = r
                            /\ job'[q].at # "rewrapping"
      BY <1>10, <1>12, <2>1 DEF Published
  <2> QED
      BY <2>3, <2>4, <2>5, <2>6 DEF Labelled
<1> QED
    BY <1>15, <1>17, <1>18 DEF KeyInv

LEMMA InstallAllKeeps == ASSUME KeyInv, NEW r \in Requests, InstallAll(r) PROVE KeyInv'
<1>1. Lawful /\ job \in [Requests -> Job] /\ misled \in BOOLEAN
    BY Types DEF KeyInv, Lawful
<1>2. PICK j \in Job : j = job[r] /\ j.at = "reloading"
    BY <1>1 DEF InstallAll
<1>3. j.id \in KeyIds /\ j.keys \in KeySet /\ j.found \in [Records -> Row]
    BY DEF Job
<1> DEFINE new == [NoJob EXCEPT !.at = "committing", !.found = j.found]
<1>4. new \in Job /\ new.at = "committing"
    BY <1>3, NoJobIsJob DEF Job, Rotate
<1>5. PICK after \in Job : after = new /\ after.at = "committing"
    BY <1>4
<1> HIDE DEF new
<1>6. Carry(r, after)
    BY <1>2, <1>5 DEF InstallAll, new
<1>7. /\ job' \in [Requests -> Job] /\ job'[r] = after
      /\ \A q \in Requests \ {r} : job'[q] = job[q]
    BY <1>1, <1>6, Leaving
<1>8. /\ engine' = [id |-> j.id, keys |-> j.keys]
      /\ misled' = (misled \/ \E kid \in KeyIds : j.keys[kid] \notin {0, Stored(kid)})
      /\ UNCHANGED <<files, sched, made, escrow, active, rows, draft, writer, mixed, lapsed, stranded>>
    BY <1>2 DEF InstallAll, disk, tables
<1>9. engine' \in Engine /\ engine'.id = j.id /\ engine'.keys = j.keys
    BY <1>3, <1>8 DEF Engine
<1>10. TypeOK'
  <2>1. writer' # NoRequest => job'[writer'].at \in Rotate \cup {"inserted"}
      BY <1>1, <1>5, <1>7, <1>8, Types DEF Lawful, TypeOK, Rotate
  <2> QED
      BY <1>1, <1>7, <1>8, <1>9, <2>1 DEF TypeOK, Lawful
<1>11. Lawful'
  <2>1. \A kid \in KeyIds : files'[kid].key <= made'
      BY <1>1, <1>8 DEF Lawful
  <2>2. \A q \in Requests : /\ job'[q].at = "installing" => job'[q].key # 0
                            /\ job'[q].at = "inserted" => writer' = q
                            /\ job'[q].at \in {"selecting", "rewrapping"} => sched'.saved /\ sched'.last # "none"
      BY <1>1, <1>5, <1>7, <1>8 DEF Lawful
  <2>3. writer' # NoRequest => job'[writer'].at \in Ends
      BY <1>1, <1>5, <1>7, <1>8, Types DEF Lawful, Ends
  <2> QED
      BY <1>1, <1>8, <1>10, <2>1, <2>2, <2>3 DEF Lawful
<1>12. Stable /\ \A kid \in KeyIds : Stored(kid)' = Stored(kid)
    BY <1>8 DEF Stable, Stored, Loadable
<1>13. ASSUME ~mixed', ~misled' PROVE Sound'
  <2>1. Sound /\ Backed(j) /\ \A kid \in KeyIds : j.keys[kid] \in {0, Stored(kid)}
      BY <1>1, <1>2, <1>8, <1>13 DEF KeyInv, Sound
  <2>2. Alone' /\ active = j.id /\ j.keys[j.id] # 0
      BY <1>2, <1>5, <1>7, <2>1 DEF Sound, Alone, Rotating, Rotate, Under, Backed
  <2>3. ASSUME NEW q \in Requests PROVE Backed(job[q])'
    <3>1. CASE q = r
        BY <1>5, <1>7, <3>1 DEF Backed
    <3>2. CASE q # r
        BY <1>1, <1>7, <1>8, <1>12, <2>1, <3>2, OthersBacked DEF Sound
    <3> QED
        BY <3>1, <3>2
  <2>4. (\A y \in Kept(rows)' : Told(rows[y])') /\ (\A y \in Kept(draft)' : Told(draft[y])')
      BY <1>8, <2>1 DEF Sound, Kept, Told, Stored, Loadable
  <2>5. \A kid \in KeyIds : engine'.keys[kid] \in {0, Stored(kid)'}
      BY <1>9, <1>12, <2>1
  <2> QED
      BY <1>3, <1>8, <1>9, <2>2, <2>3, <2>4, <2>5 DEF Sound
<1>14. ASSUME ~mixed', ~misled', ~lapsed' PROVE Labelled'
  <2>1. Labelled
      BY <1>1, <1>8, <1>14 DEF KeyInv
  <2>2. \A q \in Requests : (Published(q)' <=> Published(q))
                            /\ (job'[q].at = "rewrapping" => job'[q].found = rows)
      BY <1>2, <1>5, <1>7, <2>1 DEF Published, Labelled
  <2>3. Publishing' = Publishing /\ Kept(rows)' = Kept(rows) /\ Kept(draft)' = Kept(draft)
      BY <1>8, <2>2 DEF Publishing, Kept
  <2> QED
      BY <1>8, <2>1, <2>2, <2>3 DEF Labelled
<1> QED
    BY <1>11, <1>13, <1>14 DEF KeyInv

LEMMA CommitRotationKeeps == ASSUME KeyInv, NEW r \in Requests, CommitRotation(r) PROVE KeyInv'
<1>1. Lawful /\ job \in [Requests -> Job] /\ draft \in [Records -> Row] /\ r # NoRequest
    BY KeyAssumption, Types DEF KeyInv, Lawful
<1>2. /\ job[r].at = "committing"
      /\ UNCHANGED <<files, sched, made, escrow, active, engine, mixed, misled, lapsed>>
      /\ \/ writer = r /\ rows' = draft /\ writer' = NoRequest /\ draft' = draft
         \/ writer # r /\ UNCHANGED <<rows, draft, writer>>
    BY DEF CommitRotation, disk, memory, tables
<1>3. /\ job' \in [Requests -> Job] /\ job'[r] = NoJob /\ NoJob.at = "idle"
      /\ \A q \in Requests \ {r} : job'[q] = job[q]
    BY <1>1, NoJobIsJob, Leaving DEF CommitRotation
<1>4. TypeOK'
  <2>1. stranded' \subseteq Records
      BY <1>1 DEF CommitRotation, Lawful, TypeOK, Kept
  <2>2. writer' # NoRequest => job'[writer'].at \in Rotate \cup {"inserted"}
      BY <1>1, <1>2, <1>3, Types DEF Lawful, TypeOK
  <2>3. /\ rows' \in [Records -> Row] /\ draft' \in [Records -> Row]
        /\ writer' \in Requests \cup {NoRequest} /\ (writer' = NoRequest => draft' = rows')
      BY <1>1, <1>2 DEF Lawful, TypeOK
  <2> QED
      BY <1>1, <1>2, <1>3, <2>1, <2>2, <2>3 DEF TypeOK, Lawful
<1>5. Lawful'
  <2>1. \A kid \in KeyIds : files'[kid].key <= made'
      BY <1>1, <1>2 DEF Lawful
  <2>2. ASSUME NEW q \in Requests
        PROVE  /\ job'[q].at = "installing" => job'[q].key # 0
               /\ job'[q].at = "inserted" => writer' = q
               /\ job'[q].at \in {"selecting", "rewrapping"} => sched'.saved /\ sched'.last # "none"
    <3>1. CASE q = r
        BY <1>3, <3>1
    <3>2. CASE q # r
        BY <1>1, <1>2, <1>3, <3>2 DEF Lawful
    <3> QED
        BY <3>1, <3>2
  <2>3. writer' # NoRequest => job'[writer'].at \in Ends
      BY <1>1, <1>2, <1>3, Types DEF Lawful
  <2> QED
      BY <1>1, <1>2, <1>4, <2>1, <2>2, <2>3 DEF Lawful
<1>6. Stable /\ \A kid \in KeyIds : Stored(kid)' = Stored(kid)
    BY <1>2 DEF Stable, Stored, Loadable
<1>7. ASSUME ~mixed', ~misled'
      PROVE  Sound' /\ \A q \in Requests : job'[q].at = "idle"
  <2>1. Sound
      BY <1>2, <1>7 DEF KeyInv
  <2>2. \A q \in Requests : job'[q].at = "idle"
      BY <1>2, <1>3, <2>1 DEF Sound, Alone, Rotating, Rotate, Under
  <2>3. Alone' /\ \A q \in Requests : job[q].at # "reloading"
      BY <1>2, <1>3, <2>2 DEF Alone, Rotating, Rotate
  <2>4. \A q \in Requests : Backed(job[q])'
      BY <2>2 DEF Backed
  <2>5. (\A y \in Kept(rows)' : Told(rows[y])') /\ (\A y \in Kept(draft)' : Told(draft[y])')
      BY <1>2, <2>1 DEF Sound, Kept, Told, Stored, Loadable
  <2> QED
      BY <1>2, <1>6, <2>1, <2>2, <2>3, <2>4, <2>5 DEF Sound
<1>8. ASSUME ~mixed', ~misled', ~lapsed' PROVE Labelled'
  <2>1. Labelled /\ \A q \in Requests : job'[q].at = "idle"
      BY <1>2, <1>7, <1>8 DEF KeyInv
  <2>2. writer # NoRequest => \A x \in Kept(draft) : draft[x].label = active
      BY <2>1 DEF Labelled
  <2>3. \A x \in Kept(rows)' : rows'[x].label = active
    <3>1. CASE writer = r /\ rows' = draft
        BY <1>1, <2>2, <3>1 DEF Kept
    <3>2. CASE writer # r /\ rows' = rows
      <4>1. Kept(rows) = {}
          BY <1>2, <2>1, <3>2 DEF Labelled, Published
      <4> QED
          BY <3>2, <4>1 DEF Kept
    <3> QED
        BY <1>2, <3>1, <3>2
  <2>4. writer' # NoRequest => \A x \in Kept(draft)' : draft'[x].label = active
      BY <1>2, <2>2 DEF Kept
  <2> QED
      BY <1>2, <2>1, <2>3, <2>4 DEF Labelled, Published
<1> QED
    BY <1>5, <1>7, <1>8 DEF KeyInv

LEMMA FailKeeps == ASSUME KeyInv, NEW r \in Requests, Fail(r) PROVE KeyInv'
<1>1. /\ Lawful /\ job \in [Requests -> Job] /\ rows \in [Records -> Row] /\ draft \in [Records -> Row]
      /\ r # NoRequest /\ mixed \in BOOLEAN /\ lapsed \in BOOLEAN /\ misled \in BOOLEAN
    BY KeyAssumption, Types DEF KeyInv, Lawful
<1>2. /\ UNCHANGED <<files, sched, made, escrow, active, engine, misled, stranded, rows>>
      /\ mixed' = (mixed \/ job[r].at = "reloading")
      /\ lapsed' = (lapsed \/ Published(r))
      /\ \/ writer = r /\ draft' = rows /\ writer' = NoRequest
         \/ writer # r /\ draft' = draft /\ writer' = writer
    BY DEF Fail, Rollback, disk, memory
<1>3. /\ job' \in [Requests -> Job] /\ job'[r] = NoJob /\ NoJob.at = "idle"
      /\ \A q \in Requests \ {r} : job'[q] = job[q]
    BY <1>1, NoJobIsJob, Leaving DEF Fail
<1>4. TypeOK'
  <2>1. writer' # NoRequest => job'[writer'].at \in Rotate \cup {"inserted"}
      BY <1>1, <1>2, <1>3, Types DEF Lawful, TypeOK
  <2>2. /\ rows' \in [Records -> Row] /\ draft' \in [Records -> Row]
        /\ writer' \in Requests \cup {NoRequest} /\ (writer' = NoRequest => draft' = rows')
      BY <1>1, <1>2 DEF Lawful, TypeOK
  <2>3. mixed' \in BOOLEAN /\ lapsed' \in BOOLEAN /\ misled' \in BOOLEAN
      BY <1>1, <1>2 DEF Published
  <2> QED
      BY <1>1, <1>2, <1>3, <2>1, <2>2, <2>3 DEF TypeOK, Lawful
<1>5. Lawful'
  <2>1. \A kid \in KeyIds : files'[kid].key <= made'
      BY <1>1, <1>2 DEF Lawful
  <2>2. ASSUME NEW q \in Requests
        PROVE  /\ job'[q].at = "installing" => job'[q].key # 0
               /\ job'[q].at = "inserted" => writer' = q
               /\ job'[q].at \in {"selecting", "rewrapping"} => sched'.saved /\ sched'.last # "none"
    <3>1. CASE q = r
        BY <1>3, <3>1
    <3>2. CASE q # r
        BY <1>1, <1>2, <1>3, <3>2 DEF Lawful
    <3> QED
        BY <3>1, <3>2
  <2>3. writer' # NoRequest => job'[writer'].at \in Ends
      BY <1>1, <1>2, <1>3, Types DEF Lawful
  <2> QED
      BY <1>1, <1>2, <1>4, <2>1, <2>2, <2>3 DEF Lawful
<1>6. Stable /\ \A kid \in KeyIds : Stored(kid)' = Stored(kid)
    BY <1>2 DEF Stable, Stored, Loadable
<1>7. ASSUME ~mixed', ~misled' PROVE Sound'
  <2>1. Sound /\ job[r].at # "reloading"
      BY <1>2, <1>7 DEF KeyInv
  <2>2. Alone' /\ ((\A q \in Requests : job'[q].at # "reloading") => (\A q \in Requests : job[q].at # "reloading"))
      BY <1>3, <2>1 DEF Sound, Alone, Rotating, Rotate, Under
  <2>3. ASSUME NEW q \in Requests PROVE Backed(job[q])'
    <3>1. CASE q = r
        BY <1>3, <3>1 DEF Backed
    <3>2. CASE q # r
        BY <1>1, <1>2, <1>3, <1>6, <2>1, <3>2, OthersBacked DEF Sound
    <3> QED
        BY <3>1, <3>2
  <2>4. (\A y \in Kept(rows)' : Told(rows[y])') /\ (\A y \in Kept(draft)' : Told(draft[y])')
      BY <1>2, <2>1 DEF Sound, Kept, Told, Stored, Loadable
  <2> QED
      BY <1>2, <1>6, <2>1, <2>2, <2>3, <2>4 DEF Sound
<1>8. ASSUME ~mixed', ~misled', ~lapsed' PROVE Labelled'
  <2>1. Labelled /\ ~Published(r)
      BY <1>2, <1>8 DEF KeyInv
  <2>2. \A q \in Requests : /\ Published(q)' <=> Published(q)
                            /\ job'[q].at = "rewrapping" => job'[q].found = rows
      BY <1>3, <2>1 DEF Published, Labelled
  <2>3. Publishing' = Publishing /\ Kept(rows)' = Kept(rows)
      BY <1>2, <2>2 DEF Publishing, Kept
  <2>4. \A q \in Requests : Published(q)' => writer' = q \/ Kept(rows)' = {}
      BY <1>2, <2>1, <2>2, <2>3 DEF Labelled
  <2>5. writer' # NoRequest => \A x \in Kept(draft)' : draft'[x].label = active'
      BY <1>2, <2>1 DEF Labelled, Kept
  <2>6. /\ sched'.saved => sched'.current = active'
        /\ Publishing' = {} => \A x \in Kept(rows)' : rows'[x].label = active'
      BY <1>2, <2>1, <2>3 DEF Labelled
  <2> QED
      BY <1>2, <2>2, <2>4, <2>5, <2>6 DEF Labelled
<1> QED
    BY <1>5, <1>7, <1>8 DEF KeyInv

LEMMA CrashKeeps == ASSUME KeyInv, Crash PROVE KeyInv'
<1>1. /\ Lawful /\ rows \in [Records -> Row] /\ mixed \in BOOLEAN /\ lapsed \in BOOLEAN /\ misled \in BOOLEAN
      /\ active \in KeyIds /\ Configured \in KeyIds
    BY KeyAssumption, Types DEF KeyInv, Lawful
<1>2. /\ active' = Configured /\ engine' = NoEngine /\ writer' = NoRequest /\ draft' = rows /\ rows' = rows
      /\ UNCHANGED <<sched, mixed, misled, stranded>> /\ job' = [r \in Requests |-> NoJob]
      /\ lapsed' = (lapsed \/ active # Configured \/ \E r \in Requests : Published(r))
      /\ escrow' \subseteq escrow
    BY DEF Crash, Openable
<1>3. Stable /\ FilesFine'
  <2>1. CASE UNCHANGED <<files, made>>
      BY <1>1, <2>1, FilesKept
  <2>2. CASE \E kid \in KeyIds \ {Configured}, p \in Passphrases : Create(kid, p, FALSE)
      BY <1>1, <2>2, Created
  <2> QED
      BY <2>1, <2>2 DEF Crash
<1>4. \A q \in Requests : job'[q] = NoJob /\ job'[q].at = "idle"
    BY <1>2, NoJobIsJob
<1>5. TypeOK'
  <2>1. job' \in [Requests -> Job] /\ engine' \in Engine
      BY <1>2, NoJobIsJob
  <2>2. lapsed' \in BOOLEAN
      BY <1>1, <1>2 DEF Published
  <2>3. /\ escrow' \subseteq [how : {"sealed", "split"}, key : Key] /\ stranded' \subseteq Records
        /\ sched' \in [saved : BOOLEAN, last : {"none", "recent", "old"}, current : KeyIds, auto : BOOLEAN]
      BY <1>1, <1>2 DEF Lawful, TypeOK
  <2> QED
      BY <1>1, <1>2, <1>3, <2>1, <2>2, <2>3 DEF TypeOK, FilesFine
<1>6. Lawful'
  <2>1. \A e \in escrow' : e.key # 0
      BY <1>1, <1>2 DEF Lawful
  <2> QED
      BY <1>2, <1>3, <1>4, <1>5, <2>1 DEF Lawful, FilesFine
<1>7. ASSUME ~mixed', ~misled' PROVE Sound'
  <2>1. Sound
      BY <1>2, <1>7 DEF KeyInv
  <2>2. Alone' /\ \A q \in Requests : Backed(job[q])'
      BY <1>4 DEF Alone, Under, Backed
  <2>3. ASSUME NEW y \in Kept(rows) PROVE Told(rows[y])'
    <3>1. PICK w \in Row : w = rows[y]
        BY <1>1 DEF Kept
    <3>2. Told(w)
        BY <2>1, <3>1 DEF Sound
    <3>3. Told(w)'
        BY <1>1, <1>3, <3>2, ToldStays
    <3> QED
        BY <1>2, <3>1, <3>3
  <2>4. (\A y \in Kept(rows)' : Told(rows[y])') /\ (\A y \in Kept(draft)' : Told(draft[y])')
      BY <1>2, <2>3 DEF Kept, Told
  <2>5. \A kid \in KeyIds : engine'.keys[kid] \in {0, Stored(kid)'}
      BY <1>2, NoJobIsJob
  <2>6. engine'.id = active'
      BY <1>2, NoJobIsJob
  <2> QED
      BY <1>2, <2>2, <2>4, <2>5, <2>6 DEF Sound
<1>8. ASSUME ~mixed', ~misled', ~lapsed' PROVE Labelled'
  <2>1. Labelled /\ active = Configured /\ Publishing = {}
      BY <1>2, <1>8 DEF KeyInv, Publishing
  <2>2. \A q \in Requests : ~Published(q)'
      BY <1>4 DEF Published
  <2> QED
      BY <1>2, <1>4, <2>1, <2>2 DEF Labelled, Kept
<1> QED
    BY <1>6, <1>7, <1>8 DEF KeyInv

-----------------------------------------------------------------------------
(* The invariant, and what follows. *)

LEMMA InitHolds == Init => KeyInv
<1> SUFFICES ASSUME Init PROVE KeyInv
    OBVIOUS
<1>1. /\ files = [kid \in KeyIds |-> Absent] /\ made = 0 /\ escrow = {}
      /\ active = Configured /\ engine = NoEngine /\ writer = NoRequest
      /\ rows = [x \in Records |-> NoRow] /\ draft = rows /\ job = [r \in Requests |-> NoJob]
      /\ mixed = FALSE /\ misled = FALSE /\ lapsed = FALSE /\ stranded = {}
    BY DEF Init
<1>2. Absent \in File /\ Absent.key = 0
    BY KeyFacts DEF Absent, File
<1>3. /\ sched \in [saved : BOOLEAN, last : {"none", "recent", "old"}, current : KeyIds, auto : BOOLEAN]
      /\ sched.current = Configured
  <2>1. CASE sched = NoState
      BY <2>1, KeyAssumption DEF NoState
  <2>2. CASE sched = [NoState EXCEPT !.saved = TRUE, !.last = "old", !.auto = TRUE]
    <3>1. sched = [saved |-> TRUE, last |-> "old", current |-> Configured, auto |-> TRUE]
        BY <2>2 DEF NoState
    <3> QED
        BY <3>1, KeyAssumption
  <2> QED
      BY <2>1, <2>2 DEF Init
<1>4. \A r \in Requests : job[r] = NoJob /\ job[r].at = "idle"
    BY <1>1, NoJobIsJob
<1>5. TypeOK
  <2>1. /\ files \in [KeyIds -> File] /\ job \in [Requests -> Job] /\ engine \in Engine
        /\ rows \in [Records -> Row] /\ draft \in [Records -> Row]
      BY <1>1, <1>2, NoJobIsJob
  <2>2. active \in KeyIds /\ made \in 0 .. MaxKeys
      BY <1>1, KeyAssumption
  <2>3. <<mixed, misled, lapsed>> \in BOOLEAN \X BOOLEAN \X BOOLEAN
      BY <1>1
  <2> QED
      BY <1>1, <1>3, <2>1, <2>2, <2>3 DEF TypeOK
<1>6. Lawful
    BY <1>1, <1>2, <1>4, <1>5 DEF Lawful
<1>7. Kept(rows) = {} /\ Kept(draft) = {}
    BY <1>1 DEF Kept
<1>8. Sound
  <2>1. Alone /\ \A r \in Requests : Backed(job[r])
      BY <1>4 DEF Alone, Under, Backed
  <2> QED
      BY <1>1, <1>7, <2>1, NoJobIsJob DEF Sound
<1>9. Labelled
    BY <1>1, <1>3, <1>4, <1>7 DEF Labelled, Published
<1> QED
    BY <1>6, <1>8, <1>9 DEF KeyInv

LEMMA StepKeeps == KeyInv /\ [Next]_vars => KeyInv'
<1> SUFFICES ASSUME KeyInv, [Next]_vars PROVE KeyInv'
    OBVIOUS
<1>1. CASE \/ CliCreate \/ RotatePassphrase \/ SealKey \/ SplitKey \/ Configure \/ IntervalPasses \/ Crash
    BY <1>1, CliCreateKeeps, ReissueKeeps, SealKeyKeeps, SplitKeyKeeps, ConfigureKeeps,
       IntervalKeeps, CrashKeeps
<1>2. ASSUME NEW r \in Requests,
             \/ SetupKey(r) \/ UnlockKey(r) \/ UnsealKey(r) \/ CombineShares(r) \/ Install(r)
             \/ StartPut(r) \/ SealRecord(r) \/ InsertRow(r) \/ CommitPut(r)
      PROVE  KeyInv'
    BY <1>2, SetupKeeps, UnlockKeeps, UnsealKeeps, CombineKeeps, InstallKeeps, StartPutKeeps,
       SealKeeps, InsertKeeps, CommitPutKeeps
<1>3. ASSUME NEW r \in Requests,
             \/ StartRotation(r) \/ SelectRows(r) \/ SelectFails(r) \/ PublishKey(r)
             \/ InstallAll(r) \/ CommitRotation(r) \/ Fail(r)
      PROVE  KeyInv'
    BY <1>3, StartRotationKeeps, SelectKeeps, SelectFailsKeeps, PublishKeeps, InstallAllKeeps,
       CommitRotationKeeps, FailKeeps
<1>4. CASE UNCHANGED vars
  <2>1. /\ UNCHANGED <<files, sched, made, escrow>> /\ UNCHANGED <<memory, tables, job, past>>
      BY <1>4 DEF vars, disk
  <2>2. Lawful
      BY DEF KeyInv
  <2>3. Stable /\ FilesFine'
      BY <2>1, <2>2, FilesKept
  <2>4. active' = active
      BY <2>1 DEF memory
  <2> QED
      BY <2>1, <2>2, <2>3, <2>4, SchedAndEscrow, OutsideKeeps
<1> QED
    BY <1>1, <1>2, <1>3, <1>4 DEF Next

LEMMA Invariance == Spec => []KeyInv
    BY InitHolds, StepKeeps, PTL DEF Spec

(* Every variable keeps its type, and what is not committed belongs to the
   request that holds the write lock (get_session). *)
THEOREM KeyTypes == Spec => []TypeOK
<1>1. KeyInv => TypeOK
    BY DEF KeyInv, Lawful
<1> QED
    BY <1>1, Invariance, PTL

(* A record is wrapped under the key its label names, and the engine's keys are
   those of the files, through failures and restarts, unless a rotation ran
   together with another request or a wrong key came in (rotate_all_records,
   routes.py). *)
THEOREM NamesAlwaysTellKeys == Spec => []NamesTellKeys
<1>1. KeyInv => NamesTellKeys
    BY DEF KeyInv, Sound, Told, NamesTellKeys
<1> QED
    BY <1>1, Invariance, PTL

(* A rotation leaves every record labelled with the key the next one starts
   from (run_auto_rotation). *)
THEOREM RotationsAlwaysRepeat == Spec => []RotationsRepeat
<1>1. KeyInv => RotationsRepeat
    BY DEF KeyInv, Labelled, RotationsRepeat, State, NoState
<1> QED
    BY <1>1, Invariance, PTL

(* Nothing but a rotation sets last_rotation, and no rotation is due without
   it. *)
LEMMA UnseededStays == KeyInv /\ [Next]_vars => (sched.last = "none" => sched'.last = "none")
<1> SUFFICES ASSUME KeyInv, [Next]_vars, sched.last = "none" PROVE sched'.last = "none"
    OBVIOUS
<1>1. ASSUME NEW r \in Requests PROVE ~PublishKey(r)
    BY DEF KeyInv, Lawful, PublishKey
<1>2. CASE Configure
  <2>1. State.last = "none"
      BY DEF State, NoState
  <2>2. PICK a \in BOOLEAN : sched' = [State EXCEPT !.saved = TRUE, !.auto = a, !.last = "none"]
      BY <1>2, <2>1 DEF Configure
  <2>3. State \in [saved : BOOLEAN, last : {"none", "recent", "old"}, current : KeyIds, auto : BOOLEAN]
      BY Types, SchedAndEscrow, KeyAssumption DEF KeyInv, Lawful, State, NoState
  <2> QED
      BY <2>2, <2>3
<1>3. CASE CliCreate \/ RotatePassphrase \/ SealKey \/ SplitKey \/ Crash \/ UNCHANGED vars
    BY <1>3 DEF CliCreate, RotatePassphrase, SealKey, SplitKey, Crash, vars, disk
<1>4. CASE IntervalPasses
    BY <1>4 DEF IntervalPasses
<1>5. ASSUME NEW r \in Requests,
             \/ SetupKey(r) \/ UnlockKey(r) \/ UnsealKey(r) \/ CombineShares(r) \/ Install(r)
             \/ StartPut(r) \/ SealRecord(r) \/ InsertRow(r) \/ CommitPut(r)
             \/ StartRotation(r) \/ SelectRows(r) \/ SelectFails(r)
             \/ InstallAll(r) \/ CommitRotation(r) \/ Fail(r)
      PROVE  sched' = sched
    BY <1>5 DEF SetupKey, UnlockKey, UnsealKey, CombineShares, Install, StartPut, SealRecord,
       InsertRow, CommitPut, StartRotation, SelectRows, SelectFails, InstallAll, CommitRotation,
       Fail, disk
<1> QED
    BY <1>1, <1>2, <1>3, <1>4, <1>5 DEF Next

(* An installation whose state file has no last_rotation never gets one, and
   rotates never (should_rotate). *)
NeverDueUnseeded == [][sched.last = "none" => sched'.last = "none"]_vars

(* On a fresh install, with no state file or one without last_rotation, no
   rotation is ever due: only a rotation writes last_rotation (_save_state). *)
THEOREM NeverDueOnAFreshInstall == Spec => NeverDueUnseeded
    BY UnseededStays, Invariance, PTL DEF Spec, NeverDueUnseeded

(* No key file is ever replaced but by rotate_master_key, so a key without its
   salt stays one (create_master_key, rotate_master_key). *)
THEOREM KeyFilesAlwaysStay == Spec => KeyFilesStay
<1> DEFINE Replaced == \A kid \in KeyIds : files[kid].key # 0 /\ files'[kid] # files[kid] =>
                           Loadable(kid) /\ RotatePassphrase
<1>1. ASSUME KeyInv, NEW k \in KeyIds, NEW p, NEW whole, Create(k, p, whole), NEW kid \in KeyIds,
             files[kid].key # 0
      PROVE  files'[kid] = files[kid]
    BY <1>1, Types DEF KeyInv, Lawful, Create, MayCreate
<1>2. KeyInv /\ [Next]_vars => Replaced
  <2> SUFFICES ASSUME KeyInv, [Next]_vars, NEW kid \in KeyIds,
                      files[kid].key # 0, files'[kid] # files[kid]
               PROVE  Loadable(kid) /\ RotatePassphrase
      OBVIOUS
  <2>1. active \in KeyIds /\ Configured \in KeyIds /\ files \in [KeyIds -> File]
      BY Types, KeyAssumption DEF KeyInv, Lawful
  <2>2. CASE RotatePassphrase
    <3>1. Loadable(Configured)
        BY <2>2 DEF RotatePassphrase
    <3>2. kid = Configured
        BY <2>1, <2>2 DEF RotatePassphrase, Reissue
    <3> QED
        BY <2>2, <3>1, <3>2
  <2>3. CASE CliCreate
      BY <1>1, <2>1, <2>3 DEF CliCreate
  <2>4. CASE Crash
      BY <1>1, <2>4 DEF Crash
  <2>5. CASE SealKey \/ SplitKey \/ Configure \/ IntervalPasses \/ UNCHANGED vars
      BY <2>5 DEF SealKey, SplitKey, Configure, IntervalPasses, vars, disk
  <2>6. ASSUME NEW r \in Requests, SetupKey(r) \/ StartRotation(r) PROVE FALSE
      BY <1>1, <2>1, <2>6 DEF SetupKey, StartRotation
  <2>7. ASSUME NEW r \in Requests,
               \/ UnlockKey(r) \/ UnsealKey(r) \/ CombineShares(r) \/ Install(r)
               \/ StartPut(r) \/ SealRecord(r) \/ InsertRow(r) \/ CommitPut(r)
               \/ SelectRows(r) \/ SelectFails(r)
               \/ PublishKey(r) \/ InstallAll(r) \/ CommitRotation(r) \/ Fail(r)
        PROVE  files' = files
      BY <2>7 DEF UnlockKey, UnsealKey, CombineShares, Install, StartPut, SealRecord,
         InsertRow, CommitPut, SelectRows, SelectFails, PublishKey, InstallAll, CommitRotation,
         Fail, disk
  <2> QED
      BY <2>2, <2>3, <2>4, <2>5, <2>6, <2>7 DEF Next
<1> QED
    BY <1>2, Invariance, PTL DEF Spec, KeyFilesStay

=============================================================================
