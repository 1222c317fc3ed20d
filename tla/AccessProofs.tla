---------------------------- MODULE AccessProofs ----------------------------
(***************************************************************************)
(* What the server keeps to for every set of users, clients, calls and     *)
(* networks, whatever requests race, fail or lose their answers, and       *)
(* whenever it is restarted: a revoked token and a used refresh token are  *)
(* worth nothing, a challenge gives one pair, and a disabled user keeps    *)
(* nothing of a role; and that the limiter is fair for all arrivals.       *)
(***************************************************************************)
EXTENDS Access, SequenceTheorems, FiniteSetTheorems, NaturalsInduction, WellFoundedInduction, TLAPS

-----------------------------------------------------------------------------
(* The inductive invariant. *)

Writing == {"register", "login", "refresh", "logout", "finish",
            "grant_record_access", "revoke_record_access", "set_user_role",
            "delete_user", "disable_user", "hardware_register_finish"}
Holding(j) == j.at \in {"flush", "commit"}

(* What a call that is about to write has in hand exists. *)
InHand(j) ==
    Holding(j) =>
        /\ j.op \in Writing
        /\ j.op \in {"refresh", "logout"} => j.num \in 1 .. Len(pairs)
        /\ j.op \in {"finish", "hardware_register_finish"} => j.num \in 1 .. Len(chal)
        /\ j.op = "grant_record_access" => /\ j.role \in Roles \cup {NoRole}
                                           /\ j.permission \in Permissions
        /\ j.op = "revoke_record_access" => j.num \in 1 .. Len(grants)
        /\ j.op \in {"set_user_role", "delete_user", "disable_user"} => j.to \in Users

(* A call whose token was revoked waits for the black list; a call that has
   written has the name of its token to itself; a session is refreshed for its
   own user. *)
Listed(j) ==
    /\ j.late => j.at = "blacklist" /\ <<"access", j.num>> \in black
    /\ j.at = "commit" /\ j.op = "refresh" => <<"refresh", j.num>> \notin black
    /\ j.at = "commit" /\ j.op = "logout" => <<"access", j.num>> \notin black
    /\ Holding(j) /\ j.op = "refresh" => j.who = pairs[j.num].user
    /\ j.at = "commit" /\ j.op = "finish" => ~chal[j.num].open

(* A user who was disabled when the call came is found disabled. *)
Disabled(j) ==
    j.dead =>
        /\ j.at \in {"blacklist", "user"} => ~users[j.who].active
        /\ j.at = "handler" => ~j.may.active

JobOK(j) ==
    /\ j.at # "idle" => j.client \in SdkClients
    /\ j.at \notin {"idle", "done"} => j.who \in Users
    /\ IF j.at = "done" THEN j.num \in 0 .. Len(pairs) ELSE j.answer = "none"
    /\ InHand(j) /\ Listed(j) /\ Disabled(j)

Jobs == \A k \in Calls : JobOK(job[k])

(* A refresh token gives one new pair, whatever requests present it together,
   fail or lose their answer (rotate_refresh_token). *)
RefreshOnce ==
    \A n, m \in DOMAIN pairs : n # m /\ pairs[n].parent = pairs[m].parent => pairs[n].parent = 0

(* A refresh token that gave a pair is in the black list, and so is that of a
   revoked session, and no other. *)
Refreshed ==
    /\ \A n \in 1 .. Len(pairs) : pairs[n].revoked <=> <<"refresh", n>> \in black
    /\ \A n \in 1 .. Len(pairs) : pairs[n].parent # 0 => <<"refresh", pairs[n].parent>> \in black
    /\ RefreshOnce

(* A challenge no two calls had in hand together was not used, or was used by
   a call that is over. *)
Pending(k, n) == job[k].op = "finish" /\ Holding(job[k]) /\ job[k].num = n
Challenged ==
    \A n \in 1 .. Len(chal) :
        /\ chal[n].uses # 0 => ~chal[n].open
        /\ \/ chal[n].raced
           \/ /\ chal[n].uses <= 1
              /\ \A k \in Calls : Pending(k, n) =>
                    chal[n].uses = 0 /\ \A l \in Calls : Pending(l, n) => l = k

AccessInv == TypeOK /\ Jobs /\ Refreshed /\ Challenged

-----------------------------------------------------------------------------
(* Calls. *)

LEMMA NoJobIsJob ==
    /\ NoJob \in Job /\ NoJob.at = "idle" /\ NoJob.answer = "none"
    /\ NoJob.num = 0 /\ NoJob.late = FALSE /\ NoJob.dead = FALSE /\ NoJob.op = "none"
    BY AccessAssumption DEF NoJob, Job, Nobody, NoRole, Given, Person, Answer

(* An answer keeps what was asked, and whose call it was, only where it serves. *)
LEMMA DoneIsJob ==
    ASSUME NEW j \in Job, NEW answer \in Answer
    PROVE  /\ Done(j, answer) \in Job
           /\ Done(j, answer).at = "done"
           /\ Done(j, answer).answer = answer /\ Done(j, answer).num = 0
           /\ Done(j, answer).client = j.client /\ ~Done(j, answer).dead
           /\ IF answer = "served" THEN /\ Done(j, answer).op = j.op
                                       /\ Done(j, answer).who = j.who
                                       /\ Done(j, answer).late = j.late
              ELSE ~Done(j, answer).late /\ Done(j, answer).op = "none"
<1> DEFINE ended == [NoJob EXCEPT !.at = "done", !.client = j.client, !.answer = answer]
<1>1. /\ j.op \in Open \cup Asked \cup {"none"} /\ j.client \in SdkClients \cup {NoClient}
      /\ j.who \in Users \cup {NoUser} /\ j.late \in BOOLEAN
    BY DEF Job
<1>2. /\ ended \in Job /\ ended.at = "done" /\ ended.op = "none" /\ ended.client = j.client
      /\ ended.answer = answer /\ ended.num = 0 /\ ended.late = FALSE /\ ended.dead = FALSE
  <2> DEFINE a == [NoJob EXCEPT !.at = "done"]
             b == [a EXCEPT !.client = j.client]
             c == [b EXCEPT !.answer = answer]
  <2>1. ended = c
    BY DEF NoJob
  <2>2. a \in Job /\ a.at = "done" /\ a.num = 0 /\ a.late = FALSE /\ a.dead = FALSE /\ a.op = "none"
    BY NoJobIsJob DEF Job
  <2> HIDE DEF a
  <2>3. b \in Job /\ b.at = "done" /\ b.num = 0 /\ b.late = FALSE /\ b.dead = FALSE /\ b.op = "none"
        /\ b.client = j.client
    BY <2>2, <1>1 DEF Job
  <2> HIDE DEF b
  <2>4. c \in Job /\ c.at = "done" /\ c.num = 0 /\ c.late = FALSE /\ c.dead = FALSE /\ c.op = "none"
        /\ c.client = j.client /\ c.answer = answer
    BY <2>3 DEF Job
  <2> HIDE DEF c
  <2> QED
    BY <2>1, <2>4
<1> HIDE DEF ended
<1> DEFINE whose == [ended EXCEPT !.op = j.op, !.who = j.who, !.late = j.late]
<1>3. /\ whose \in Job /\ whose.at = "done" /\ whose.op = j.op /\ whose.client = j.client
      /\ whose.answer = answer /\ whose.num = 0
      /\ whose.who = j.who /\ whose.late = j.late /\ whose.dead = FALSE
  <2> DEFINE a == [ended EXCEPT !.op = j.op]
             b == [a EXCEPT !.who = j.who]
             c == [b EXCEPT !.late = j.late]
  <2>1. whose = c
    BY <1>2 DEF Job
  <2>2. a \in Job /\ a.at = "done" /\ a.num = 0 /\ a.op = j.op /\ a.client = j.client
        /\ a.answer = answer /\ a.dead = FALSE
    BY <1>1, <1>2 DEF Job
  <2> HIDE DEF a
  <2>3. b \in Job /\ b.at = "done" /\ b.num = 0 /\ b.op = j.op /\ b.client = j.client
        /\ b.answer = answer /\ b.who = j.who /\ b.dead = FALSE
    BY <1>1, <2>2 DEF Job
  <2> HIDE DEF b
  <2>4. c \in Job /\ c.at = "done" /\ c.num = 0 /\ c.op = j.op /\ c.client = j.client
        /\ c.answer = answer /\ c.who = j.who /\ c.late = j.late /\ c.dead = FALSE
    BY <1>1, <2>3 DEF Job
  <2> HIDE DEF c
  <2> QED
    BY <2>1, <2>4
<1>4. Done(j, answer) = IF answer = "served" THEN whose ELSE ended
    BY DEF Done, ended
<1> HIDE DEF whose
<1> QED
    BY <1>2, <1>3, <1>4

(* What only grows: the lists, and the users who are disabled. *)
Grown ==
    /\ black \subseteq black'
    /\ Len(pairs) <= Len(pairs') /\ Len(chal) <= Len(chal') /\ Len(grants) <= Len(grants')
    /\ \A u \in Users : ~users[u].active => ~users'[u].active
    /\ \A n \in 1 .. Len(pairs) : pairs'[n].user = pairs[n].user
    /\ \A n \in 1 .. Len(chal) : ~chal[n].open => ~chal'[n].open

LEMMA Lengths ==
    ASSUME TypeOK
    PROVE  /\ Len(pairs) \in Nat /\ Len(chal) \in Nat /\ Len(grants) \in Nat
           /\ DOMAIN pairs = 1 .. Len(pairs) /\ DOMAIN chal = 1 .. Len(chal)
           /\ DOMAIN grants = 1 .. Len(grants)
           /\ grants = <<>> <=> Len(grants) = 0
           /\ \A n \in 1 .. Len(pairs) : pairs[n] \in [user : Users, parent : Nat, revoked : BOOLEAN]
           /\ \A n \in 1 .. Len(chal) : chal[n] \in MFAChallenge
           /\ \A n \in 1 .. Len(grants) : grants[n] \in Grant
    BY LenProperties, EmptySeq, ElementOfSeq DEF TypeOK

(* A call that waits keeps what it has in hand, whatever the others do. *)
LEMMA OthersKeep ==
    ASSUME TypeOK, TypeOK', Grown, NEW j \in Job, JobOK(j),
           j.at = "commit" => black' = black
    PROVE  JobOK(j)'
<1>1. /\ Len(pairs) \in Nat /\ Len(chal) \in Nat /\ Len(grants) \in Nat
      /\ Len(pairs') \in Nat /\ Len(chal') \in Nat /\ Len(grants') \in Nat
    BY Lengths, LenProperties DEF TypeOK
<1>2. InHand(j)'
    BY <1>1 DEF JobOK, InHand, Grown, Holding
<1>3. Listed(j)'
    BY <1>1 DEF JobOK, InHand, Listed, Grown, Holding
<1>4. Disabled(j)'
    BY <1>1 DEF JobOK, Disabled, Grown, Holding
<1> QED
    BY <1>1, <1>2, <1>3, <1>4 DEF JobOK, Grown

(* One call goes on to new; the tables stay. *)
LEMMA CallStep ==
    ASSUME AccessInv, NEW call \in Calls, NEW new \in Job,
           job' = [job EXCEPT ![call] = new],
           UNCHANGED <<workload, tables>>,
           \/ writer' = writer /\ job[call].at # "commit" /\ new.at # "commit"
           \/ writer' = Release(call) /\ new.at # "commit"
           \/ writer = NoCall /\ writer' = call /\ new.at = "commit",
           held' \in [SdkClients -> 0 .. Len(pairs)],
           chal' \in Seq(MFAChallenge), Grown, JobOK(new)', Challenged'
    PROVE  AccessInv'
<1>1. /\ UNCHANGED <<workload, users, grants, pairs, black, keys>>
      /\ TypeOK /\ job' \in [Calls -> Job]
      /\ \A k \in Calls : job'[k] = IF k = call THEN new ELSE job[k]
      /\ {k \in Calls : job[k].at = "commit"} = {writer} \ {NoCall}
    BY DEF tables, AccessInv, TypeOK
<1>2. {k \in Calls : job'[k].at = "commit"} = {writer'} \ {NoCall}
  <2>1. CASE writer' = writer /\ job[call].at # "commit" /\ new.at # "commit"
    BY <1>1, <2>1
  <2>2. CASE writer' = Release(call) /\ new.at # "commit"
    BY <1>1, <2>2 DEF Release
  <2>3. CASE writer = NoCall /\ writer' = call /\ new.at = "commit"
    BY <1>1, <2>3, AccessAssumption
  <2> QED
    BY <2>1, <2>2, <2>3
<1>3. TypeOK'
    BY <1>1, <1>2 DEF TypeOK
<1>4. Jobs'
  <2> SUFFICES ASSUME NEW k \in Calls
               PROVE  JobOK(job[k])'
    BY DEF Jobs
  <2>1. CASE k = call
    BY <1>1, <2>1
  <2>2. CASE k # call
    <3>1. job'[k] = job[k] /\ job[k] \in Job /\ JobOK(job[k]) /\ black' = black
        BY <1>1, <2>2 DEF AccessInv, Jobs, TypeOK
    <3> DEFINE j == job[k]
    <3>2. j' = j
        BY <3>1
    <3> QED
        BY <1>1, <1>3, <3>1, OthersKeep
  <2> QED
    BY <2>1, <2>2
<1>5. Refreshed'
    BY <1>1 DEF AccessInv, Refreshed, RefreshOnce
<1> QED
    BY <1>3, <1>4, <1>5 DEF AccessInv

(* The tables stay and the challenges are as they were or closed. *)
LEMMA Staying ==
    ASSUME TypeOK, UNCHANGED tables, Len(chal') \in Nat, Len(chal) <= Len(chal'),
           \A n \in 1 .. Len(chal) : chal'[n].open => chal[n].open,
           \A n \in 1 .. Len(chal) : chal[n].open \in BOOLEAN /\ chal'[n].open \in BOOLEAN
    PROVE  Grown
    BY Lengths DEF Grown, tables

(* Nothing new is in hand. *)
LEMMA ChallengedKept ==
    ASSUME AccessInv, Len(chal') = Len(chal),
           \A n \in 1 .. Len(chal) : /\ chal'[n].uses = chal[n].uses
                                     /\ chal'[n].raced = chal[n].raced
                                     /\ chal'[n].open => chal[n].open,
           \A k \in Calls : \A n \in 1 .. Len(chal) : Pending(k, n)' => Pending(k, n)
    PROVE  Challenged'
    BY DEF AccessInv, Challenged

(* One call goes on and neither the challenges change nor what is in hand. *)
LEMMA QuietStep ==
    ASSUME AccessInv, NEW call \in Calls, NEW new \in Job,
           job' = [job EXCEPT ![call] = new],
           UNCHANGED <<workload, tables, chal>>,
           \/ writer' = writer /\ job[call].at # "commit"
           \/ writer' = Release(call),
           new.at # "commit",
           held' \in [SdkClients -> 0 .. Len(pairs)],
           JobOK(new)', new.op = "finish" => ~Holding(new)
    PROVE  AccessInv'
<1>1. TypeOK /\ chal' = chal /\ UNCHANGED tables /\ chal \in Seq(MFAChallenge)
    BY DEF AccessInv, TypeOK
<1>2. Grown
    BY <1>1, Lengths DEF Grown, tables
<1>3. Challenged'
  <2>1. \A k \in Calls : \A n \in 1 .. Len(chal) : Pending(k, n)' => Pending(k, n)
    BY <1>1 DEF TypeOK, Pending, Holding
  <2> QED
    BY <1>1, <2>1, ChallengedKept
<1> QED
    BY <1>1, <1>2, <1>3, CallStep

(* What is known of the calls of a server that keeps to the invariant. *)
LEMMA CallKnown ==
    ASSUME AccessInv, NEW call \in Calls
    PROVE  /\ TypeOK /\ job[call] \in Job /\ JobOK(job[call])
           /\ job[call].at = "commit" <=> writer = call
           /\ held \in [SdkClients -> 0 .. Len(pairs)]
    BY AccessAssumption DEF AccessInv, Jobs, TypeOK

(* An answer leaves nothing in hand. *)
LEMMA AnswerKept ==
    ASSUME TypeOK, UNCHANGED tables, NEW j \in Job, NEW answer \in Answer,
           j.client \in SdkClients,
           answer = "served" => ~j.late
    PROVE  /\ Done(j, answer) \in Job /\ Done(j, answer).at = "done"
           /\ JobOK(Done(j, answer))'
<1> DEFINE d == Done(j, answer)
<1>1. /\ d \in Job /\ d.at = "done" /\ d.num = 0 /\ d.client = j.client
      /\ d.answer = answer /\ ~d.dead
      /\ IF answer = "served" THEN d.late = j.late ELSE ~d.late
    BY DoneIsJob
<1>2. UNCHANGED <<users, grants, pairs, black, keys>> /\ Len(pairs) \in Nat
    BY Lengths DEF tables
<1> HIDE DEF d
<1>3. InHand(d)' /\ Listed(d)' /\ Disabled(d)'
    BY <1>1, <1>2 DEF InHand, Listed, Disabled, Holding
<1>4. JobOK(d)'
    BY <1>1, <1>2, <1>3 DEF JobOK
<1> QED
    BY <1>1, <1>4 DEF d

LEMMA GiveKeeps ==
    ASSUME AccessInv, NEW call \in Calls, NEW answer \in Answer, Give(call, answer),
           job[call].at \notin {"idle", "commit"} \/ (job[call].at = "commit" /\ answer = "failed"),
           answer = "served" => ~job[call].late,
           UNCHANGED <<workload, tables, chal, held>>,
           writer' = Release(call) \/ (writer' = writer /\ job[call].at # "commit")
    PROVE  AccessInv'
<1>1. /\ TypeOK /\ job[call] \in Job /\ JobOK(job[call]) /\ job[call].client \in SdkClients
      /\ held \in [SdkClients -> 0 .. Len(pairs)]
    BY CallKnown DEF JobOK
<1>2. PICK j \in Job : j = job[call]
    BY <1>1
<1>3. PICK new \in Job : /\ new = Done(j, answer) /\ new.at = "done" /\ JobOK(new)'
    BY <1>1, <1>2, AnswerKept
<1>4. job' = [job EXCEPT ![call] = new]
    BY <1>2, <1>3 DEF Give
<1> QED
    BY <1>1, <1>3, <1>4, QuietStep DEF Holding

-----------------------------------------------------------------------------
(* The requests that come. *)

LEMMA CameIsJob ==
    ASSUME TypeOK, NEW at \in Waits, NEW client \in SdkClients, NEW op \in Open \cup Asked,
           NEW u \in Users, NEW n \in Nat
    PROVE  \E came \in Job : /\ came = Came(at, client, op, u, n)
                             /\ came.at = at /\ came.op = op /\ came.client = client
                             /\ came.who = u /\ came.num = n /\ came.answer = "none"
                             /\ ~came.late /\ came.dead = Dead(u)
<1> DEFINE a == [NoJob EXCEPT !.op = op]
           b == [a EXCEPT !.at = at]
           c == [b EXCEPT !.client = client]
           d == [c EXCEPT !.who = u]
           e == [d EXCEPT !.num = n]
           f == [e EXCEPT !.dead = Dead(u)]
<1>1. Came(at, client, op, u, n) = f
    BY DEF Came
<1>2. a \in Job /\ a.op = op /\ a.answer = "none" /\ a.late = FALSE
    BY NoJobIsJob DEF Job
<1> HIDE DEF a
<1>3. b \in Job /\ b.op = op /\ b.answer = "none" /\ b.late = FALSE /\ b.at = at
    BY <1>2 DEF Job
<1> HIDE DEF b
<1>4. /\ c \in Job /\ c.op = op /\ c.answer = "none" /\ c.late = FALSE /\ c.at = at
      /\ c.client = client
    BY <1>3 DEF Job
<1> HIDE DEF c
<1>5. /\ d \in Job /\ d.op = op /\ d.answer = "none" /\ d.late = FALSE /\ d.at = at
      /\ d.client = client /\ d.who = u
    BY <1>4 DEF Job
<1> HIDE DEF d
<1>6. /\ e \in Job /\ e.op = op /\ e.answer = "none" /\ e.late = FALSE /\ e.at = at
      /\ e.client = client /\ e.who = u /\ e.num = n
    BY <1>5 DEF Job
<1> HIDE DEF e
<1>7. Dead(u) \in BOOLEAN
    BY DEF Dead, TypeOK, Person
<1>8. /\ f \in Job /\ f.op = op /\ f.answer = "none" /\ f.late = FALSE /\ f.at = at
      /\ f.client = client /\ f.who = u /\ f.num = n /\ f.dead = Dead(u)
    BY <1>6, <1>7 DEF Job
<1> HIDE DEF f
<1> QED
    BY <1>1, <1>8

LEMMA EnteredJob ==
    ASSUME TypeOK, UNCHANGED tables, Len(chal) <= Len(chal'), Len(chal') \in Nat,
           NEW call \in Calls, NEW client \in SdkClients,
           NEW op \in {"register", "login", "refresh", "logout", "keyless", "finish"},
           NEW u \in Users, NEW n \in Nat, NEW ok \in BOOLEAN,
           Enter(call, client, op, u, n, ok),
           ok => /\ op # "keyless"
                 /\ op \in {"refresh", "logout"} => n \in 1 .. Len(pairs)
                 /\ op = "refresh" => u = pairs[n].user
                 /\ op = "finish" => n \in 1 .. Len(chal)
    PROVE  \E new \in Job : /\ job' = [job EXCEPT ![call] = new] /\ job[call].at = "idle"
                            /\ new.at # "commit" /\ new.op \in {op, "none"}
                            /\ IF ok THEN new.at = "flush" /\ new.num = n ELSE new.at = "done"
                            /\ JobOK(new)'
<1>1. PICK came \in Job : /\ came = Came("flush", client, op, u, n)
                          /\ came.at = "flush" /\ came.op = op /\ came.client = client
                          /\ came.who = u /\ came.num = n /\ ~came.late
                          /\ came.answer = "none"
  <2>1. op \in Open \cup Asked
    BY DEF Open
  <2> QED
    BY <2>1, CameIsJob DEF Waits
<1>2. UNCHANGED <<users, grants, pairs, black, keys>> /\ Len(pairs) \in Nat /\ Len(chal) \in Nat
    BY Lengths DEF tables
<1>3. /\ job[call].at = "idle"
      /\ job' = [job EXCEPT ![call] = IF ok THEN came ELSE Done(came, "refused")]
    BY <1>1 DEF Enter, Begin
<1>4. PICK over \in Job : /\ over = Done(came, "refused") /\ over.at = "done" /\ over.op = "none"
                          /\ JobOK(over)'
    BY <1>1, DoneIsJob, AnswerKept DEF Answer
<1>5. CASE ok
  <2>1. InHand(came)' /\ Listed(came)' /\ Disabled(came)'
    BY <1>1, <1>2, <1>5 DEF InHand, Listed, Disabled, Holding, Writing, Open
  <2>2. JobOK(came)'
    BY <1>1, <2>1 DEF JobOK
  <2> QED
    BY <1>1, <1>3, <1>5, <2>2
<1>6. CASE ~ok
    BY <1>3, <1>4, <1>6
<1> QED
    BY <1>5, <1>6

(* A request that has no challenge in hand. *)
LEMMA Entered ==
    ASSUME AccessInv, UNCHANGED <<workload, tables, chal, held, writer>>,
           NEW call \in Calls, NEW client \in SdkClients,
           NEW op \in {"register", "login", "refresh", "logout", "keyless"},
           NEW u \in Users, NEW n \in Nat, NEW ok \in BOOLEAN,
           Enter(call, client, op, u, n, ok),
           ok => /\ op # "keyless"
                 /\ op \in {"refresh", "logout"} => n \in 1 .. Len(pairs)
                 /\ op = "refresh" => u = pairs[n].user
    PROVE  AccessInv'
<1>1. /\ TypeOK /\ Len(chal) \in Nat /\ chal' = chal /\ UNCHANGED tables
      /\ held \in [SdkClients -> 0 .. Len(pairs)]
    BY CallKnown, Lengths
<1>2. PICK new \in Job : /\ job' = [job EXCEPT ![call] = new] /\ job[call].at = "idle"
                         /\ new.at # "commit" /\ new.op \in {op, "none"} /\ JobOK(new)'
    BY <1>1, EnteredJob
<1> QED
    BY <1>1, <1>2, QuietStep

LEMMA RegisterKeeps ==
    ASSUME AccessInv, NEW call \in Calls, NEW client \in SdkClients, NEW u \in Users,
           Register(call, client, u)
    PROVE  AccessInv'
    BY Entered DEF Register

LEMMA LoginKeeps ==
    ASSUME AccessInv, NEW call \in Calls, NEW client \in SdkClients, NEW u \in Users,
           Login(call, client, u)
    PROVE  AccessInv'
<1>1. Registered(u) \in BOOLEAN
    BY DEF Registered
<1> QED
    BY <1>1, Entered DEF Login

LEMMA RefreshKeeps ==
    ASSUME AccessInv, NEW call \in Calls, NEW client \in SdkClients, NEW n \in DOMAIN pairs,
           Refresh(call, client, n)
    PROVE  AccessInv'
<1>1. n \in 1 .. Len(pairs) /\ n \in Nat /\ pairs[n].user \in Users /\ pairs[n].revoked \in BOOLEAN
    BY Lengths DEF AccessInv
<1>2. PICK expired \in BOOLEAN : Enter(call, client, "refresh", pairs[n].user, n, ~pairs[n].revoked /\ ~expired)
    BY DEF Refresh
<1> QED
    BY <1>1, <1>2, Entered DEF Refresh

LEMMA LogoutKeeps ==
    ASSUME AccessInv, NEW call \in Calls, NEW client \in SdkClients, Logout(call, client)
    PROVE  AccessInv'
<1>1. Len(pairs) \in Nat /\ held[client] \in 0 .. Len(pairs) /\ held[client] # 0
    BY CallKnown, Lengths DEF Logout
<1>2. /\ held[client] \in 1 .. Len(pairs) /\ held[client] \in Nat
      /\ pairs[held[client]].user \in Users
    BY <1>1, Lengths DEF AccessInv
<1>3. PICK n \in 1 .. Len(pairs), u \in Users : n = held[client] /\ u = pairs[n].user /\ n \in Nat
    BY <1>2
<1>4. CASE Enter(call, client, "logout", u, n, TRUE)
    BY <1>3, <1>4, Entered DEF Logout
<1>5. CASE Begin(call, "logout", Done(Came("flush", client, "logout", u, n), "served"))
  <2>1. /\ TypeOK /\ UNCHANGED tables /\ held \in [SdkClients -> 0 .. Len(pairs)]
        /\ UNCHANGED <<workload, tables, chal, held, writer>> /\ pairs' = pairs
    BY CallKnown DEF Logout, tables
  <2>2. PICK came \in Job : /\ came = Came("flush", client, "logout", u, n)
                            /\ came.client = client /\ ~came.late
    <3>1. "logout" \in Open \cup Asked
        BY DEF Open
    <3> QED
        BY <1>3, <2>1, <3>1, CameIsJob DEF Waits
  <2>3. PICK new \in Job : new = Done(came, "served") /\ new.at = "done" /\ JobOK(new)'
    BY <2>1, <2>2, AnswerKept DEF Answer
  <2>4. job' = [job EXCEPT ![call] = new] /\ job[call].at = "idle"
    BY <1>5, <2>2, <2>3 DEF Begin
  <2> QED
    BY <2>1, <2>3, <2>4, QuietStep DEF Holding
<1> QED
    BY <1>3, <1>4, <1>5 DEF Logout

LEMMA KeylessKeeps ==
    ASSUME AccessInv, NEW call \in Calls, NEW client \in SdkClients, NEW u \in Users,
           AskKeyless(call, client, u)
    PROVE  AccessInv'
    BY Entered DEF AskKeyless

-----------------------------------------------------------------------------
(* The requests that carry a token. *)

LEMMA AskKeeps ==
    ASSUME AccessInv, NEW call \in Calls, NEW client \in SdkClients, NEW op, Ask(call, client, op)
    PROVE  AccessInv'
<1>1. /\ TypeOK /\ UNCHANGED <<workload, tables, chal, held, writer>> /\ UNCHANGED tables
      /\ held \in [SdkClients -> 0 .. Len(pairs)] /\ held[client] # 0 /\ op \in Asked
      /\ Len(pairs) \in Nat
      /\ UNCHANGED <<users, grants, pairs, black, keys>>
    BY CallKnown, Lengths DEF Ask, tables
<1>2. PICK n \in 1 .. Len(pairs) : n = held[client]
    BY <1>1
<1>3. PICK u \in Users : u = pairs[n].user
    BY <1>1, Lengths
<1>4. PICK came \in Job : /\ came = Came("blacklist", client, op, u, n)
                          /\ came.at = "blacklist" /\ came.op = op /\ came.client = client
                          /\ came.who = u /\ came.num = n /\ came.answer = "none"
                          /\ ~came.late /\ came.dead = Dead(u)
    BY <1>1, CameIsJob DEF Waits
<1>0. PICK revoked \in BOOLEAN : revoked <=> <<"access", n>> \in black
    OBVIOUS
<1>5. PICK j : j = [came EXCEPT !.late = revoked]
    OBVIOUS
<1>6. /\ j \in Job /\ j.at = "blacklist" /\ j.op = op /\ j.client = client
      /\ j.who = u /\ j.num = n /\ j.answer = "none"
      /\ j.late => <<"access", n>> \in black
      /\ j.dead => ~users[u].active
  <2>1. /\ j \in Job /\ j.at = "blacklist" /\ j.op = op /\ j.client = client
        /\ j.who = u /\ j.num = n /\ j.answer = "none"
        /\ j.late = revoked /\ j.dead = Dead(u)
    BY <1>4, <1>5 DEF Job
  <2> QED
    BY <2>1, <1>0 DEF Dead
<1>7. /\ job[call].at = "idle"
      /\ \/ \E why \in {"busy", "refused"} : job' = [job EXCEPT ![call] = Done(j, why)]
         \/ job' = [job EXCEPT ![call] = j]
  <2> DEFINE c == [Came("blacklist", client, op, u, n) EXCEPT !.late = <<"access", n>> \in black]
  <2>1. (<<"access", n>> \in black) = revoked
    BY <1>0
  <2>2. c = j
    BY <2>1, <1>4, <1>5
  <2>3. \/ \E why \in {"busy", "refused"} : Begin(call, op, Done(c, why))
        \/ \E a \in Addresses : Begin(call, op, IF InRule(a, Rule) THEN c ELSE Done(c, "refused"))
    BY <1>2, <1>3 DEF Ask
  <2> HIDE DEF c
  <2>4. \/ \E why \in {"busy", "refused"} : Begin(call, op, Done(j, why))
        \/ Begin(call, op, j) \/ Begin(call, op, Done(j, "refused"))
    BY <2>2, <2>3
  <2> QED
    BY <2>4 DEF Begin
<1>8. CASE \E why \in {"busy", "refused"} : job' = [job EXCEPT ![call] = Done(j, why)]
  <2>1. PICK why \in {"busy", "refused"} : job' = [job EXCEPT ![call] = Done(j, why)]
    BY <1>8
  <2>2. PICK new \in Job : new = Done(j, why) /\ new.at = "done" /\ JobOK(new)'
    BY <1>1, <1>6, AnswerKept DEF Answer
  <2> QED
    BY <1>1, <1>7, <2>1, <2>2, QuietStep DEF Holding
<1>9. CASE job' = [job EXCEPT ![call] = j]
  <2>1. InHand(j)' /\ Listed(j)' /\ Disabled(j)'
    BY <1>1, <1>6 DEF InHand, Listed, Disabled, Holding
  <2>2. JobOK(j)'
    BY <1>6, <2>1 DEF JobOK
  <2> QED
    BY <1>1, <1>6, <1>7, <1>9, <2>2, QuietStep DEF Holding
<1> QED
    BY <1>7, <1>8, <1>9

LEMMA CheckBlacklistKeeps ==
    ASSUME AccessInv, NEW call \in Calls, CheckBlacklist(call)
    PROVE  AccessInv'
<1>1. /\ TypeOK /\ UNCHANGED <<workload, tables, chal, held, writer>> /\ UNCHANGED tables
      /\ held \in [SdkClients -> 0 .. Len(pairs)] /\ Len(pairs) \in Nat
      /\ UNCHANGED <<users, grants, pairs, black, keys>>
    BY CallKnown, Lengths DEF CheckBlacklist, tables
<1>2. PICK j \in Job : j = job[call] /\ JobOK(j) /\ j.at = "blacklist"
    BY CallKnown DEF CheckBlacklist
<1>3. CASE Give(call, "refused")
    BY <1>1, <1>2, <1>3, GiveKeeps DEF Answer
<1>4. CASE ~Give(call, "refused")
  <2> DEFINE a == [j EXCEPT !.at = "user"]
             b == [a EXCEPT !.num = 0]
  <2>1. job' = [job EXCEPT ![call] = b] /\ <<"access", j.num>> \notin black
    BY <1>2, <1>4 DEF CheckBlacklist, NotRevoked
  <2>2. /\ a \in Job /\ a.at = "user" /\ a.who = j.who /\ a.client = j.client
        /\ a.late = j.late /\ a.dead = j.dead /\ a.answer = j.answer /\ a.op = j.op
    BY <1>2 DEF Job, Waits
  <2> HIDE DEF a
  <2>6. /\ b \in Job /\ b.at = "user" /\ b.who = j.who /\ b.client = j.client
        /\ b.late = j.late /\ b.dead = j.dead /\ b.answer = j.answer /\ b.op = j.op
    BY <2>2 DEF Job
  <2> HIDE DEF b
  <2>3. PICK new \in Job :
            /\ new = b
            /\ new.at = "user" /\ new.who = j.who /\ new.client = j.client
            /\ new.late = j.late /\ new.dead = j.dead /\ new.answer = j.answer /\ new.op = j.op
    BY <2>6
  <2>4. InHand(new)' /\ Listed(new)' /\ Disabled(new)'
    BY <1>1, <1>2, <2>1, <2>3 DEF JobOK, InHand, Listed, Disabled, Holding
  <2>5. JobOK(new)'
    BY <1>2, <2>3, <2>4 DEF JobOK
  <2> QED
    BY <1>1, <1>2, <2>1, <2>3, <2>5, QuietStep DEF Holding
<1> QED
    BY <1>3, <1>4

LEMMA LoadUserKeeps ==
    ASSUME AccessInv, NEW call \in Calls, LoadUser(call)
    PROVE  AccessInv'
<1>1. /\ TypeOK /\ UNCHANGED <<workload, tables, chal, held, writer>> /\ UNCHANGED tables
      /\ held \in [SdkClients -> 0 .. Len(pairs)] /\ Len(pairs) \in Nat
      /\ UNCHANGED <<users, grants, pairs, black, keys>> /\ users \in [Users -> Person]
    BY CallKnown, Lengths DEF LoadUser, tables, TypeOK
<1>2. PICK j \in Job : j = job[call] /\ JobOK(j) /\ j.at = "user"
    BY CallKnown DEF LoadUser
<1>3. PICK u \in Users : u = j.who
    BY <1>2 DEF JobOK
<1>4. PICK p \in Person : p = users[u]
    BY <1>1
<1> DEFINE a == [j EXCEPT !.at = "handler"]
           b == [a EXCEPT !.may = p]
<1>5. job' = [job EXCEPT ![call] = b]
    BY <1>2, <1>3, <1>4 DEF LoadUser
<1>6. /\ a \in Job /\ a.at = "handler" /\ a.who = j.who /\ a.client = j.client
      /\ a.late = j.late /\ a.dead = j.dead /\ a.answer = j.answer
    BY <1>2 DEF Job, Waits
<1> HIDE DEF a
<1>0. /\ b \in Job /\ b.at = "handler" /\ b.who = j.who /\ b.client = j.client /\ b.may = p
      /\ b.late = j.late /\ b.dead = j.dead /\ b.answer = j.answer
    BY <1>6 DEF Job
<1> HIDE DEF b
<1>7. PICK new \in Job :
          /\ new = b
          /\ new.at = "handler" /\ new.who = j.who /\ new.client = j.client /\ new.may = p
          /\ new.late = j.late /\ new.dead = j.dead /\ new.answer = j.answer
    BY <1>0
<1>8. InHand(new)' /\ Listed(new)' /\ Disabled(new)'
    BY <1>1, <1>2, <1>3, <1>4, <1>7 DEF JobOK, InHand, Listed, Disabled, Holding
<1>9. JobOK(new)'
    BY <1>2, <1>7, <1>8 DEF JobOK
<1> QED
    BY <1>1, <1>2, <1>5, <1>7, <1>9, QuietStep DEF Holding

-----------------------------------------------------------------------------
(* What the routes decide. *)

(* A user who is not active has no permission, and so is no manager of a
   record but as its owner. *)
LEMMA Powerless ==
    ASSUME NEW user, ~user.active, NEW action
    PROVE  ~has_permission(user, action)
    BY DEF has_permission

LEMMA DecisionIsAnswer ==
    ASSUME NEW j \in Job, j.op \in Plain
    PROVE  Decision(j) \in Answer
<1>1. CASE j.op \in {"read", "delete"}
  <2> DEFINE r == Reaches(grants, Owner, j.who, j.may, j.op)
  <2>1. r \in {"yes", "no", "raises"}
    BY DEF Reaches, can_access
  <2>2. Decision(j) = [yes |-> "served", no |-> "refused", raises |-> "failed"][r]
    BY <1>1 DEF Decision
  <2> QED
    BY <2>1, <2>2 DEF Answer
<1>2. CASE j.op \in {"admin", "audit", "create"}
    BY <1>2 DEF Decision, Answer
<1>3. CASE j.op = "find"
    BY <1>3 DEF Decision, Searching, Answer
<1>4. CASE j.op = "grants"
    BY <1>4 DEF Decision, Answer
<1> QED
    BY <1>1, <1>2, <1>3, <1>4 DEF Plain

LEMMA DecideKeeps ==
    ASSUME AccessInv, NEW call \in Calls, Decide(call)
    PROVE  AccessInv'
<1>1. /\ TypeOK /\ job[call] \in Job /\ JobOK(job[call]) /\ job[call].at = "handler"
      /\ job[call].op \in Plain
    BY CallKnown DEF Decide
<1>2. ~job[call].late
    BY <1>1 DEF JobOK, Listed, Job
<1>3. Decision(job[call]) \in Answer
    BY <1>1, DecisionIsAnswer
<1>4. PICK answer \in Answer : answer = Decision(job[call])
    BY <1>3
<1> QED
    BY <1>1, <1>2, <1>4, GiveKeeps DEF Decide

LEMMA ProceedKeeps ==
    ASSUME AccessInv, NEW call \in Calls, NEW op \in Writing, NEW may \in BOOLEAN, NEW new \in Job,
           Proceed(call, op, may, new),
           new.at = "handler", new.op = op, op \notin {"finish", "refresh"}, new.client = job[call].client,
           new.who = job[call].who, new.late = job[call].late,
           new.answer = job[call].answer, new.dead = job[call].dead,
           may => /\ [new EXCEPT !.at = "flush"] \in Job
                  /\ InHand([new EXCEPT !.at = "flush"])
    PROVE  AccessInv'
<1>1. /\ TypeOK /\ UNCHANGED <<workload, tables, chal, held, writer>> /\ UNCHANGED tables
      /\ held \in [SdkClients -> 0 .. Len(pairs)] /\ Len(pairs) \in Nat
      /\ UNCHANGED <<users, grants, pairs, black, keys, chal>>
    BY CallKnown, Lengths DEF Proceed, tables
<1>2. PICK j \in Job : j = job[call] /\ JobOK(j) /\ j.at = "handler"
    BY CallKnown DEF Proceed
<1>3. ~j.late
    BY <1>2 DEF JobOK, Listed, Job
<1>4. CASE may
  <2> DEFINE a == [new EXCEPT !.at = "flush"]
  <2>1. job' = [job EXCEPT ![call] = a]
    BY <1>4 DEF Proceed
  <2>2. /\ a \in Job /\ a.at = "flush" /\ a.op = op /\ a.client = j.client /\ a.who = j.who
        /\ a.late = j.late /\ a.answer = j.answer /\ a.dead = j.dead
        /\ InHand(a)
    BY <1>2, <1>4 DEF Job
  <2> HIDE DEF a
  <2>3. InHand(a)' /\ Listed(a)' /\ Disabled(a)'
    BY <1>1, <1>2, <1>3, <2>2 DEF InHand, Listed, Disabled, Holding
  <2>4. JobOK(a)'
    BY <1>1, <1>2, <2>2, <2>3 DEF JobOK
  <2>5. job[call].at # "commit" /\ a.at # "commit" /\ a.op # "finish"
    BY <1>2, <2>2
  <2> QED
    BY <1>1, <2>1, <2>2, <2>4, <2>5, QuietStep
<1>5. CASE ~may
    BY <1>1, <1>2, <1>5, GiveKeeps DEF Proceed, Answer
<1> QED
    BY <1>4, <1>5

LEMMA GrantRecordAccessKeeps ==
    ASSUME AccessInv, NEW call \in Calls, GrantRecordAccess(call)
    PROVE  AccessInv'
<1>1. PICK permission \in Permissions, u \in Users \cup {NoUser}, role \in workload.roles \cup {NoRole} :
        Proceed(call, "grant_record_access", Managers(job[call]) /\ (u = NoUser \/ Registered(u)),
                [job[call] EXCEPT !.to = u, !.role = role, !.permission = permission])
    BY AccessAssumption DEF GrantRecordAccess, AccessInv, TypeOK
<1>2. role \in Roles \cup {NoRole} /\ Roles \subseteq Given \cup {NoRole}
    BY AccessAssumption DEF AccessInv, TypeOK, Given
<1>3. PICK j \in Job : j = job[call] /\ JobOK(j) /\ j.at = "handler" /\ j.op = "grant_record_access"
    BY <1>1, CallKnown DEF Proceed
<1>4. PICK may \in BOOLEAN : may = (Managers(j) /\ (u = NoUser \/ Registered(u)))
    BY DEF Managers
<1> DEFINE a == [j EXCEPT !.to = u]
           b == [a EXCEPT !.role = role]
           c == [b EXCEPT !.permission = permission]
           d == [c EXCEPT !.at = "flush"]
<1>5. Proceed(call, "grant_record_access", may, c)
    BY <1>1, <1>3, <1>4
<1>6. /\ a \in Job /\ a.at = j.at /\ a.op = j.op /\ a.client = j.client /\ a.who = j.who
      /\ a.late = j.late /\ a.dead = j.dead /\ a.answer = j.answer
    BY DEF Job
<1> HIDE DEF a
<1>7. /\ b \in Job /\ b.at = j.at /\ b.op = j.op /\ b.client = j.client /\ b.who = j.who
      /\ b.late = j.late /\ b.dead = j.dead /\ b.answer = j.answer /\ b.role = role
    BY <1>2, <1>6 DEF Job
<1> HIDE DEF b
<1>8. /\ c \in Job /\ c.at = j.at /\ c.op = j.op /\ c.client = j.client /\ c.who = j.who
      /\ c.late = j.late /\ c.dead = j.dead /\ c.answer = j.answer /\ c.role = role
      /\ c.permission = permission
    BY <1>7 DEF Job
<1> HIDE DEF c
<1>9. d \in Job /\ d.at = "flush" /\ d.op = j.op /\ d.role = role /\ d.permission = permission
    BY <1>8 DEF Job, Waits
<1> HIDE DEF d
<1>10. InHand(d)
    BY <1>2, <1>3, <1>9 DEF InHand, Writing
<1>11. /\ [c EXCEPT !.at = "flush"] \in Job /\ InHand([c EXCEPT !.at = "flush"])
    BY <1>9, <1>10 DEF d
<1> QED
    BY <1>3, <1>5, <1>8, <1>11, ProceedKeeps DEF Writing

LEMMA RevokeRecordAccessKeeps ==
    ASSUME AccessInv, NEW call \in Calls, RevokeRecordAccess(call)
    PROVE  AccessInv'
<1>1. PICK g \in DOMAIN grants :
        Proceed(call, "revoke_record_access", Managers(job[call]), [job[call] EXCEPT !.num = g])
    BY DEF RevokeRecordAccess
<1>2. g \in Nat /\ g \in 1 .. Len(grants)
    BY Lengths DEF AccessInv
<1>3. PICK j \in Job : j = job[call] /\ JobOK(j) /\ j.at = "handler" /\ j.op = "revoke_record_access"
    BY <1>1, CallKnown DEF Proceed
<1>4. PICK may \in BOOLEAN : may = Managers(j)
    BY DEF Managers
<1> DEFINE a == [j EXCEPT !.num = g]
           b == [a EXCEPT !.at = "flush"]
<1>5. Proceed(call, "revoke_record_access", may, a)
    BY <1>1, <1>3, <1>4
<1>6. /\ a \in Job /\ a.at = j.at /\ a.op = j.op /\ a.client = j.client /\ a.who = j.who
      /\ a.late = j.late /\ a.dead = j.dead /\ a.answer = j.answer /\ a.num = g
    BY <1>2 DEF Job
<1> HIDE DEF a
<1>7. b \in Job /\ b.at = "flush" /\ b.op = j.op /\ b.num = g
    BY <1>6 DEF Job, Waits
<1> HIDE DEF b
<1>8. InHand(b)
    BY <1>2, <1>3, <1>7 DEF InHand, Writing
<1>9. /\ [a EXCEPT !.at = "flush"] \in Job /\ InHand([a EXCEPT !.at = "flush"])
    BY <1>7, <1>8 DEF b
<1> QED
    BY <1>3, <1>5, <1>6, <1>9, ProceedKeeps DEF Writing

LEMMA SetUserRoleKeeps ==
    ASSUME AccessInv, NEW call \in Calls, SetUserRole(call)
    PROVE  AccessInv'
<1>1. PICK u \in Users, role \in workload.roles :
        Proceed(call, "set_user_role", has_permission(job[call].may, "admin"),
                [job[call] EXCEPT !.to = u, !.role = role])
    BY DEF SetUserRole
<1>2. role \in Given \cup {NoRole}
    BY AccessAssumption DEF AccessInv, TypeOK, Given
<1>3. PICK j \in Job : j = job[call] /\ JobOK(j) /\ j.at = "handler" /\ j.op = "set_user_role"
    BY <1>1, CallKnown DEF Proceed
<1>4. PICK may \in BOOLEAN : may = has_permission(j.may, "admin")
    BY DEF has_permission, Job, Person
<1> DEFINE a == [j EXCEPT !.to = u]
           b == [a EXCEPT !.role = role]
           c == [b EXCEPT !.at = "flush"]
<1>5. Proceed(call, "set_user_role", may, b)
    BY <1>1, <1>3, <1>4
<1>6. /\ a \in Job /\ a.at = j.at /\ a.op = j.op /\ a.client = j.client /\ a.who = j.who
      /\ a.late = j.late /\ a.dead = j.dead /\ a.answer = j.answer /\ a.to = u
    BY DEF Job
<1> HIDE DEF a
<1>7. /\ b \in Job /\ b.at = j.at /\ b.op = j.op /\ b.client = j.client /\ b.who = j.who
      /\ b.late = j.late /\ b.dead = j.dead /\ b.answer = j.answer /\ b.to = u
    BY <1>2, <1>6 DEF Job
<1> HIDE DEF b
<1>8. c \in Job /\ c.at = "flush" /\ c.op = j.op /\ c.to = u
    BY <1>7 DEF Job, Waits
<1> HIDE DEF c
<1>9. InHand(c)
    BY <1>3, <1>8 DEF InHand, Writing
<1>10. /\ [b EXCEPT !.at = "flush"] \in Job /\ InHand([b EXCEPT !.at = "flush"])
    BY <1>8, <1>9 DEF c
<1> QED
    BY <1>3, <1>5, <1>7, <1>10, ProceedKeeps DEF Writing

LEMMA DisableUserKeeps ==
    ASSUME AccessInv, NEW call \in Calls, DisableUser(call)
    PROVE  AccessInv'
<1>1. PICK u \in Users, op \in {"delete_user", "disable_user"} :
        Proceed(call, op, has_permission(job[call].may, "admin"), [job[call] EXCEPT !.to = u])
    BY DEF DisableUser
<1>3. PICK j \in Job : j = job[call] /\ JobOK(j) /\ j.at = "handler" /\ j.op = op
    BY <1>1, CallKnown DEF Proceed
<1>4. PICK may \in BOOLEAN : may = has_permission(j.may, "admin")
    BY DEF has_permission, Job, Person
<1> DEFINE a == [j EXCEPT !.to = u]
           b == [a EXCEPT !.at = "flush"]
<1>5. Proceed(call, op, may, a)
    BY <1>1, <1>3, <1>4
<1>6. /\ a \in Job /\ a.at = j.at /\ a.op = j.op /\ a.client = j.client /\ a.who = j.who
      /\ a.late = j.late /\ a.dead = j.dead /\ a.answer = j.answer /\ a.to = u
    BY DEF Job
<1> HIDE DEF a
<1>7. b \in Job /\ b.at = "flush" /\ b.op = j.op /\ b.to = u
    BY <1>6 DEF Job, Waits
<1> HIDE DEF b
<1>8. InHand(b)
    BY <1>3, <1>7 DEF InHand, Writing
<1>9. /\ [a EXCEPT !.at = "flush"] \in Job /\ InHand([a EXCEPT !.at = "flush"])
    BY <1>7, <1>8 DEF b
<1>10. op \in Writing /\ op # "finish"
    BY DEF Writing
<1> QED
    BY <1>3, <1>5, <1>6, <1>9, <1>10, ProceedKeeps

LEMMA RegisterFinishKeeps ==
    ASSUME AccessInv, NEW call \in Calls, RegisterFinish(call)
    PROVE  AccessInv'
<1>1. PICK n \in DOMAIN chal, verified \in BOOLEAN :
        Proceed(call, "hardware_register_finish",
                chal[n].open /\ chal[n].user = job[call].who /\ verified, [job[call] EXCEPT !.num = n])
    BY DEF RegisterFinish
<1>2. n \in Nat /\ n \in 1 .. Len(chal)
    BY Lengths DEF AccessInv
<1>3. PICK j \in Job : j = job[call] /\ JobOK(j) /\ j.at = "handler" /\ j.op = "hardware_register_finish"
    BY <1>1, CallKnown DEF Proceed
<1>4. PICK may \in BOOLEAN : may = (chal[n].open /\ chal[n].user = j.who /\ verified)
    OBVIOUS
<1> DEFINE a == [j EXCEPT !.num = n]
           b == [a EXCEPT !.at = "flush"]
<1>5. Proceed(call, "hardware_register_finish", may, a)
    BY <1>1, <1>3, <1>4
<1>6. /\ a \in Job /\ a.at = j.at /\ a.op = j.op /\ a.client = j.client /\ a.who = j.who
      /\ a.late = j.late /\ a.dead = j.dead /\ a.answer = j.answer /\ a.num = n
    BY <1>2 DEF Job
<1> HIDE DEF a
<1>7. b \in Job /\ b.at = "flush" /\ b.op = j.op /\ b.num = n
    BY <1>6 DEF Job, Waits
<1> HIDE DEF b
<1>8. InHand(b)
    BY <1>2, <1>3, <1>7 DEF InHand, Writing
<1>9. /\ [a EXCEPT !.at = "flush"] \in Job /\ InHand([a EXCEPT !.at = "flush"])
    BY <1>7, <1>8 DEF b
<1> QED
    BY <1>3, <1>5, <1>6, <1>9, ProceedKeeps DEF Writing

-----------------------------------------------------------------------------
(* The challenges. *)

(* A call that has a challenge in hand has one that exists. *)
LEMMA PendingExists ==
    ASSUME AccessInv, NEW k \in Calls, NEW n, Pending(k, n)
    PROVE  n \in 1 .. Len(chal)
    BY CallKnown DEF Pending, JobOK, InHand

LEMMA NewChallengeKeeps ==
    ASSUME AccessInv, NEW call \in Calls, NEW u \in Users, NEW new \in Job, NewChallenge(u),
           job' = [job EXCEPT ![call] = new], job[call].at # "commit", new.at = "done", JobOK(new)',
           UNCHANGED <<workload, tables, held, writer>>
    PROVE  AccessInv'
<1>1. /\ TypeOK /\ chal \in Seq(MFAChallenge) /\ Len(chal) \in Nat
      /\ held' \in [SdkClients -> 0 .. Len(pairs)] /\ job \in [Calls -> Job]
      /\ \A n \in 1 .. Len(chal) : chal[n] \in MFAChallenge
    BY CallKnown, Lengths DEF TypeOK
<1>2. PICK m \in MFAChallenge : /\ chal' = Append(chal, m)
                                /\ m.open = TRUE /\ m.uses = 0
  <2> DEFINE m == [user |-> u, open |-> TRUE, uses |-> 0, raced |-> FALSE]
  <2>1. m \in MFAChallenge /\ m.open = TRUE /\ m.uses = 0 /\ chal' = Append(chal, m)
    BY DEF MFAChallenge, NewChallenge
  <2> HIDE DEF m
  <2> QED
    BY <2>1
<1>3. /\ chal' \in Seq(MFAChallenge) /\ Len(chal') = Len(chal) + 1
      /\ \A n \in 1 .. Len(chal) : chal'[n] = chal[n]
      /\ chal'[Len(chal) + 1] = m
    BY <1>1, <1>2, AppendProperties
<1>4. Grown
  <2>1. Len(chal') \in Nat /\ Len(chal) <= Len(chal')
    BY <1>1, <1>3
  <2>2. \A n \in 1 .. Len(chal) : chal[n].open \in BOOLEAN /\ chal'[n].open = chal[n].open
    BY <1>1, <1>3 DEF MFAChallenge
  <2>3. UNCHANGED tables /\ TypeOK
    BY <1>1
  <2> QED
    BY <2>1, <2>2, <2>3, Staying
<1>5. Challenged'
  <2>1. \A k \in Calls : \A n : Pending(k, n)' => Pending(k, n)
    BY <1>1 DEF Pending, Holding
  <2> SUFFICES ASSUME NEW n \in 1 .. Len(chal')
               PROVE  /\ chal'[n].uses # 0 => ~chal'[n].open
                      /\ \/ chal'[n].raced
                         \/ /\ chal'[n].uses <= 1
                            /\ \A k \in Calls : Pending(k, n)' =>
                                  chal'[n].uses = 0 /\ \A l \in Calls : Pending(l, n)' => l = k
    BY DEF Challenged
  <2>2. CASE n \in 1 .. Len(chal)
    BY <1>3, <2>1, <2>2 DEF AccessInv, Challenged
  <2>3. CASE n = Len(chal) + 1
    <3>1. n \notin 1 .. Len(chal)
        BY <1>1, <2>3
    <3>2. \A k \in Calls : ~Pending(k, n)'
        BY <2>1, <3>1, PendingExists
    <3> QED
        BY <1>2, <1>3, <2>3, <3>2
  <2> QED
    BY <1>1, <1>3, <2>2, <2>3
<1> QED
    BY <1>1, <1>3, <1>4, <1>5, CallStep

LEMMA RegisterBeginKeeps ==
    ASSUME AccessInv, NEW call \in Calls, RegisterBegin(call)
    PROVE  AccessInv'
<1>1. /\ TypeOK /\ UNCHANGED tables
      /\ UNCHANGED <<workload, tables, held, writer>>
    BY CallKnown DEF RegisterBegin
<1>2. PICK j \in Job : /\ j = job[call] /\ JobOK(j) /\ j.at = "handler"
                       /\ j.op = "hardware_register_begin"
    BY CallKnown DEF RegisterBegin
<1>3. PICK new \in Job : new = Done(j, "served") /\ new.at = "done" /\ JobOK(new)'
    BY <1>1, <1>2, AnswerKept DEF Answer, JobOK, Listed
<1>4. job' = [job EXCEPT ![call] = new] /\ NewChallenge(j.who) /\ j.who \in Users
    BY <1>2, <1>3 DEF RegisterBegin, Give, JobOK
<1> QED
    BY <1>1, <1>2, <1>3, <1>4, NewChallengeKeeps

LEMMA AuthenticateBeginKeeps ==
    ASSUME AccessInv, NEW call \in Calls, NEW client \in SdkClients, NEW u \in Users,
           AuthenticateBegin(call, client, u)
    PROVE  AccessInv'
<1>1. /\ TypeOK /\ UNCHANGED tables /\ held \in [SdkClients -> 0 .. Len(pairs)]
      /\ UNCHANGED <<workload, tables, held, writer>>
    BY CallKnown DEF AuthenticateBegin
<1>2. PICK came \in Job : /\ came = Came("flush", client, "begin", u, 0)
                          /\ came.op = "begin" /\ came.client = client /\ ~came.late
    BY <1>1, CameIsJob DEF Waits, Open
<1>3. PICK answer \in Answer : answer = IF u \in keys THEN "served" ELSE "refused"
    BY DEF Answer
<1>4. PICK new \in Job : new = Done(came, answer) /\ new.at = "done" /\ JobOK(new)'
    BY <1>1, <1>2, AnswerKept DEF Open, Answer
<1>5. job' = [job EXCEPT ![call] = new] /\ job[call].at = "idle"
    BY <1>2, <1>3, <1>4 DEF AuthenticateBegin, Begin
<1>6. CASE NewChallenge(u)
    BY <1>1, <1>4, <1>5, <1>6, NewChallengeKeeps
<1>7. CASE chal' = chal
    BY <1>1, <1>4, <1>5, <1>7, QuietStep DEF Holding
<1> QED
    BY <1>6, <1>7 DEF AuthenticateBegin

(* A challenge in the hands of two calls is marked. *)
LEMMA AuthenticateFinishKeeps ==
    ASSUME AccessInv, NEW call \in Calls, NEW client \in SdkClients, NEW n \in DOMAIN chal,
           AuthenticateFinish(call, client, n)
    PROVE  AccessInv'
<1>1. /\ TypeOK /\ chal \in Seq(MFAChallenge) /\ Len(chal) \in Nat /\ DOMAIN chal = 1 .. Len(chal)
      /\ held' \in [SdkClients -> 0 .. Len(pairs)] /\ job \in [Calls -> Job]
      /\ \A i \in 1 .. Len(chal) : chal[i] \in MFAChallenge
      /\ UNCHANGED <<workload, tables, held, writer>> /\ UNCHANGED tables
      /\ n \in Nat /\ n \in 1 .. Len(chal)
  <2>1. /\ TypeOK /\ chal \in Seq(MFAChallenge) /\ job \in [Calls -> Job]
        /\ held \in [SdkClients -> 0 .. Len(pairs)]
    BY CallKnown DEF TypeOK
  <2>2. UNCHANGED <<workload, tables, held, writer>> /\ UNCHANGED tables /\ pairs' = pairs
    BY DEF AuthenticateFinish, tables
  <2>3. /\ Len(chal) \in Nat /\ DOMAIN chal = 1 .. Len(chal)
        /\ \A i \in 1 .. Len(chal) : chal[i] \in MFAChallenge
    BY <2>1, Lengths
  <2> QED
    BY <2>1, <2>2, <2>3
<1>2. PICK verified \in BOOLEAN :
        /\ Enter(call, client, "finish", chal[n].user, n, chal[n].open /\ verified)
        /\ chal' = [chal EXCEPT ![n].raced = @ \/ ((chal[n].open /\ verified) /\ Answering(n))]
    BY DEF AuthenticateFinish
<1>3. PICK ok \in BOOLEAN : ok = (chal[n].open /\ verified)
    OBVIOUS
<1>4. PICK twice \in BOOLEAN : twice = (chal[n].raced \/ (ok /\ Answering(n)))
    OBVIOUS
<1>5. /\ Enter(call, client, "finish", chal[n].user, n, ok)
      /\ chal' = [chal EXCEPT ![n] = [chal[n] EXCEPT !.raced = twice]]
    BY <1>2, <1>3, <1>4
<1>6. PICK m \in MFAChallenge : /\ m = [chal[n] EXCEPT !.raced = twice]
                                /\ m.open = chal[n].open /\ m.uses = chal[n].uses /\ m.raced = twice
  <2> DEFINE m == [chal[n] EXCEPT !.raced = twice]
  <2>1. PICK c \in MFAChallenge : c = chal[n]
    BY <1>1
  <2>2. /\ m \in MFAChallenge
        /\ m.open = chal[n].open /\ m.uses = chal[n].uses /\ m.raced = twice
    BY <2>1 DEF MFAChallenge
  <2> HIDE DEF m
  <2>3. m = [chal[n] EXCEPT !.raced = twice]
    BY DEF m
  <2> QED
    BY <2>2, <2>3
<1>7. /\ chal' \in Seq(MFAChallenge) /\ Len(chal') = Len(chal)
      /\ \A i \in 1 .. Len(chal) : chal'[i] = IF i = n THEN m ELSE chal[i]
    BY <1>1, <1>5, <1>6, ExceptSeq
<1>8. Grown
  <2>1. \A i \in 1 .. Len(chal) : /\ chal'[i].open = chal[i].open
                                  /\ chal[i].open \in BOOLEAN
    BY <1>1, <1>6, <1>7 DEF MFAChallenge
  <2> QED
    BY <1>1, <1>7, <2>1, Staying
<1>9. PICK new \in Job : /\ job' = [job EXCEPT ![call] = new] /\ job[call].at = "idle"
                         /\ new.at # "commit" /\ new.op \in {"finish", "none"}
                         /\ IF ok THEN new.at = "flush" /\ new.num = n ELSE new.at = "done"
                         /\ JobOK(new)'
    BY <1>1, <1>3, <1>5, <1>7, EnteredJob DEF MFAChallenge
<1>10. Challenged'
  <2> SUFFICES ASSUME NEW i \in 1 .. Len(chal)
               PROVE  /\ chal'[i].uses # 0 => ~chal'[i].open
                      /\ \/ chal'[i].raced
                         \/ /\ chal'[i].uses <= 1
                            /\ \A k \in Calls : Pending(k, i)' =>
                                  chal'[i].uses = 0 /\ \A l \in Calls : Pending(l, i)' => l = k
    BY <1>7 DEF Challenged
  <2>1. /\ chal'[i].uses = chal[i].uses /\ chal'[i].open = chal[i].open
        /\ chal[i].raced => chal'[i].raced
    BY <1>4, <1>6, <1>7
  <2>2. \A k \in Calls : Pending(k, i)' => Pending(k, i) \/ (k = call /\ ok /\ i = n)
    BY <1>1, <1>9 DEF Pending, Holding
  <2>3. ~Pending(call, i)
    BY <1>9 DEF Pending, Holding
  <2>4. CASE i = n /\ ok
    <3>1. chal[n].open /\ chal[n].uses = 0
        BY <1>1, <1>3, <2>4 DEF AccessInv, Challenged, MFAChallenge
    <3>2. ASSUME NEW k \in Calls, Pending(k, n)
          PROVE  Answering(n)
      <4>1. /\ job[k].op = "finish" /\ Holding(job[k]) /\ job[k].num = n /\ JobOK(job[k])
            BY <3>2, CallKnown DEF Pending
      <4>2. job[k].at = "flush"
            BY <3>1, <4>1 DEF JobOK, Listed, Holding
      <4> QED
            BY <4>1, <4>2 DEF Answering
    <3>3. chal'[n].raced \/ \A k \in Calls : ~Pending(k, n)
        BY <1>4, <1>6, <1>7, <2>4, <3>2
    <3> QED
        BY <2>1, <2>2, <2>4, <3>1, <3>3
  <2>5. CASE ~(i = n /\ ok)
    BY <2>1, <2>2, <2>5 DEF AccessInv, Challenged
  <2> QED
    BY <2>4, <2>5
<1> QED
    BY <1>1, <1>7, <1>8, <1>9, <1>10, CallStep

(* A challenge is closed, or none is. *)
LEMMA Closing ==
    ASSUME AccessInv, NEW n \in 1 .. Len(chal), chal' = [chal EXCEPT ![n].open = FALSE]
    PROVE  /\ chal' \in Seq(MFAChallenge) /\ Len(chal') = Len(chal) /\ Len(chal) \in Nat
           /\ \A i \in 1 .. Len(chal) : /\ chal[i] \in MFAChallenge /\ chal'[i] \in MFAChallenge
                                        /\ chal'[i].uses = chal[i].uses
                                        /\ chal'[i].raced = chal[i].raced
                                        /\ chal'[i].open => chal[i].open
           /\ ~chal'[n].open
<1>1. /\ chal \in Seq(MFAChallenge) /\ Len(chal) \in Nat /\ DOMAIN chal = 1 .. Len(chal)
      /\ \A i \in 1 .. Len(chal) : chal[i] \in MFAChallenge
    BY Lengths DEF AccessInv, TypeOK
<1>2. PICK c \in MFAChallenge : c = chal[n]
    BY <1>1
<1>3. PICK m : m = [c EXCEPT !.open = FALSE]
    OBVIOUS
<1>4. m \in MFAChallenge /\ ~m.open /\ m.uses = c.uses /\ m.raced = c.raced
    BY <1>3 DEF MFAChallenge
<1>5. /\ chal' = [chal EXCEPT ![n] = [chal[n] EXCEPT !.open = FALSE]]
      /\ m = [chal[n] EXCEPT !.open = FALSE]
    BY <1>2, <1>3
<1>6. /\ chal' \in Seq(MFAChallenge) /\ Len(chal') = Len(chal)
      /\ \A i \in 1 .. Len(chal) : chal'[i] = IF i = n THEN m ELSE chal[i]
    BY <1>1, <1>4, <1>5, ExceptSeq
<1> QED
    BY <1>1, <1>2, <1>4, <1>6

-----------------------------------------------------------------------------
(* The writes. *)

LEMMA FlushKeeps ==
    ASSUME AccessInv, NEW call \in Calls, Flush(call)
    PROVE  AccessInv'
<1>1. /\ TypeOK /\ UNCHANGED <<workload, tables, held>> /\ UNCHANGED tables
      /\ held' \in [SdkClients -> 0 .. Len(pairs)] /\ job \in [Calls -> Job]
      /\ UNCHANGED <<users, grants, pairs, black, keys>> /\ writer = NoCall
      /\ chal \in Seq(MFAChallenge) /\ Len(pairs) \in Nat /\ Len(chal) \in Nat
      /\ \A n \in 1 .. Len(chal) : chal[n] \in MFAChallenge
  <2>1. TypeOK /\ held \in [SdkClients -> 0 .. Len(pairs)] /\ job \in [Calls -> Job]
        /\ chal \in Seq(MFAChallenge)
    BY CallKnown DEF TypeOK
  <2>2. UNCHANGED <<workload, tables, held>> /\ writer = NoCall
    BY DEF Flush
  <2>3. UNCHANGED <<users, grants, pairs, black, keys>> /\ UNCHANGED tables
    BY <2>2 DEF tables
  <2> QED
    BY <2>1, <2>2, <2>3, Lengths
<1>2. PICK j \in Job : j = job[call] /\ JobOK(j) /\ j.at = "flush" /\ ~j.late
    BY CallKnown DEF Flush, JobOK, Listed, Job
<1>3. CASE Taken(job[call])
    BY <1>1, <1>2, <1>3, GiveKeeps DEF Flush, Answer
<1>4. CASE ~Taken(job[call])
  <2>1. /\ ~Taken(j) /\ chal' = Removed(j) /\ writer' = call
        /\ job' = [job EXCEPT ![call] = [j EXCEPT !.at = "commit"]]
    BY <1>2, <1>4 DEF Flush
  <2>2. /\ chal' \in Seq(MFAChallenge) /\ Len(chal') = Len(chal)
        /\ \A i \in 1 .. Len(chal) : /\ chal[i] \in MFAChallenge /\ chal'[i] \in MFAChallenge
                                     /\ chal'[i].uses = chal[i].uses
                                     /\ chal'[i].raced = chal[i].raced
                                     /\ chal'[i].open => chal[i].open
        /\ j.op = "finish" => ~chal'[j.num].open
    <3>1. CASE j.op \in {"finish", "hardware_register_finish"}
        <4>1. chal' = [chal EXCEPT ![j.num].open = FALSE]
            BY <2>1, <3>1 DEF Removed
        <4>2. j.num \in 1 .. Len(chal)
            BY <1>2, <3>1 DEF JobOK, InHand, Holding
        <4> QED
            BY <4>1, <4>2, Closing
    <3>2. CASE j.op \notin {"finish", "hardware_register_finish"}
        BY <1>1, <2>1, <3>2 DEF Removed
    <3> QED
        BY <3>1, <3>2
  <2> DEFINE d == [j EXCEPT !.at = "commit"]
  <2>3. PICK new : new = d
    OBVIOUS
  <2>4. /\ new \in Job /\ new.at = "commit" /\ new.op = j.op /\ new.num = j.num
        /\ new.client = j.client /\ new.who = j.who /\ new.to = j.to /\ new.role = j.role
        /\ new.permission = j.permission /\ new.late = j.late /\ new.dead = j.dead
        /\ new.answer = j.answer
    BY <2>3 DEF Job, Waits
  <2>5. InHand(new)'
    BY <1>1, <1>2, <2>2, <2>4 DEF JobOK, InHand, Holding
  <2>6. Listed(new)'
    BY <1>1, <1>2, <2>1, <2>2, <2>4 DEF JobOK, Listed, Holding, Taken
  <2>7. Disabled(new)'
    BY <1>1, <1>2, <2>4 DEF JobOK, Disabled, Holding
  <2>8. JobOK(new)'
    BY <1>1, <1>2, <2>4, <2>5, <2>6, <2>7 DEF JobOK
  <2>9. Grown
    <3>1. \A i \in 1 .. Len(chal) : chal[i].open \in BOOLEAN /\ chal'[i].open \in BOOLEAN
        BY <2>2 DEF MFAChallenge
    <3> QED
        BY <1>1, <2>2, <3>1, Staying
  <2>10. job' = [job EXCEPT ![call] = new]
    BY <2>1, <2>3
  <2>11. \A k \in Calls : \A i : Pending(k, i)' => Pending(k, i)
    BY <1>1, <1>2, <2>4, <2>10 DEF Pending, Holding
  <2>12. Challenged'
    BY <2>2, <2>11, ChallengedKept
  <2> QED
    BY <1>1, <2>1, <2>2, <2>4, <2>8, <2>9, <2>10, <2>12, CallStep
<1> QED
    BY <1>3, <1>4

LEMMA FailKeeps ==
    ASSUME AccessInv, NEW call \in Calls, Fail(call)
    PROVE  AccessInv'
    BY GiveKeeps DEF Fail, Answer

LEMMA ReceiveKeeps ==
    ASSUME AccessInv, NEW call \in Calls, Receive(call)
    PROVE  AccessInv'
<1>1. /\ TypeOK /\ UNCHANGED <<workload, tables, chal, writer>> /\ UNCHANGED tables
      /\ held \in [SdkClients -> 0 .. Len(pairs)] /\ Len(pairs) \in Nat
      /\ UNCHANGED <<users, grants, pairs, black, keys>>
    BY CallKnown, Lengths DEF Receive, tables
<1>2. PICK j \in Job : j = job[call] /\ JobOK(j) /\ j.at = "done"
    BY CallKnown DEF Receive
<1>3. j.client \in SdkClients /\ j.num \in 0 .. Len(pairs) /\ 0 \in 0 .. Len(pairs)
    BY <1>1, <1>2 DEF JobOK
<1>4. held' \in [SdkClients -> 0 .. Len(pairs)]
  <2>1. PICK n \in 0 .. Len(pairs) : held' = [held EXCEPT ![j.client] = n]
    <3> DEFINE kept == CASE j.answer = "served" /\ j.op \in {"login", "refresh", "finish"} -> j.num
                         [] j.answer = "served" /\ j.op = "logout" -> 0
                         [] workload.cli -> 0
                         [] OTHER -> held[j.client]
               lost == IF workload.cli THEN 0 ELSE held[j.client]
    <3>1. kept \in 0 .. Len(pairs)
        BY <1>1, <1>3
    <3>2. lost \in 0 .. Len(pairs)
        BY <1>1, <1>3
    <3>3. held' = [held EXCEPT ![j.client] = kept] \/ held' = [held EXCEPT ![j.client] = lost]
        BY <1>2 DEF Receive
    <3> HIDE DEF kept, lost
    <3> QED
        BY <3>1, <3>2, <3>3
  <2> QED
    BY <1>1, <1>3, <2>1
<1>5. PICK new \in Job : /\ new = NoJob /\ new.at = "idle" /\ new.answer = "none"
                         /\ ~new.late /\ ~new.dead
    BY NoJobIsJob
<1>6. InHand(new)' /\ Listed(new)' /\ Disabled(new)'
    BY <1>5 DEF InHand, Listed, Disabled, Holding
<1>7. JobOK(new)'
    BY <1>5, <1>6 DEF JobOK
<1>8. job' = [job EXCEPT ![call] = new]
    BY <1>5 DEF Receive
<1> QED
    BY <1>1, <1>2, <1>4, <1>5, <1>7, <1>8, QuietStep DEF Holding

-----------------------------------------------------------------------------
(* What happens to the clients and to the server. *)

LEMMA CloseKeeps ==
    ASSUME AccessInv, NEW client \in SdkClients, Close(client)
    PROVE  AccessInv'
<1>1. /\ TypeOK /\ UNCHANGED <<workload, users, grants, pairs, black, keys, chal, writer, job>>
      /\ Len(pairs) \in Nat /\ held \in [SdkClients -> 0 .. Len(pairs)]
      /\ held' = [held EXCEPT ![client] = 0]
    BY Lengths DEF AccessInv, TypeOK, Close, tables
<1>2. TypeOK'
    BY <1>1 DEF TypeOK
<1>3. Jobs'
    BY <1>1 DEF AccessInv, Jobs, JobOK, InHand, Listed, Disabled, Holding
<1>4. Refreshed' /\ Challenged'
    BY <1>1 DEF AccessInv, Refreshed, RefreshOnce, Challenged, Pending, Holding
<1> QED
    BY <1>2, <1>3, <1>4 DEF AccessInv

LEMMA ChallengeExpiresKeeps ==
    ASSUME AccessInv, NEW n \in DOMAIN chal, ChallengeExpires(n)
    PROVE  AccessInv'
<1>1. /\ TypeOK /\ UNCHANGED <<workload, users, grants, pairs, black, keys, held, writer, job>>
      /\ UNCHANGED tables
      /\ chal' = [chal EXCEPT ![n].open = FALSE]
    BY DEF AccessInv, ChallengeExpires, tables
<1>2. /\ chal' \in Seq(MFAChallenge) /\ Len(chal') = Len(chal) /\ Len(chal) \in Nat
      /\ \A i \in 1 .. Len(chal) : /\ chal[i] \in MFAChallenge /\ chal'[i] \in MFAChallenge
                                   /\ chal'[i].uses = chal[i].uses
                                   /\ chal'[i].raced = chal[i].raced
                                   /\ chal'[i].open => chal[i].open
  <2>1. n \in 1 .. Len(chal)
    BY <1>1, Lengths
  <2> QED
    BY <1>1, <2>1, Closing
<1>3. TypeOK'
    BY <1>1, <1>2 DEF TypeOK
<1>4. Grown
  <2>1. \A i \in 1 .. Len(chal) : chal[i].open \in BOOLEAN /\ chal'[i].open \in BOOLEAN
    BY <1>2 DEF MFAChallenge
  <2>2. TypeOK /\ UNCHANGED tables
    BY <1>1
  <2> QED
    BY <1>2, <2>1, <2>2, Staying
<1>5. Jobs'
  <2> SUFFICES ASSUME NEW k \in Calls
               PROVE  JobOK(job[k])'
    BY DEF Jobs
  <2>1. PICK j \in Job : j = job[k] /\ j = job'[k] /\ JobOK(j)
    BY <1>1, CallKnown
  <2>2. JobOK(j)'
    BY <1>1, <1>3, <1>4, <2>1, OthersKeep
  <2> QED
    BY <2>1, <2>2
<1>6. Refreshed'
    BY <1>1 DEF AccessInv, Refreshed, RefreshOnce
<1>7. Challenged'
  <2>1. \A k \in Calls : \A i : Pending(k, i)' => Pending(k, i)
    BY <1>1 DEF Pending, Holding
  <2> QED
    BY <1>2, <2>1, ChallengedKept
<1> QED
    BY <1>3, <1>5, <1>6, <1>7 DEF AccessInv

LEMMA CrashKeeps ==
    ASSUME AccessInv, Crash
    PROVE  AccessInv'
<1>1. /\ TypeOK /\ UNCHANGED <<workload, users, grants, pairs, black, keys>>
      /\ held' = [c \in SdkClients |-> IF Ready(c) THEN held[c] ELSE 0]
      /\ job' = [k \in Calls |-> NoJob] /\ writer' = NoCall
      /\ chal' = [n \in DOMAIN chal |-> [chal[n] EXCEPT !.open = FALSE]]
    BY DEF AccessInv, Crash, tables
<1>2. /\ DOMAIN chal = 1 .. Len(chal) /\ Len(chal) \in Nat
      /\ \A i \in 1 .. Len(chal) : chal[i] \in MFAChallenge
    BY Lengths DEF AccessInv
<1>3. \A i \in 1 .. Len(chal) : /\ chal'[i] \in MFAChallenge
                                /\ chal'[i].uses = chal[i].uses
                                /\ chal'[i].raced = chal[i].raced
                                /\ ~chal'[i].open
  <2> SUFFICES ASSUME NEW i \in 1 .. Len(chal)
               PROVE  /\ chal'[i] \in MFAChallenge
                      /\ chal'[i].uses = chal[i].uses
                      /\ chal'[i].raced = chal[i].raced
                      /\ ~chal'[i].open
    OBVIOUS
  <2>1. PICK c \in MFAChallenge : c = chal[i]
    BY <1>2
  <2>2. chal'[i] = [c EXCEPT !.open = FALSE]
    BY <1>1, <1>2, <2>1
  <2> QED
    BY <2>1, <2>2 DEF MFAChallenge
<1>4. chal' \in Seq(MFAChallenge) /\ Len(chal') = Len(chal)
  <2>1. DOMAIN chal' = 1 .. Len(chal)
    BY <1>1, <1>2
  <2>2. chal' \in [1 .. Len(chal) -> MFAChallenge]
    BY <1>1, <1>2, <1>3
  <2>3. chal' \in Seq(MFAChallenge)
    BY <1>2, <2>2, SeqDef
  <2> QED
    BY <1>2, <2>1, <2>3, LenProperties
<1>5. TypeOK'
  <2>1. job' \in [Calls -> Job]
    BY <1>1, NoJobIsJob
  <2>2. {k \in Calls : job'[k].at = "commit"} = {writer'} \ {NoCall}
    BY <1>1, NoJobIsJob
  <2>3. held' \in [SdkClients -> 0 .. Len(pairs)]
    BY <1>1, Lengths DEF TypeOK
  <2> QED
    BY <1>1, <1>4, <2>1, <2>2, <2>3 DEF TypeOK
<1>6. Jobs'
  <2> SUFFICES ASSUME NEW k \in Calls
               PROVE  JobOK(job[k])'
    BY DEF Jobs
  <2>1. PICK j \in Job : j = job'[k] /\ j.at = "idle" /\ j.answer = "none" /\ ~j.late /\ ~j.dead
    BY <1>1, NoJobIsJob
  <2>2. InHand(j)' /\ Listed(j)' /\ Disabled(j)'
    BY <2>1 DEF InHand, Listed, Disabled, Holding
  <2>3. JobOK(j)'
    BY <2>1, <2>2 DEF JobOK
  <2> QED
    BY <2>1, <2>3
<1>7. Refreshed'
    BY <1>1 DEF AccessInv, Refreshed, RefreshOnce
<1>8. Challenged'
  <2>1. \A k \in Calls : \A i : ~Pending(k, i)'
    BY <1>1, NoJobIsJob DEF Pending, Holding
  <2> QED
    BY <1>3, <1>4, <2>1, ChallengedKept
<1> QED
    BY <1>5, <1>6, <1>7, <1>8 DEF AccessInv

-----------------------------------------------------------------------------
(* What a call leaves behind when it commits. *)

Session == [user : Users, parent : Nat, revoked : BOOLEAN]

LEMMA IssuedPairs ==
    ASSUME TypeOK, NEW j \in Job, JobOK(j), j.at = "commit"
    PROVE  /\ Issued(j) \in Seq(Session)
           /\ Len(Issued(j)) = Len(pairs) \/ Len(Issued(j)) = Len(pairs) + 1
           /\ \A n \in 1 .. Len(pairs) :
                 /\ Issued(j)[n].parent = pairs[n].parent /\ Issued(j)[n].user = pairs[n].user
                 /\ Issued(j)[n].revoked <=> pairs[n].revoked \/ (j.op = "refresh" /\ n = j.num)
           /\ Len(Issued(j)) = Len(pairs) + 1 =>
                 /\ Issued(j)[Len(pairs) + 1].parent = IF j.op = "refresh" THEN j.num ELSE 0
                 /\ Issued(j)[Len(pairs) + 1].user = j.who /\ ~Issued(j)[Len(pairs) + 1].revoked
           /\ Len(Issued(j)) = Len(pairs) + 1 <=> j.op \in {"login", "finish", "refresh"}
           /\ j.op \notin {"login", "finish", "refresh"} => Issued(j) = pairs
<1>1. /\ pairs \in Seq(Session) /\ Len(pairs) \in Nat /\ j.who \in Users
      /\ \A n \in 1 .. Len(pairs) : pairs[n] \in Session
    BY Lengths DEF TypeOK, Session, JobOK
<1>2. CASE j.op \in {"login", "finish"}
  <2>1. PICK p \in Session : p = Pair(j.who, 0) /\ p.parent = 0 /\ p.user = j.who /\ ~p.revoked
    <3> DEFINE p == [user |-> j.who, parent |-> 0, revoked |-> FALSE]
    <3>1. p \in Session /\ p = Pair(j.who, 0) /\ p.parent = 0 /\ p.user = j.who /\ ~p.revoked
        BY <1>1 DEF Pair, Session
    <3> HIDE DEF p
    <3> QED
        BY <3>1
  <2>2. Issued(j) = Append(pairs, p)
    BY <1>2, <2>1 DEF Issued
  <2> QED
    BY <1>1, <1>2, <2>1, <2>2, AppendProperties
<1>3. CASE j.op = "refresh"
  <2>1. j.num \in 1 .. Len(pairs) /\ j.num \in Nat
    BY <1>1, <1>3 DEF JobOK, InHand, Holding
  <2>2. PICK p \in Session : p = Pair(j.who, j.num) /\ p.parent = j.num /\ p.user = j.who /\ ~p.revoked
    <3> DEFINE p == [user |-> j.who, parent |-> j.num, revoked |-> FALSE]
    <3>1. p \in Session /\ p = Pair(j.who, j.num) /\ p.parent = j.num /\ p.user = j.who /\ ~p.revoked
        BY <1>1, <2>1 DEF Pair, Session
    <3> HIDE DEF p
    <3> QED
        BY <3>1
  <2>3. PICK n \in 1 .. Len(pairs) : n = j.num
    BY <2>1
  <2>4. PICK c \in Session : c = pairs[n]
    BY <1>1
  <2>5. PICK m : m = [pairs[n] EXCEPT !.revoked = TRUE]
    OBVIOUS
  <2>6. m \in Session /\ m.parent = pairs[n].parent /\ m.user = pairs[n].user /\ m.revoked
    BY <2>4, <2>5 DEF Session
  <2>7. PICK q : q = [pairs EXCEPT ![n].revoked = TRUE]
    OBVIOUS
  <2>8. q = [pairs EXCEPT ![n] = [pairs[n] EXCEPT !.revoked = TRUE]]
    BY <2>7
  <2>9. /\ q \in Seq(Session) /\ Len(q) = Len(pairs)
        /\ \A i \in 1 .. Len(pairs) : q[i] = IF i = n THEN m ELSE pairs[i]
    BY <1>1, <2>5, <2>6, <2>8, ExceptSeq
  <2>10. Issued(j) = Append(q, p)
    BY <1>3, <2>2, <2>3, <2>7 DEF Issued
  <2>11. /\ Issued(j) \in Seq(Session) /\ Len(Issued(j)) = Len(pairs) + 1
         /\ \A i \in 1 .. Len(pairs) : Issued(j)[i] = q[i]
         /\ Issued(j)[Len(pairs) + 1] = p
    BY <2>9, <2>10, AppendProperties
  <2>12. \A i \in 1 .. Len(pairs) :
            /\ Issued(j)[i].parent = pairs[i].parent /\ Issued(j)[i].user = pairs[i].user
            /\ Issued(j)[i].revoked <=> pairs[i].revoked \/ i = n
    <3>1. Issued(j)[n] = m
        BY <2>9, <2>11
    <3>2. \A i \in 1 .. Len(pairs) : i # n => Issued(j)[i] = pairs[i]
        BY <2>9, <2>11
    <3> QED
        BY <2>6, <3>1, <3>2
  <2> QED
    BY <1>1, <1>3, <2>2, <2>3, <2>11, <2>12
<1>4. CASE j.op \notin {"login", "finish", "refresh"}
    BY <1>1, <1>4 DEF Issued
<1> QED
    BY <1>2, <1>3, <1>4

LEMMA BlacklistedNames ==
    ASSUME TypeOK, NEW j \in Job, JobOK(j), j.at = "commit"
    PROVE  /\ Blacklisted(j) \subseteq {"access", "refresh"} \X (1 .. Len(pairs))
           /\ black \subseteq Blacklisted(j)
           /\ j.op = "refresh" => <<"refresh", j.num>> \in Blacklisted(j) /\ <<"refresh", j.num>> \notin black
           /\ \A n \in 1 .. Len(pairs) :
                 <<"refresh", n>> \in Blacklisted(j) <=> <<"refresh", n>> \in black \/ (j.op = "refresh" /\ n = j.num)
    BY DEF TypeOK, Blacklisted, JobOK, InHand, Listed, Holding

LEMMA GrantedRows ==
    ASSUME TypeOK, NEW j \in Job, JobOK(j), j.at = "commit"
    PROVE  /\ Granted(j) \in Seq(Grant) /\ Len(grants) <= Len(Granted(j))
           /\ \A g \in 1 .. Len(grants) :
                 /\ Granted(j)[g].user = grants[g].user /\ Granted(j)[g].role = grants[g].role
                 /\ Granted(j)[g].permission = grants[g].permission
                 /\ Granted(j)[g].live \in BOOLEAN
<1>1. /\ grants \in Seq(Grant) /\ Len(grants) \in Nat
      /\ \A g \in 1 .. Len(grants) : grants[g] \in Grant
    BY Lengths DEF TypeOK
<1>2. CASE j.op = "grant_record_access"
  <2>1. j.role \in Roles \cup {NoRole} /\ j.permission \in Permissions /\ j.to \in Users \cup {NoUser}
    BY <1>2 DEF JobOK, InHand, Holding, Job
  <2>2. PICK r \in Grant : r = [user |-> j.to, role |-> j.role, permission |-> j.permission, live |-> TRUE]
    BY <2>1 DEF Grant
  <2>3. Granted(j) = Append(grants, r)
    BY <1>2, <2>2 DEF Granted
  <2>4. /\ Granted(j) \in Seq(Grant) /\ Len(Granted(j)) = Len(grants) + 1
        /\ \A g \in 1 .. Len(grants) : Granted(j)[g] = grants[g]
    BY <1>1, <2>3, AppendProperties
  <2> QED
    BY <1>1, <2>4 DEF Grant
<1>3. CASE j.op = "revoke_record_access"
  <2>1. PICK n \in 1 .. Len(grants) : n = j.num
    BY <1>3 DEF JobOK, InHand, Holding
  <2>2. PICK c \in Grant : c = grants[n]
    BY <1>1
  <2>3. PICK m : m = [grants[n] EXCEPT !.live = FALSE]
    OBVIOUS
  <2>4. /\ m \in Grant /\ m.user = grants[n].user /\ m.role = grants[n].role
        /\ m.permission = grants[n].permission
    BY <2>2, <2>3 DEF Grant
  <2>5. PICK q : q = [grants EXCEPT ![n].live = FALSE]
    OBVIOUS
  <2>6. q = [grants EXCEPT ![n] = [grants[n] EXCEPT !.live = FALSE]]
    BY <2>5
  <2>7. /\ q \in Seq(Grant) /\ Len(q) = Len(grants)
        /\ \A i \in 1 .. Len(grants) : q[i] = IF i = n THEN m ELSE grants[i]
    BY <1>1, <2>3, <2>4, <2>6, ExceptSeq
  <2>8. Granted(j) = q
    BY <1>3, <2>1, <2>5 DEF Granted
  <2> QED
    BY <1>1, <2>4, <2>7, <2>8 DEF Grant
<1>4. CASE j.op \notin {"grant_record_access", "revoke_record_access"}
  <2>1. Granted(j) = grants
    BY <1>4 DEF Granted
  <2> QED
    BY <1>1, <2>1 DEF Grant
<1> QED
    BY <1>2, <1>3, <1>4

LEMMA UsersChanged ==
    ASSUME TypeOK, NEW j \in Job, JobOK(j), j.at = "commit"
    PROVE  /\ UsersAfter(j) \in [Users -> Person]
           /\ \A u \in Users : ~users[u].active => ~UsersAfter(j)[u].active
<1>1. users \in [Users -> Person] /\ j.who \in Users /\ j.role \in Given \cup {NoRole}
    BY DEF TypeOK, JobOK, Job
<1>2. CASE j.op = "register"
  <2>1. PICK r \in Given \cup {NoRole} : r = "reader"
    BY DEF Given
  <2>2. UsersAfter(j) = [users EXCEPT ![j.who].role = r]
    BY <1>2, <2>1 DEF UsersAfter
  <2> QED
    BY <1>1, <2>2 DEF Person
<1>3. CASE j.op = "set_user_role"
    BY <1>1, <1>3 DEF UsersAfter, Person
<1>4. CASE j.op \in {"delete_user", "disable_user"}
    BY <1>1, <1>4 DEF UsersAfter, Person
<1>5. CASE j.op \notin {"register", "set_user_role", "delete_user", "disable_user"}
    BY <1>1, <1>5 DEF UsersAfter
<1> QED
    BY <1>2, <1>3, <1>4, <1>5

Counted(j) == IF j.op = "finish" THEN [chal EXCEPT ![j.num].uses = @ + 1] ELSE chal

LEMMA UsesCounted ==
    ASSUME AccessInv, NEW j \in Job, JobOK(j), j.at = "commit", chal' = Counted(j)
    PROVE  /\ chal' \in Seq(MFAChallenge) /\ Len(chal') = Len(chal)
           /\ \A i \in 1 .. Len(chal) :
                 /\ chal'[i].open = chal[i].open /\ chal'[i].raced = chal[i].raced
                 /\ chal[i].uses \in Nat
                 /\ chal'[i].uses = IF j.op = "finish" /\ i = j.num THEN chal[i].uses + 1 ELSE chal[i].uses
           /\ j.op = "finish" => j.num \in 1 .. Len(chal) /\ ~chal[j.num].open
<1>1. /\ chal \in Seq(MFAChallenge) /\ Len(chal) \in Nat
      /\ \A i \in 1 .. Len(chal) : chal[i] \in MFAChallenge
    BY Lengths DEF AccessInv, TypeOK
<1>2. CASE j.op = "finish"
  <2>1. j.num \in 1 .. Len(chal) /\ ~chal[j.num].open
    BY <1>2 DEF JobOK, InHand, Listed, Holding
  <2>2. PICK n \in 1 .. Len(chal) : n = j.num
    BY <2>1
  <2>3. PICK c \in MFAChallenge : c = chal[n]
    BY <1>1
  <2>4. PICK m : m = [chal[n] EXCEPT !.uses = chal[n].uses + 1]
    OBVIOUS
  <2>5. /\ m \in MFAChallenge /\ m.open = chal[n].open /\ m.raced = chal[n].raced
        /\ m.uses = chal[n].uses + 1
    BY <2>3, <2>4 DEF MFAChallenge
  <2>6. chal' = [chal EXCEPT ![n] = [chal[n] EXCEPT !.uses = chal[n].uses + 1]]
    BY <1>2, <2>2 DEF Counted
  <2>7. /\ chal' \in Seq(MFAChallenge) /\ Len(chal') = Len(chal)
        /\ \A i \in 1 .. Len(chal) : chal'[i] = IF i = n THEN m ELSE chal[i]
    BY <1>1, <2>4, <2>5, <2>6, ExceptSeq
  <2> QED
    BY <1>1, <1>2, <2>1, <2>2, <2>5, <2>7 DEF MFAChallenge
<1>3. CASE j.op # "finish"
    BY <1>1, <1>3 DEF MFAChallenge, Counted
<1> QED
    BY <1>2, <1>3

(* The answer of a call that commits carries the number of its new pair. *)
LEMMA ServedKept ==
    ASSUME TypeOK, NEW j \in Job, JobOK(j), j.at = "commit",
           Len(pairs') \in Nat,
           NEW new, new = [Done(j, "served") EXCEPT !.num = IF pairs' # pairs THEN Len(pairs') ELSE 0]
    PROVE  new \in Job /\ new.at = "done" /\ JobOK(new)'
<1>1. PICK d \in Job : d = Done(j, "served")
    BY DoneIsJob DEF Answer
<1>2. /\ d.at = "done" /\ d.op = j.op /\ d.answer = "served" /\ d.client = j.client
      /\ d.who = j.who /\ d.late = j.late /\ ~d.dead
    BY <1>1, DoneIsJob DEF Answer
<1>3. PICK n \in Nat : n = IF pairs' # pairs THEN Len(pairs') ELSE 0
    OBVIOUS
<1>4. n \in 0 .. Len(pairs')
    BY <1>3
<1>5. new = [d EXCEPT !.num = n]
    BY <1>1, <1>3
<1>6. /\ new \in Job /\ new.at = "done" /\ new.op = j.op /\ new.answer = "served" /\ new.num = n
      /\ new.client = j.client /\ new.who = j.who /\ new.late = j.late /\ ~new.dead
    BY <1>2, <1>5 DEF Job
<1>7. j.client \in SdkClients /\ ~j.late
    BY DEF JobOK, Listed, Job
<1>8. InHand(new)' /\ Listed(new)' /\ Disabled(new)'
    BY <1>6, <1>7 DEF InHand, Listed, Disabled, Holding
<1> QED
    BY <1>4, <1>6, <1>7, <1>8 DEF JobOK

LEMMA CommitKeeps ==
    ASSUME AccessInv, NEW call \in Calls, Commit(call)
    PROVE  AccessInv'
<1>1. TypeOK /\ Refreshed /\ Challenged
    BY DEF AccessInv
<1>2. PICK j \in Job : j = job[call] /\ JobOK(j) /\ j.at = "commit"
    BY CallKnown DEF Commit
<1>3. /\ pairs' = Issued(j) /\ black' = Blacklisted(j) /\ grants' = Granted(j)
      /\ users' = UsersAfter(j)
      /\ keys' = IF j.op = "hardware_register_finish" THEN keys \cup {j.who} ELSE keys
      /\ chal' = Counted(j)
      /\ writer' = NoCall /\ workload' = workload /\ held' = held
      /\ job' = [job EXCEPT ![call] = [Done(j, "served") EXCEPT !.num = IF pairs' # pairs THEN Len(pairs') ELSE 0]]
  <2>1. writer = call
    BY <1>2, CallKnown
  <2> QED
    BY <1>2, <2>1 DEF Commit, Release, Counted
<1>4. /\ Len(pairs) \in Nat /\ Len(chal) \in Nat /\ Len(grants) \in Nat
      /\ job \in [Calls -> Job] /\ held \in [SdkClients -> 0 .. Len(pairs)]
      /\ workload \in Workloads /\ keys \subseteq Users
      /\ \A k \in Calls : k # call => job[k].at # "commit"
    BY <1>1, <1>2, Lengths DEF TypeOK
<1>5. /\ pairs' \in Seq(Session) /\ Len(pairs') \in Nat
      /\ Len(pairs') = Len(pairs) \/ Len(pairs') = Len(pairs) + 1
      /\ \A n \in 1 .. Len(pairs) :
            /\ pairs'[n].parent = pairs[n].parent /\ pairs'[n].user = pairs[n].user
            /\ pairs'[n].revoked <=> pairs[n].revoked \/ (j.op = "refresh" /\ n = j.num)
      /\ Len(pairs') = Len(pairs) + 1 =>
            /\ pairs'[Len(pairs) + 1].parent = IF j.op = "refresh" THEN j.num ELSE 0
            /\ ~pairs'[Len(pairs) + 1].revoked
    BY <1>1, <1>2, <1>3, <1>4, IssuedPairs
<1>6. /\ black' \subseteq {"access", "refresh"} \X (1 .. Len(pairs)) /\ black \subseteq black'
      /\ j.op = "refresh" => <<"refresh", j.num>> \in black' /\ <<"refresh", j.num>> \notin black
      /\ \A n \in 1 .. Len(pairs) :
            <<"refresh", n>> \in black' <=> <<"refresh", n>> \in black \/ (j.op = "refresh" /\ n = j.num)
    BY <1>1, <1>2, <1>3, BlacklistedNames
<1>7. grants' \in Seq(Grant) /\ Len(grants) <= Len(grants')
    BY <1>1, <1>2, <1>3, GrantedRows
<1>8. /\ users' \in [Users -> Person]
      /\ \A u \in Users : ~users[u].active => ~users'[u].active
    BY <1>1, <1>2, <1>3, UsersChanged
<1>9. /\ chal' \in Seq(MFAChallenge) /\ Len(chal') = Len(chal)
      /\ \A i \in 1 .. Len(chal) :
            /\ chal'[i].open = chal[i].open /\ chal'[i].raced = chal[i].raced
            /\ chal[i].uses \in Nat
            /\ chal'[i].uses = IF j.op = "finish" /\ i = j.num THEN chal[i].uses + 1 ELSE chal[i].uses
      /\ j.op = "finish" => j.num \in 1 .. Len(chal) /\ ~chal[j.num].open
  <2>1. JobOK(j) /\ j.at = "commit"
    BY <1>2
  <2>2. chal' = Counted(j)
    BY <1>3
  <2> QED
    BY <2>1, <2>2, UsesCounted
<1>10. Grown
  <2>1. Len(pairs) <= Len(pairs')
    BY <1>4, <1>5
  <2>2. Len(chal) <= Len(chal')
    BY <1>4, <1>9
  <2>3. \A i \in 1 .. Len(chal) : chal'[i].open = chal[i].open
    BY <1>9
  <2> QED
    BY <1>5, <1>6, <1>7, <1>8, <2>1, <2>2, <2>3 DEF Grown
<1>11. grants # <<>> => grants' # <<>>
  <2>1. grants = <<>> <=> Len(grants) = 0
    BY <1>1, Lengths
  <2>2. grants' = <<>> => Len(grants') = 0
    BY EmptySeq
  <2> QED
    BY <1>4, <1>7, <2>1, <2>2
<1>12. PICK new \in Job : /\ job' = [job EXCEPT ![call] = new]
                          /\ new.at = "done" /\ JobOK(new)'
    BY <1>1, <1>2, <1>3, <1>5, <1>11, ServedKept
<1>13. \A k \in Calls : job'[k] = IF k = call THEN new ELSE job[k]
    BY <1>4, <1>12
<1>14. TypeOK'
  <2>1. {k \in Calls : job'[k].at = "commit"} = {writer'} \ {NoCall}
    BY <1>3, <1>4, <1>12, <1>13
  <2>2. black' \subseteq {"access", "refresh"} \X (1 .. Len(pairs'))
    BY <1>4, <1>5, <1>6
  <2>3. held' \in [SdkClients -> 0 .. Len(pairs')]
    BY <1>3, <1>4, <1>5
  <2>4. keys' \subseteq Users
    BY <1>2, <1>3, <1>4 DEF JobOK
  <2>5. job' \in [Calls -> Job]
    BY <1>4, <1>12
  <2> QED
    BY <1>3, <1>4, <1>5, <1>7, <1>8, <1>9, <2>1, <2>2, <2>3, <2>4, <2>5 DEF TypeOK, Session
<1>15. Jobs'
  <2> SUFFICES ASSUME NEW k \in Calls
               PROVE  JobOK(job[k])'
    BY DEF Jobs
  <2>1. CASE k = call
    BY <1>12, <1>13, <2>1
  <2>2. CASE k # call
    <3>1. PICK i \in Job : i = job[k] /\ i = job'[k] /\ JobOK(i) /\ i.at # "commit"
        BY <1>4, <1>13, <2>2, CallKnown
    <3>2. JobOK(i)'
        BY <1>1, <1>10, <1>14, <3>1, OthersKeep
    <3> QED
        BY <3>1, <3>2
  <2> QED
    BY <2>1, <2>2
<1>16. Refreshed'
  <2>1. \A n \in 1 .. Len(pairs') :
            \/ n \in 1 .. Len(pairs) /\ pairs'[n].parent = pairs[n].parent
            \/ n = Len(pairs) + 1 /\ pairs'[n].parent = IF j.op = "refresh" THEN j.num ELSE 0
    BY <1>4, <1>5
  <2>2. \A n \in 1 .. Len(pairs') : pairs'[n].parent # 0 => <<"refresh", pairs'[n].parent>> \in black'
    BY <1>1, <1>6, <2>1 DEF Refreshed
  <2>3. DOMAIN pairs = 1 .. Len(pairs) /\ DOMAIN pairs' = 1 .. Len(pairs')
    BY <1>1, <1>5, Lengths, LenProperties
  <2>4. \A n, m \in 1 .. Len(pairs') :
            n # m /\ pairs'[n].parent = pairs'[m].parent => pairs'[n].parent = 0
    BY <1>1, <1>6, <2>1, <2>3 DEF Refreshed, RefreshOnce
  <2>5. \A n \in 1 .. Len(pairs') : pairs'[n].revoked <=> <<"refresh", n>> \in black'
    <3>1. \A n \in 1 .. Len(pairs) : pairs'[n].revoked <=> <<"refresh", n>> \in black'
        BY <1>1, <1>5, <1>6 DEF Refreshed
    <3>2. ASSUME Len(pairs') = Len(pairs) + 1
          PROVE  ~pairs'[Len(pairs) + 1].revoked /\ <<"refresh", Len(pairs) + 1>> \notin black'
        BY <1>4, <1>5, <1>6, <3>2
    <3>3. \A n \in 1 .. Len(pairs') : n \in 1 .. Len(pairs) \/ (n = Len(pairs) + 1 /\ Len(pairs') = n)
        BY <1>4, <1>5
    <3> QED
        BY <3>1, <3>2, <3>3
  <2> QED
    BY <2>2, <2>3, <2>4, <2>5 DEF Refreshed, RefreshOnce
<1>17. Challenged'
  <2>1. \A k \in Calls : \A i : Pending(k, i)' => Pending(k, i) /\ k # call
    BY <1>12, <1>13 DEF Pending, Holding
  <2>2. j.op = "finish" => Pending(call, j.num)
    BY <1>2 DEF Pending, Holding
  <2> SUFFICES ASSUME NEW i \in 1 .. Len(chal)
               PROVE  /\ chal'[i].uses # 0 => ~chal'[i].open
                      /\ \/ chal'[i].raced
                         \/ /\ chal'[i].uses <= 1
                            /\ \A k \in Calls : Pending(k, i)' =>
                                  chal'[i].uses = 0 /\ \A l \in Calls : Pending(l, i)' => l = k
    BY <1>9 DEF Challenged
  <2>3. CASE j.op = "finish" /\ i = j.num
    BY <1>1, <1>9, <2>1, <2>2, <2>3 DEF Challenged
  <2>4. CASE ~(j.op = "finish" /\ i = j.num)
    BY <1>1, <1>9, <2>1, <2>4 DEF Challenged
  <2> QED
    BY <2>3, <2>4
<1> QED
    BY <1>14, <1>15, <1>16, <1>17 DEF AccessInv

-----------------------------------------------------------------------------
(* The theorems. *)

LEMMA InitHolds == Init => AccessInv
<1> SUFFICES ASSUME Init
             PROVE  AccessInv
    OBVIOUS
<1>1. /\ workload \in Workloads /\ grants = <<>> /\ pairs = <<>> /\ chal = <<>>
      /\ black = {} /\ keys = {} /\ held = [c \in SdkClients |-> 0] /\ writer = NoCall
      /\ job = [k \in Calls |-> NoJob]
    BY DEF Init
<1>2. /\ grants \in Seq(Grant) /\ pairs \in Seq([user : Users, parent : Nat, revoked : BOOLEAN])
      /\ chal \in Seq(MFAChallenge) /\ Len(pairs) = 0 /\ Len(chal) = 0
      /\ DOMAIN pairs = {}
    BY <1>1, EmptySeq
<1>3. users \in [Users -> Person]
  <2> DEFINE r(u) == CASE u \notin workload.users -> NoRole
                       [] u = Admin -> "admin"
                       [] u = Owner -> "writer"
                       [] OTHER -> "reader"
  <2>1. \A u \in Users : r(u) \in Given \cup {NoRole}
    BY DEF Given, NoRole
  <2>2. users = [u \in Users |-> [role |-> r(u), active |-> TRUE]]
    BY DEF Init
  <2> HIDE DEF r
  <2> QED
    BY <2>1, <2>2 DEF Person
<1>4. TypeOK
  <2>1. held \in [SdkClients -> 0 .. Len(pairs)]
    BY <1>1, <1>2
  <2>2. job \in [Calls -> Job] /\ {k \in Calls : job[k].at = "commit"} = {writer} \ {NoCall}
    BY <1>1, NoJobIsJob
  <2> QED
    BY <1>1, <1>2, <1>3, <2>1, <2>2 DEF TypeOK
<1>5. Jobs
  <2> SUFFICES ASSUME NEW k \in Calls
               PROVE  JobOK(job[k])
    BY DEF Jobs
  <2>1. job[k].at = "idle" /\ job[k].answer = "none" /\ ~job[k].late /\ ~job[k].dead
    BY <1>1, NoJobIsJob
  <2>2. InHand(job[k]) /\ Listed(job[k]) /\ Disabled(job[k])
    BY <2>1 DEF InHand, Listed, Disabled, Holding
  <2> QED
    BY <2>1, <2>2 DEF JobOK
<1>6. Refreshed
    BY <1>2 DEF Refreshed, RefreshOnce
<1>7. Challenged
    BY <1>2 DEF Challenged
<1> QED
    BY <1>4, <1>5, <1>6, <1>7 DEF AccessInv

LEMMA StepKeeps == AccessInv /\ [Next]_vars => AccessInv'
<1> SUFFICES ASSUME AccessInv, [Next]_vars
             PROVE  AccessInv'
    OBVIOUS
<1>1. workload.callers \subseteq Users
    BY AccessAssumption DEF AccessInv, TypeOK
<1>2. ASSUME NEW call \in Calls, NEW client \in SdkClients, NEW u \in workload.callers,
             Register(call, client, u) \/ Login(call, client, u) \/ AskKeyless(call, client, u)
                \/ AuthenticateBegin(call, client, u)
      PROVE  AccessInv'
    BY <1>1, <1>2, RegisterKeeps, LoginKeeps, KeylessKeeps, AuthenticateBeginKeeps
<1>3. ASSUME NEW call \in Calls, NEW client \in SdkClients,
             \/ \E n \in DOMAIN pairs : Refresh(call, client, n)
             \/ \E n \in DOMAIN chal : AuthenticateFinish(call, client, n)
             \/ \E op \in workload.ops : Ask(call, client, op)
             \/ Logout(call, client)
      PROVE  AccessInv'
    BY <1>3, RefreshKeeps, AuthenticateFinishKeeps, AskKeeps, LogoutKeeps
<1>4. ASSUME NEW call \in Calls,
             \/ CheckBlacklist(call) \/ LoadUser(call) \/ Decide(call)
             \/ GrantRecordAccess(call) \/ RevokeRecordAccess(call) \/ SetUserRole(call) \/ DisableUser(call)
             \/ RegisterBegin(call) \/ RegisterFinish(call)
             \/ Flush(call) \/ Commit(call) \/ Fail(call) \/ Receive(call)
      PROVE  AccessInv'
    BY <1>4, CheckBlacklistKeeps, LoadUserKeeps, DecideKeeps, GrantRecordAccessKeeps,
       RevokeRecordAccessKeeps, SetUserRoleKeeps, DisableUserKeeps, RegisterBeginKeeps,
       RegisterFinishKeeps, FlushKeeps, CommitKeeps, FailKeeps, ReceiveKeeps
<1>5. ASSUME NEW client \in SdkClients, Close(client)
      PROVE  AccessInv'
    BY <1>5, CloseKeeps
<1>6. ASSUME NEW n \in DOMAIN chal, ChallengeExpires(n)
      PROVE  AccessInv'
    BY <1>6, ChallengeExpiresKeeps
<1>7. CASE Crash
    BY <1>7, CrashKeeps
<1>8. CASE UNCHANGED vars
  <2>1. UNCHANGED <<workload, users, grants, pairs, black, keys, chal, held, writer, job>>
    BY <1>8 DEF vars, tables
  <2> QED
    BY <2>1 DEF AccessInv, TypeOK, Jobs, JobOK, InHand, Listed, Disabled, Holding,
       Refreshed, RefreshOnce, Challenged, Pending
<1> QED
    BY <1>2, <1>3, <1>4, <1>5, <1>6, <1>7, <1>8 DEF Next

LEMMA Invariance == Spec => []AccessInv
    BY InitHolds, StepKeeps, PTL DEF Spec

(* Every variable keeps its type, and the lock is held by the one call that
   has written and not committed (get_session). *)
THEOREM AccessTypes == Spec => []TypeOK
<1>1. AccessInv => TypeOK
    BY DEF AccessInv
<1> QED
    BY <1>1, Invariance, PTL

(* A refresh token gives one pair at most, however often and by however many
   requests it is presented (rotate_refresh_token). *)
THEOREM RefreshGivesOnePair == Spec => []RefreshOnce
<1>1. AccessInv => RefreshOnce
    BY DEF AccessInv, Refreshed
<1> QED
    BY <1>1, Invariance, PTL

(* A call whose token was revoked before it came is never served
   (get_current_user). *)
THEOREM RevokedAreRefused == Spec => []RevokedRefused
<1>1. AccessInv => RevokedRefused
    BY DEF AccessInv, Jobs, JobOK, Listed, RevokedRefused
<1> QED
    BY <1>1, Invariance, PTL

(* A challenge gives one pair, or two calls had it in hand together
   (hardware_authenticate_finish). *)
THEOREM ChallengeGivesOnePair == Spec => []ChallengeOnce
<1>1. AccessInv => ChallengeOnce
  <2> SUFFICES ASSUME AccessInv, NEW n \in DOMAIN chal
               PROVE  chal[n].uses <= 1 \/ chal[n].raced
    BY DEF ChallengeOnce
  <2> QED
    BY Lengths DEF AccessInv, Challenged
<1> QED
    BY <1>1, Invariance, PTL

(* A call that is let through is let through by what its route decides. *)
LEMMA LetThroughByRoute ==
    ASSUME AccessInv, [Next]_vars, NEW k \in Calls, LetThrough(k)
    PROVE  \/ Decide(k) \/ RegisterBegin(k) \/ RegisterFinish(k)
           \/ GrantRecordAccess(k) \/ RevokeRecordAccess(k) \/ SetUserRole(k) \/ DisableUser(k)
<1>1. /\ job \in [Calls -> Job] /\ job[k].at = "handler" /\ job[k].answer = "none"
      /\ job'[k].at = "flush" \/ job'[k].answer = "served"
    BY CallKnown DEF LetThrough, JobOK, TypeOK
<1>2. ASSUME NEW c \in Calls, NEW new, job' = [job EXCEPT ![c] = new] PROVE c = k
    BY <1>1, <1>2
<1>3. job' # job
    BY <1>1
<1>4. ASSUME NEW c \in Calls, NEW op, NEW new, Begin(c, op, new) PROVE FALSE
    BY <1>1, <1>2, <1>4 DEF Begin
<1>5. ASSUME NEW c \in Calls, NEW client \in SdkClients, NEW u,
             Register(c, client, u) \/ Login(c, client, u) \/ AskKeyless(c, client, u)
                \/ AuthenticateBegin(c, client, u)
      PROVE  FALSE
    BY <1>4, <1>5 DEF Register, Login, AskKeyless, AuthenticateBegin, Enter
<1>6. ASSUME NEW c \in Calls, NEW client \in SdkClients,
             \/ \E n \in DOMAIN pairs : Refresh(c, client, n)
             \/ \E n \in DOMAIN chal : AuthenticateFinish(c, client, n)
             \/ \E op \in workload.ops : Ask(c, client, op)
             \/ Logout(c, client)
      PROVE  FALSE
    BY <1>4, <1>6 DEF Refresh, AuthenticateFinish, Ask, Logout, Enter
<1>7. ASSUME NEW c \in Calls, CheckBlacklist(c) \/ LoadUser(c) PROVE FALSE
  <2>1. c = k
    BY <1>2, <1>7 DEF CheckBlacklist, LoadUser, Give
  <2> QED
    BY <1>1, <1>7, <2>1 DEF CheckBlacklist, LoadUser
<1>8. ASSUME NEW c \in Calls, Flush(c) \/ Commit(c) \/ Fail(c) \/ Receive(c) PROVE FALSE
  <2>1. c = k
    BY <1>2, <1>8 DEF Flush, Commit, Fail, Receive, Give
  <2> QED
    BY <1>1, <1>8, <2>1 DEF Flush, Commit, Fail, Receive
<1>9. ASSUME NEW c \in Calls,
             \/ Decide(c) \/ RegisterBegin(c) \/ RegisterFinish(c)
             \/ GrantRecordAccess(c) \/ RevokeRecordAccess(c) \/ SetUserRole(c) \/ DisableUser(c)
      PROVE  c = k
    BY <1>2, <1>9 DEF Decide, RegisterBegin, RegisterFinish, GrantRecordAccess, RevokeRecordAccess,
       SetUserRole, DisableUser, Proceed, Give
<1>10. ~Crash
    BY <1>1, NoJobIsJob DEF Crash
<1>11. /\ \A client \in SdkClients : ~Close(client)
       /\ \A n \in DOMAIN chal : ~ChallengeExpires(n)
       /\ ~UNCHANGED vars
    BY <1>3 DEF Close, ChallengeExpires, vars
<1> QED
    BY <1>5, <1>6, <1>7, <1>8, <1>9, <1>10, <1>11 DEF Next

(* A route that changes nothing serves a disabled user as the owner, or for a
   grant that stands. *)
LEMMA DecideThrough ==
    ASSUME AccessInv, NEW k \in Calls, Decide(k), job[k].dead, LetThrough(k)
    PROVE  RolelessFor(job[k])
<1>1. PICK j \in Job : j = job[k] /\ ~j.may.active /\ j.op \in Plain
    BY CallKnown DEF LetThrough, JobOK, Disabled, Decide
<1>2. Decision(j) \in Answer /\ job'[k] = Done(j, Decision(j))
    BY <1>1, DecisionIsAnswer, CallKnown DEF Decide, Give, TypeOK
<1>3. Decision(j) = "served"
    BY <1>2, DoneIsJob DEF LetThrough
<1>4. \A action : ~has_permission(j.may, action)
    BY <1>1, Powerless
<1>5. CASE j.op \in {"read", "delete"}
  <2> DEFINE r == Reaches(grants, Owner, j.who, j.may, j.op)
             M == Matching(grants, j.who, j.may.role, j.op)
  <2>1. r \in {"yes", "no", "raises"}
    BY DEF Reaches, can_access
  <2>2. Decision(j) = [yes |-> "served", no |-> "refused", raises |-> "failed"][r]
    BY <1>5 DEF Decision
  <2>3. r = "yes"
    BY <1>3, <2>1, <2>2
  <2>4. j.who = Owner \/ can_access(grants, j.who, j.may.role, j.op) = "yes"
    BY <1>4, <2>3 DEF Reaches
  <2>5. can_access(grants, j.who, j.may.role, j.op) = "yes" => Cardinality(M) = 1
    BY DEF can_access
  <2>6. Cardinality(M) = 1 => M # {}
    BY FS_EmptySet
  <2> QED
    BY <1>1, <1>5, <2>4, <2>5, <2>6 DEF RolelessFor, OwnersOps
<1>6. CASE j.op = "grants"
    BY <1>1, <1>3, <1>4, <1>6 DEF Decision, ListsGrants, Managers, RolelessFor, OwnersOps
<1>7. CASE j.op \in {"admin", "audit", "create", "find"}
    BY <1>3, <1>4, <1>7 DEF Decision, Searching
<1> QED
    BY <1>1, <1>5, <1>6, <1>7 DEF Plain

(* A route that writes goes on only if it may. *)
LEMMA ProceedThrough ==
    ASSUME AccessInv, NEW k \in Calls, NEW op, NEW may, NEW new, Proceed(k, op, may, new), LetThrough(k)
    PROVE  may /\ job[k].op = op
<1>1. Done(job[k], "refused").at = "done" /\ Done(job[k], "refused").answer = "refused"
    BY CallKnown, DoneIsJob DEF Answer
<1>2. ~may => job'[k] = Done(job[k], "refused")
    BY CallKnown DEF Proceed, Give, TypeOK
<1> QED
    BY <1>1, <1>2 DEF Proceed, LetThrough

(* A disabled user is let through nowhere for what a role permits: only as the
   owner of the record, for a grant that stands and fits the user, or where no
   flag is looked at (has_permission, can_access, the routes of hardware tokens). *)
THEOREM DisabledKeepNoRole == Spec => DisabledHaveNoRole
<1>1. AccessInv /\ [Next]_vars =>
        \A k \in Calls : job[k].dead /\ LetThrough(k) => RolelessFor(job[k])
  <2> SUFFICES ASSUME AccessInv, [Next]_vars, NEW k \in Calls, job[k].dead, LetThrough(k)
               PROVE  RolelessFor(job[k])
    OBVIOUS
  <2>1. \A action : ~has_permission(job[k].may, action)
    BY CallKnown, Powerless DEF LetThrough, JobOK, Disabled
  <2>2. CASE Decide(k)
    BY <2>2, DecideThrough
  <2>3. CASE RegisterBegin(k)
    BY <2>3 DEF RegisterBegin, RolelessFor
  <2>4. CASE RegisterFinish(k)
    BY <2>4, ProceedThrough DEF RegisterFinish, RolelessFor
  <2>5. CASE GrantRecordAccess(k)
    <3>1. Managers(job[k]) /\ job[k].op = "grant_record_access"
        BY <2>5, ProceedThrough DEF GrantRecordAccess
    <3> QED
        BY <2>1, <3>1 DEF Managers, RolelessFor, OwnersOps
  <2>6. CASE RevokeRecordAccess(k)
    <3>1. Managers(job[k]) /\ job[k].op = "revoke_record_access"
        BY <2>6, ProceedThrough DEF RevokeRecordAccess
    <3> QED
        BY <2>1, <3>1 DEF Managers, RolelessFor, OwnersOps
  <2>7. CASE SetUserRole(k)
    BY <2>1, <2>7, ProceedThrough DEF SetUserRole
  <2>8. CASE DisableUser(k)
    BY <2>1, <2>8, ProceedThrough DEF DisableUser
  <2> QED
    BY <2>2, <2>3, <2>4, <2>5, <2>6, <2>7, <2>8, LetThroughByRoute
<1> QED
    BY <1>1, Invariance, PTL DEF Spec, DisabledHaveNoRole

-----------------------------------------------------------------------------
(* Sessions: what the promise sees of a step. *)

Shown == <<Handed, Spent, Withdrawn, Standings>>

LEMMA TablesShown ==
    ASSUME UNCHANGED tables
    PROVE  UNCHANGED <<Handed, Spent, Withdrawn>>
    BY DEF tables, Handed, Spent, Withdrawn

(* A call goes on and is seen as before, is turned down, or is served. *)
LEMMA CallShown ==
    ASSUME TypeOK, NEW call \in Calls, NEW new, job' = [job EXCEPT ![call] = new],
           UNCHANGED <<Handed, Spent, Withdrawn>>,
           \/ Standing(new) = Standing(job[call])
           \/ Standing(new) = Promise!Stranger
           \/ /\ Standing(job[call]).is = "good"
              /\ Standing(new) = [Standing(job[call]) EXCEPT !.is = "served"]
    PROVE  [Promise!Next]_Shown
<1>1. /\ \A k \in Calls : Standings[k] = Standing(job[k])
      /\ \A k \in Calls : Standings'[k] = IF k = call THEN Standing(new) ELSE Standings[k]
      /\ Standings = [k \in Calls |-> Standings[k]] /\ Standings' = [k \in Calls |-> Standings'[k]]
    BY DEF TypeOK, Standings
<1>2. CASE Standing(new) = Standing(job[call])
  <2>1. Standings' = Standings
    BY <1>1, <1>2
  <2> QED
    BY <2>1 DEF Shown
<1>3. CASE Standing(new) = Promise!Stranger
  <2>1. Standings' = [k \in Calls |-> IF k \in {call} THEN Promise!Stranger ELSE Standings[k]]
    BY <1>1, <1>3
  <2>2. Promise!Leave({call}) /\ {call} \in SUBSET Calls
    BY <2>1 DEF Promise!Leave
  <2> QED
    BY <2>2 DEF Promise!Next
<1>4. CASE /\ Standing(job[call]).is = "good"
           /\ Standing(new) = [Standing(job[call]) EXCEPT !.is = "served"]
  <2>1. Standings' = [Standings EXCEPT ![call] = [Standings[call] EXCEPT !.is = "served"]]
    BY <1>1, <1>4
  <2>2. Promise!Serve(call)
    BY <1>1, <1>4, <2>1 DEF Promise!Serve
  <2> QED
    BY <2>2 DEF Promise!Next
<1> QED
    BY <1>2, <1>3, <1>4

(* An answer serves a call whose token was good, or turns it down. *)
LEMMA DoneShown ==
    ASSUME NEW j \in Job, NEW answer \in Answer, j.at \notin {"idle", "done"},
           answer = "served" => ~j.late
    PROVE  \/ Standing(Done(j, answer)) = Standing(j)
           \/ Standing(Done(j, answer)) = Promise!Stranger
           \/ /\ Standing(j).is = "good"
              /\ Standing(Done(j, answer)) = [Standing(j) EXCEPT !.is = "served"]
<1>1. PICK d \in Job : /\ d = Done(j, answer) /\ d.at = "done" /\ d.answer = answer
                       /\ answer = "served" => d.who = j.who /\ d.op = j.op
    BY DoneIsJob
<1>2. CASE j.op \in Open \/ answer # "served"
    BY <1>1, <1>2 DEF Standing, Promise!Stranger
<1>3. CASE j.op \notin Open /\ answer = "served"
  <2>1. Standing(d) = [of |-> j.who, is |-> "served"]
    BY <1>1, <1>3 DEF Standing
  <2>2. Standing(j) = [of |-> j.who, is |-> "good"]
    BY <1>3 DEF Standing, Job
  <2> QED
    BY <1>1, <2>1, <2>2
<1> QED
    BY <1>2, <1>3

LEMMA GiveShown ==
    ASSUME AccessInv, NEW call \in Calls, NEW answer \in Answer, Give(call, answer), UNCHANGED tables,
           job[call].at \notin {"idle", "done"}, answer = "served" => ~job[call].late
    PROVE  [Promise!Next]_Shown
<1>1. TypeOK /\ job[call] \in Job
    BY CallKnown
<1>2. PICK new : new = Done(job[call], answer)
    OBVIOUS
<1>3. job' = [job EXCEPT ![call] = new]
    BY <1>2 DEF Give
<1>4. \/ Standing(new) = Standing(job[call]) \/ Standing(new) = Promise!Stranger
      \/ /\ Standing(job[call]).is = "good"
         /\ Standing(new) = [Standing(job[call]) EXCEPT !.is = "served"]
    BY <1>1, <1>2, DoneShown
<1> QED
    BY <1>1, <1>3, <1>4, TablesShown, CallShown

(* A request that needs no token is not seen. *)
LEMMA EnterShown ==
    ASSUME AccessInv, NEW call \in Calls, NEW new \in Job, UNCHANGED tables,
           job' = [job EXCEPT ![call] = new], job[call].at = "idle",
           new.op \in Open \/ (new.at = "done" /\ new.answer # "served")
    PROVE  [Promise!Next]_Shown
<1>1. Standing(new) = Standing(job[call]) /\ TypeOK
    BY CallKnown DEF Standing
<1> QED
    BY <1>1, TablesShown, CallShown

LEMMA EnteredShown ==
    ASSUME AccessInv, UNCHANGED tables, NEW call \in Calls, NEW client \in SdkClients,
           NEW op \in Open, NEW u \in Users, NEW n \in Nat, NEW answer \in Answer,
           \/ Begin(call, op, Came("flush", client, op, u, n))
           \/ Begin(call, op, Done(Came("flush", client, op, u, n), answer))
    PROVE  [Promise!Next]_Shown
<1>1. PICK came \in Job : came = Came("flush", client, op, u, n) /\ came.op = op
    BY CameIsJob DEF AccessInv, Waits
<1>2. PICK over \in Job : /\ over = Done(came, answer)
                          /\ over.op \in Open \/ (over.at = "done" /\ over.answer # "served")
    BY <1>1, DoneIsJob
<1>3. PICK new \in Job : /\ job' = [job EXCEPT ![call] = new] /\ job[call].at = "idle"
                         /\ new.op \in Open \/ (new.at = "done" /\ new.answer # "served")
    BY <1>1, <1>2 DEF Begin
<1> QED
    BY <1>3, EnterShown

LEMMA TokenlessShown ==
    ASSUME AccessInv, UNCHANGED tables, NEW call \in Calls, NEW client \in SdkClients,
           NEW op \in Open, NEW u \in Users, NEW n \in Nat, NEW ok, Enter(call, client, op, u, n, ok)
    PROVE  [Promise!Next]_Shown
<1>1. \/ Begin(call, op, Came("flush", client, op, u, n))
      \/ Begin(call, op, Done(Came("flush", client, op, u, n), "refused"))
    BY DEF Enter
<1> QED
    BY <1>1, EnteredShown DEF Answer

LEMMA OpenShown ==
    ASSUME AccessInv, NEW call \in Calls, NEW client \in SdkClients, NEW u \in Users,
           Register(call, client, u) \/ Login(call, client, u) \/ AskKeyless(call, client, u)
              \/ AuthenticateBegin(call, client, u)
    PROVE  [Promise!Next]_Shown
<1>1. CASE Register(call, client, u)
    BY <1>1, TokenlessShown DEF Register, Open
<1>2. CASE Login(call, client, u)
    BY <1>2, TokenlessShown DEF Login, Open
<1>3. CASE AskKeyless(call, client, u)
    BY <1>3, TokenlessShown DEF AskKeyless, Open
<1>4. CASE AuthenticateBegin(call, client, u)
  <2>1. PICK answer \in Answer : Begin(call, "begin", Done(Came("flush", client, "begin", u, 0), answer))
    BY <1>4 DEF AuthenticateBegin, Answer
  <2>2. UNCHANGED tables /\ "begin" \in Open
    BY <1>4 DEF AuthenticateBegin, Open
  <2> QED
    BY <2>1, <2>2, EnteredShown
<1> QED
    BY <1>1, <1>2, <1>3, <1>4

LEMMA ReturningShown ==
    ASSUME AccessInv, NEW call \in Calls, NEW client \in SdkClients,
           \/ \E n \in DOMAIN pairs : Refresh(call, client, n)
           \/ \E n \in DOMAIN chal : AuthenticateFinish(call, client, n)
           \/ Logout(call, client)
    PROVE  [Promise!Next]_Shown
<1>0. TypeOK /\ Len(pairs) \in Nat /\ Len(chal) \in Nat /\ held \in [SdkClients -> 0 .. Len(pairs)]
    BY CallKnown, Lengths
<1>1. ASSUME NEW n \in DOMAIN pairs, Refresh(call, client, n) PROVE [Promise!Next]_Shown
  <2>1. n \in Nat /\ pairs[n].user \in Users
    BY <1>0, Lengths
  <2>2. PICK ok : Enter(call, client, "refresh", pairs[n].user, n, ok)
    BY <1>1 DEF Refresh
  <2> QED
    BY <1>1, <2>1, <2>2, TokenlessShown DEF Refresh, Open
<1>2. ASSUME NEW n \in DOMAIN chal, AuthenticateFinish(call, client, n) PROVE [Promise!Next]_Shown
  <2>1. n \in Nat /\ chal[n].user \in Users
    BY <1>0, Lengths DEF MFAChallenge
  <2>2. PICK ok : Enter(call, client, "finish", chal[n].user, n, ok)
    BY <1>2 DEF AuthenticateFinish
  <2> QED
    BY <1>2, <2>1, <2>2, TokenlessShown DEF AuthenticateFinish, Open
<1>3. CASE Logout(call, client)
  <2>1. PICK n \in 1 .. Len(pairs) : n = held[client]
    BY <1>0, <1>3 DEF Logout
  <2>2. n \in Nat /\ pairs[n].user \in Users
    BY <1>0, Lengths
  <2>3. PICK u \in Users : u = pairs[n].user
    BY <2>2
  <2>4. \/ Enter(call, client, "logout", u, n, TRUE)
        \/ Begin(call, "logout", Done(Came("flush", client, "logout", u, n), "served"))
    BY <1>3, <2>1, <2>3 DEF Logout
  <2>5. UNCHANGED tables /\ "logout" \in Open /\ "served" \in Answer
    BY <1>3 DEF Logout, Open, Answer
  <2> QED
    BY <2>2, <2>4, <2>5, TokenlessShown, EnteredShown
<1> QED
    BY <1>1, <1>2, <1>3

(* A call comes with a token, as the user it was issued to, and found revoked
   exactly if it is. *)
LEMMA AskShown ==
    ASSUME AccessInv, NEW call \in Calls, NEW client \in SdkClients, NEW op, Ask(call, client, op)
    PROVE  [Promise!Next]_Shown
<1>1. /\ TypeOK /\ UNCHANGED tables /\ held \in [SdkClients -> 0 .. Len(pairs)] /\ held[client] # 0
      /\ op \in Asked /\ Len(pairs) \in Nat
    BY CallKnown, Lengths DEF Ask
<1>2. PICK n \in 1 .. Len(pairs) : n = held[client]
    BY <1>1
<1>3. PICK u \in Users : u = pairs[n].user
    BY <1>1, Lengths
<1>4. PICK came \in Job : /\ came = Came("blacklist", client, op, u, n)
                          /\ came.at = "blacklist" /\ came.op = op /\ came.who = u
                          /\ came.answer = "none"
    BY <1>1, CameIsJob DEF Waits
<1>5. PICK revoked \in BOOLEAN : revoked <=> <<"access", n>> \in black
    OBVIOUS
<1>6. PICK j : j = [came EXCEPT !.late = revoked]
    OBVIOUS
<1>7. j \in Job /\ j.at = "blacklist" /\ j.op = op /\ j.who = u /\ j.late = revoked
    BY <1>4, <1>6 DEF Job
<1>8. /\ job[call].at = "idle"
      /\ \/ \E why \in {"busy", "refused"} : job' = [job EXCEPT ![call] = Done(j, why)]
         \/ job' = [job EXCEPT ![call] = j]
  <2> DEFINE c == [Came("blacklist", client, op, u, n) EXCEPT !.late = <<"access", n>> \in black]
  <2>1. (<<"access", n>> \in black) = revoked
    BY <1>5
  <2>2. c = j
    BY <2>1, <1>4, <1>6
  <2>3. \/ \E why \in {"busy", "refused"} : Begin(call, op, Done(c, why))
        \/ \E a \in Addresses : Begin(call, op, IF InRule(a, Rule) THEN c ELSE Done(c, "refused"))
    BY <1>2, <1>3 DEF Ask
  <2> HIDE DEF c
  <2>4. \/ \E why \in {"busy", "refused"} : Begin(call, op, Done(j, why))
        \/ Begin(call, op, j) \/ Begin(call, op, Done(j, "refused"))
    BY <2>2, <2>3
  <2> QED
    BY <2>4 DEF Begin
<1>9. Standing(job[call]) = Promise!Stranger
    BY <1>8 DEF Standing, Promise!Stranger
<1>10. CASE \E why \in {"busy", "refused"} : job' = [job EXCEPT ![call] = Done(j, why)]
  <2>1. PICK why \in {"busy", "refused"} : job' = [job EXCEPT ![call] = Done(j, why)]
    BY <1>10
  <2>2. PICK new : new = Done(j, why)
    OBVIOUS
  <2>3. Standing(new) = Promise!Stranger
    BY <1>7, <2>2, DoneIsJob DEF Standing, Promise!Stranger, Answer
  <2> QED
    BY <1>1, <2>1, <2>2, <2>3, TablesShown, CallShown
<1>11. CASE job' = [job EXCEPT ![call] = j] /\ op \in Open
  <2>1. Standing(j) = Promise!Stranger
    BY <1>7, <1>11 DEF Standing, Promise!Stranger
  <2> QED
    BY <1>1, <1>11, <2>1, TablesShown, CallShown
<1>12. CASE job' = [job EXCEPT ![call] = j] /\ op \notin Open
  <2>1. Standing(j) = [of |-> u, is |-> IF revoked THEN "revoked" ELSE "good"]
    BY <1>7, <1>12 DEF Standing
  <2>2. n \in DOMAIN pairs /\ Handed[n].user = u /\ DOMAIN Handed = DOMAIN pairs
    BY <1>1, <1>3, Lengths DEF Handed
  <2>3. revoked <=> n \in Withdrawn
    BY <1>5, <2>2 DEF Withdrawn
  <2>4. /\ Standings[call] = Promise!Stranger
        /\ Standings' = [Standings EXCEPT ![call] = Standing(j)]
    BY <1>1, <1>9, <1>12 DEF TypeOK, Standings
  <2>5. Standing(j) = [of |-> Handed[n].user, is |-> IF n \in Withdrawn THEN "revoked" ELSE "good"]
    BY <2>1, <2>2, <2>3
  <2>6. Promise!Come(call, n)
    BY <2>4, <2>5 DEF Promise!Come
  <2> QED
    BY <1>1, <2>2, <2>6, TablesShown DEF Promise!Next
<1> QED
    BY <1>8, <1>10, <1>11, <1>12

(* A call that waits, and goes on to wait, is seen as before. *)
LEMMA WaitsShown ==
    ASSUME AccessInv, NEW call \in Calls, NEW new, job' = [job EXCEPT ![call] = new], UNCHANGED tables,
           job[call].at \notin {"idle", "done"}, new.at \notin {"idle", "done"},
           new.op = job[call].op, new.who = job[call].who, new.late = job[call].late
    PROVE  [Promise!Next]_Shown
<1>1. Standing(new) = Standing(job[call]) /\ TypeOK
    BY CallKnown DEF Standing
<1> QED
    BY <1>1, TablesShown, CallShown

LEMMA TokenCheckShown ==
    ASSUME AccessInv, NEW call \in Calls, CheckBlacklist(call) \/ LoadUser(call)
    PROVE  [Promise!Next]_Shown
<1>1. UNCHANGED tables /\ TypeOK /\ job[call] \in Job /\ job[call].at \in {"blacklist", "user"}
    BY CallKnown DEF CheckBlacklist, LoadUser
<1>2. CASE Give(call, "refused")
    BY <1>1, <1>2, GiveShown DEF Answer
<1>3. CASE ~Give(call, "refused")
  <2>1. CASE CheckBlacklist(call)
    <3>1. PICK new : new = [job[call] EXCEPT !.at = "user", !.num = 0]
      OBVIOUS
    <3>2. job' = [job EXCEPT ![call] = new]
      BY <1>3, <2>1, <3>1 DEF CheckBlacklist
    <3>3. /\ new.at = "user" /\ new.op = job[call].op
          /\ new.who = job[call].who /\ new.late = job[call].late
      BY <1>1, <3>1 DEF Job
    <3> QED
      BY <1>1, <3>2, <3>3, WaitsShown
  <2>2. CASE LoadUser(call)
    <3>1. PICK new : new = [job[call] EXCEPT !.at = "handler", !.may = users[job[call].who]]
      OBVIOUS
    <3>2. job' = [job EXCEPT ![call] = new]
      BY <2>2, <3>1 DEF LoadUser
    <3>3. /\ new.at = "handler" /\ new.op = job[call].op
          /\ new.who = job[call].who /\ new.late = job[call].late
      BY <1>1, <3>1 DEF Job
    <3> QED
      BY <1>1, <3>2, <3>3, WaitsShown
  <2> QED
    BY <2>1, <2>2
<1> QED
    BY <1>2, <1>3

LEMMA DecideShown ==
    ASSUME AccessInv, NEW call \in Calls, Decide(call)
    PROVE  [Promise!Next]_Shown
<1>1. /\ TypeOK /\ job[call] \in Job /\ JobOK(job[call]) /\ job[call].at = "handler"
      /\ job[call].op \in Plain /\ UNCHANGED tables
    BY CallKnown DEF Decide
<1>2. ~job[call].late
    BY <1>1 DEF JobOK, Listed
<1>3. PICK answer \in Answer : answer = Decision(job[call])
    BY <1>1, DecisionIsAnswer
<1> QED
    BY <1>1, <1>2, <1>3, GiveShown DEF Decide

LEMMA ProceedShown ==
    ASSUME AccessInv, NEW call \in Calls, NEW on, UNCHANGED tables, job[call].at = "handler",
           Give(call, "refused") \/ job' = [job EXCEPT ![call] = on],
           on.at = "flush", on.op = job[call].op, on.who = job[call].who, on.late = job[call].late
    PROVE  [Promise!Next]_Shown
<1>1. CASE Give(call, "refused")
    BY <1>1, GiveShown DEF Answer
<1>2. CASE job' = [job EXCEPT ![call] = on]
    BY <1>2, WaitsShown
<1> QED
    BY <1>1, <1>2

(* What a route asks for does not change whose call it is. *)
LEMMA RoutesShown ==
    ASSUME AccessInv, NEW call \in Calls,
           GrantRecordAccess(call) \/ RevokeRecordAccess(call) \/ SetUserRole(call) \/ DisableUser(call)
              \/ RegisterFinish(call)
    PROVE  [Promise!Next]_Shown
<1>1. job[call] \in Job
    BY CallKnown
<1>2. CASE GrantRecordAccess(call)
  <2>1. PICK permission \in Permissions, u \in workload.grantees \cup {NoUser},
         role \in workload.roles \cup {NoRole} :
            Proceed(call, "grant_record_access", Managers(job[call]) /\ (u = NoUser \/ Registered(u)),
                    [job[call] EXCEPT !.to = u, !.role = role, !.permission = permission])
    BY <1>2 DEF GrantRecordAccess
  <2>2. PICK on : on = [[job[call] EXCEPT !.to = u, !.role = role, !.permission = permission] EXCEPT !.at = "flush"]
    OBVIOUS
  <2>3. /\ on.at = "flush" /\ on.op = job[call].op /\ on.who = job[call].who
        /\ on.late = job[call].late
    BY <1>1, <2>2 DEF Job
  <2>4. Give(call, "refused") \/ job' = [job EXCEPT ![call] = on]
    BY <2>1, <2>2 DEF Proceed
  <2>5. job[call].at = "handler" /\ UNCHANGED tables
    BY <2>1 DEF Proceed
  <2> QED
    BY <2>3, <2>4, <2>5, ProceedShown
<1>3. CASE RevokeRecordAccess(call)
  <2>1. PICK g \in DOMAIN grants :
            Proceed(call, "revoke_record_access", Managers(job[call]), [job[call] EXCEPT !.num = g])
    BY <1>3 DEF RevokeRecordAccess
  <2>2. PICK on : on = [[job[call] EXCEPT !.num = g] EXCEPT !.at = "flush"]
    OBVIOUS
  <2>3. /\ on.at = "flush" /\ on.op = job[call].op /\ on.who = job[call].who
        /\ on.late = job[call].late
    BY <1>1, <2>2 DEF Job
  <2>4. Give(call, "refused") \/ job' = [job EXCEPT ![call] = on]
    BY <2>1, <2>2 DEF Proceed
  <2>5. job[call].at = "handler" /\ UNCHANGED tables
    BY <2>1 DEF Proceed
  <2> QED
    BY <2>3, <2>4, <2>5, ProceedShown
<1>4. CASE SetUserRole(call)
  <2>1. PICK u \in Users, role \in workload.roles :
            Proceed(call, "set_user_role", has_permission(job[call].may, "admin"),
                    [job[call] EXCEPT !.to = u, !.role = role])
    BY <1>4 DEF SetUserRole
  <2>2. PICK on : on = [[job[call] EXCEPT !.to = u, !.role = role] EXCEPT !.at = "flush"]
    OBVIOUS
  <2>3. /\ on.at = "flush" /\ on.op = job[call].op /\ on.who = job[call].who
        /\ on.late = job[call].late
    BY <1>1, <2>2 DEF Job
  <2>4. Give(call, "refused") \/ job' = [job EXCEPT ![call] = on]
    BY <2>1, <2>2 DEF Proceed
  <2>5. job[call].at = "handler" /\ UNCHANGED tables
    BY <2>1 DEF Proceed
  <2> QED
    BY <2>3, <2>4, <2>5, ProceedShown
<1>5. CASE DisableUser(call)
  <2>1. PICK u \in Users, op \in {"delete_user", "disable_user"} :
            Proceed(call, op, has_permission(job[call].may, "admin"), [job[call] EXCEPT !.to = u])
    BY <1>5 DEF DisableUser
  <2>2. PICK on : on = [[job[call] EXCEPT !.to = u] EXCEPT !.at = "flush"]
    OBVIOUS
  <2>3. /\ on.at = "flush" /\ on.op = job[call].op /\ on.who = job[call].who
        /\ on.late = job[call].late
    BY <1>1, <2>2 DEF Job
  <2>4. Give(call, "refused") \/ job' = [job EXCEPT ![call] = on]
    BY <2>1, <2>2 DEF Proceed
  <2>5. job[call].at = "handler" /\ UNCHANGED tables
    BY <2>1 DEF Proceed
  <2> QED
    BY <2>3, <2>4, <2>5, ProceedShown
<1>6. CASE RegisterFinish(call)
  <2>1. PICK n \in DOMAIN chal, verified \in BOOLEAN :
            Proceed(call, "hardware_register_finish",
                    chal[n].open /\ chal[n].user = job[call].who /\ verified, [job[call] EXCEPT !.num = n])
    BY <1>6 DEF RegisterFinish
  <2>2. PICK on : on = [[job[call] EXCEPT !.num = n] EXCEPT !.at = "flush"]
    OBVIOUS
  <2>3. /\ on.at = "flush" /\ on.op = job[call].op /\ on.who = job[call].who
        /\ on.late = job[call].late
    BY <1>1, <2>2 DEF Job
  <2>4. Give(call, "refused") \/ job' = [job EXCEPT ![call] = on]
    BY <2>1, <2>2 DEF Proceed
  <2>5. job[call].at = "handler" /\ UNCHANGED tables
    BY <2>1 DEF Proceed
  <2> QED
    BY <2>3, <2>4, <2>5, ProceedShown
<1> QED
    BY <1>2, <1>3, <1>4, <1>5, <1>6

LEMMA AnsweringShown ==
    ASSUME AccessInv, NEW call \in Calls, RegisterBegin(call) \/ Fail(call) \/ Flush(call) \/ Receive(call)
    PROVE  [Promise!Next]_Shown
<1>1. TypeOK /\ UNCHANGED tables /\ job[call] \in Job /\ JobOK(job[call])
    BY CallKnown DEF RegisterBegin, Fail, Flush, Receive
<1>2. CASE RegisterBegin(call)
  <2>1. ~job[call].late
    BY <1>1, <1>2 DEF RegisterBegin, JobOK, Listed
  <2> QED
    BY <1>1, <1>2, <2>1, GiveShown DEF RegisterBegin, Answer
<1>3. CASE Fail(call)
    BY <1>1, <1>3, GiveShown DEF Fail, Answer
<1>4. CASE Flush(call)
  <2>1. CASE Give(call, "failed")
    BY <1>1, <1>4, <2>1, GiveShown DEF Flush, Answer
  <2>2. CASE ~Give(call, "failed")
    <3>1. PICK new : job' = [job EXCEPT ![call] = new] /\ new = [job[call] EXCEPT !.at = "commit"]
        BY <1>4, <2>2 DEF Flush
    <3>2. /\ new.at = "commit" /\ new.op = job[call].op /\ new.who = job[call].who
          /\ new.late = job[call].late
        BY <1>1, <3>1 DEF Job
    <3> QED
        BY <1>1, <1>4, <3>1, <3>2, WaitsShown DEF Flush
  <2> QED
    BY <2>1, <2>2
<1>5. CASE Receive(call)
  <2>1. job' = [job EXCEPT ![call] = NoJob]
    BY <1>5 DEF Receive
  <2>2. Standing(NoJob) = Promise!Stranger
    BY NoJobIsJob DEF Standing, Promise!Stranger
  <2> QED
    BY <1>1, <2>1, <2>2, TablesShown, CallShown
<1> QED
    BY <1>2, <1>3, <1>4, <1>5

LEMMA CrashShown ==
    ASSUME Crash
    PROVE  [Promise!Next]_Shown
<1>1. UNCHANGED <<Handed, Spent, Withdrawn>> /\ job' = [k \in Calls |-> NoJob]
    BY TablesShown DEF Crash
<1>2. Standing(NoJob) = Promise!Stranger
    BY NoJobIsJob DEF Standing, Promise!Stranger
<1>3. Standings' = [k \in Calls |-> IF k \in Calls THEN Promise!Stranger ELSE Standings[k]]
    BY <1>1, <1>2 DEF Standings
<1>4. Promise!Leave(Calls) /\ Calls \in SUBSET Calls
    BY <1>3 DEF Promise!Leave
<1> QED
    BY <1>1, <1>4 DEF Promise!Next

Token == [user : Users, parent : Nat]

LEMMA TokensOf ==
    ASSUME NEW p \in Seq(Session)
    PROVE  LET h == [n \in DOMAIN p |-> [user |-> p[n].user, parent |-> p[n].parent]]
           IN  /\ h \in Seq(Token) /\ Len(h) = Len(p)
               /\ \A n \in 1 .. Len(p) : h[n] = [user |-> p[n].user, parent |-> p[n].parent]
<1> DEFINE h == [n \in DOMAIN p |-> [user |-> p[n].user, parent |-> p[n].parent]]
<1>1. DOMAIN p = 1 .. Len(p) /\ Len(p) \in Nat /\ \A n \in 1 .. Len(p) : p[n] \in Session
    BY LenProperties, ElementOfSeq
<1>2. /\ h \in [1 .. Len(p) -> Token]
      /\ \A n \in 1 .. Len(p) : h[n] = [user |-> p[n].user, parent |-> p[n].parent]
    BY <1>1 DEF Session, Token
<1>3. h \in Seq(Token) /\ DOMAIN h = 1 .. Len(p)
    BY <1>1, <1>2, SeqDef
<1> HIDE DEF h
<1>4. Len(h) = Len(p)
  <2>1. Len(h) \in Nat /\ DOMAIN h = 1 .. Len(h)
    BY <1>3, LenProperties
  <2> QED
    BY <1>1, <1>3, <2>1
<1> QED
    BY <1>2, <1>3, <1>4 DEF h

(* What a call wrote is seen when it commits: a pair, with what it was renewed
   from, or a token revoked; or else the call is served. *)
LEMMA CommitShown ==
    ASSUME AccessInv, NEW call \in Calls, Commit(call)
    PROVE  [Promise!Next]_Shown
<1>1. PICK j \in Job : j = job[call] /\ JobOK(j) /\ j.at = "commit"
    BY CallKnown DEF Commit
<1>2. TypeOK /\ pairs' = Issued(j) /\ black' = Blacklisted(j) /\ ~j.late /\ j.who \in Users
    BY <1>1 DEF Commit, AccessInv, JobOK, Listed
<1>3. PICK new : /\ job' = [job EXCEPT ![call] = new]
                 /\ new = [Done(j, "served") EXCEPT !.num = IF pairs' # pairs THEN Len(pairs') ELSE 0]
    BY <1>1 DEF Commit
<1>4. PICK d \in Job : /\ d = Done(j, "served") /\ d.at = "done" /\ d.op = j.op /\ d.answer = "served"
                       /\ d.who = j.who
    BY DoneIsJob DEF Answer
<1>5. /\ new.at = "done" /\ new.op = j.op /\ new.answer = "served" /\ new.who = j.who
    BY <1>3, <1>4 DEF Job
<1>6. /\ Len(pairs) \in Nat /\ DOMAIN pairs = 1 .. Len(pairs)
      /\ \A n \in 1 .. Len(pairs) : pairs[n] \in Session
    BY <1>2, Lengths DEF Session
<1>7. /\ pairs' \in Seq(Session) /\ DOMAIN pairs' = 1 .. Len(pairs') /\ Len(pairs') \in Nat
      /\ Len(pairs') = Len(pairs) \/ Len(pairs') = Len(pairs) + 1
      /\ \A n \in 1 .. Len(pairs) :
            /\ pairs'[n].parent = pairs[n].parent /\ pairs'[n].user = pairs[n].user
            /\ pairs'[n].revoked <=> pairs[n].revoked \/ (j.op = "refresh" /\ n = j.num)
      /\ Len(pairs') = Len(pairs) + 1 =>
            /\ pairs'[Len(pairs) + 1].parent = IF j.op = "refresh" THEN j.num ELSE 0
            /\ pairs'[Len(pairs) + 1].user = j.who /\ ~pairs'[Len(pairs) + 1].revoked
      /\ Len(pairs') = Len(pairs) + 1 <=> j.op \in {"login", "finish", "refresh"}
      /\ j.op \notin {"login", "finish", "refresh"} => pairs' = pairs
  <2>1. pairs' \in Seq(Session)
    BY <1>1, <1>2, IssuedPairs
  <2> QED
    BY <1>1, <1>2, <2>1, IssuedPairs, LenProperties
<1>8. CASE j.op \notin Open
  <2>1. UNCHANGED <<pairs, black>>
    BY <1>2, <1>7, <1>8 DEF Blacklisted, Open
  <2>2. UNCHANGED <<Handed, Spent, Withdrawn>>
    BY <2>1 DEF Handed, Spent, Withdrawn
  <2>3. Standing(j) = [of |-> j.who, is |-> "good"] /\ Standing(new) = [of |-> j.who, is |-> "served"]
    BY <1>1, <1>2, <1>5, <1>8 DEF Standing
  <2>4. Standing(job[call]).is = "good" /\ Standing(new) = [Standing(job[call]) EXCEPT !.is = "served"]
    BY <1>1, <2>3
  <2> QED
    BY <1>2, <1>3, <2>2, <2>4, CallShown
<1>9. CASE j.op \in Open
  <2>1. Standing(new) = Standing(job[call])
    BY <1>1, <1>5, <1>9 DEF Standing
  <2>2. Standings' = Standings
    BY <1>2, <1>3, <2>1 DEF Standings, TypeOK
  <2>3. CASE j.op \in {"login", "finish", "refresh"}
    <3>1. Len(pairs') = Len(pairs) + 1 /\ DOMAIN pairs' = 1 .. Len(pairs) + 1
        BY <1>7, <2>3
    <3>0. /\ \A n \in 1 .. Len(pairs) + 1 : n \in 1 .. Len(pairs) \/ n = Len(pairs) + 1
          /\ \A n \in 1 .. Len(pairs) : n \in 1 .. Len(pairs) + 1 /\ n # Len(pairs) + 1
          /\ Len(pairs) + 1 \in 1 .. Len(pairs) + 1 /\ Len(pairs) + 1 \notin 1 .. Len(pairs)
        BY <1>6
    <3>2. Handed' = Append(Handed, [user |-> j.who, parent |-> IF j.op = "refresh" THEN j.num ELSE 0])
      <4>1. PICK x \in Token : x = [user |-> j.who, parent |-> IF j.op = "refresh" THEN j.num ELSE 0]
        <5>1. PICK n \in Nat : n = IF j.op = "refresh" THEN j.num ELSE 0
            BY DEF Job
        <5> QED
            BY <1>2, <5>1 DEF Token
      <4>2. /\ Handed \in Seq(Token) /\ Len(Handed) = Len(pairs)
            /\ \A n \in 1 .. Len(pairs) : Handed[n] = [user |-> pairs[n].user, parent |-> pairs[n].parent]
        <5>1. pairs \in Seq(Session)
            BY <1>2 DEF TypeOK, Session
        <5> QED
            BY <5>1, TokensOf DEF Handed
      <4>3. /\ Handed' \in Seq(Token) /\ Len(Handed') = Len(pairs) + 1
            /\ \A n \in 1 .. Len(pairs) + 1 : Handed'[n] = [user |-> pairs'[n].user, parent |-> pairs'[n].parent]
        BY <1>7, <3>1, TokensOf DEF Handed
      <4>4. /\ Append(Handed, x) \in Seq(Token) /\ Len(Append(Handed, x)) = Len(pairs) + 1
            /\ \A n \in 1 .. Len(pairs) : Append(Handed, x)[n] = Handed[n]
            /\ Append(Handed, x)[Len(pairs) + 1] = x
        BY <4>2, AppendProperties
      <4>5. \A n \in 1 .. Len(pairs) : Handed'[n] = Append(Handed, x)[n]
        <5> SUFFICES ASSUME NEW n \in 1 .. Len(pairs)
                     PROVE  Handed'[n] = Append(Handed, x)[n]
            OBVIOUS
        <5>1. pairs'[n].user = pairs[n].user /\ pairs'[n].parent = pairs[n].parent
            BY <1>7
        <5>2. Handed'[n] = [user |-> pairs[n].user, parent |-> pairs[n].parent]
            BY <3>0, <4>3, <5>1
        <5> QED
            BY <4>2, <4>4, <5>2
      <4>6. Handed'[Len(pairs) + 1] = x
        BY <1>7, <3>0, <3>1, <4>1, <4>3
      <4>7. \A n \in 1 .. Len(pairs) + 1 : Handed'[n] = Append(Handed, x)[n]
        BY <3>0, <4>4, <4>5, <4>6
      <4>8. Handed' = Append(Handed, x)
        BY <4>3, <4>4, <4>7, SeqEqual
      <4> QED
        BY <4>1, <4>8
    <3>3. Spent' = IF j.op = "refresh" THEN Spent \cup {j.num} ELSE Spent
      <4>1. j.op = "refresh" => j.num \in 1 .. Len(pairs)
        BY <1>1 DEF JobOK, InHand, Holding
      <4>2. ~pairs'[Len(pairs) + 1].revoked
        BY <1>7, <3>1
      <4>3. \A n : n \in Spent' <=> n \in 1 .. Len(pairs) /\ pairs'[n].revoked
        BY <3>0, <3>1, <4>2 DEF Spent
      <4>4. \A n : n \in Spent <=> n \in 1 .. Len(pairs) /\ pairs[n].revoked
        BY <1>6 DEF Spent
      <4> QED
        BY <1>7, <4>1, <4>3, <4>4
    <3>4. Withdrawn' = Withdrawn
      <4>1. \A n \in 1 .. Len(pairs) : <<"access", n>> \in black' <=> <<"access", n>> \in black
        BY <1>2, <2>3 DEF Blacklisted
      <4>2. <<"access", Len(pairs) + 1>> \notin black'
        <5>1. black' \subseteq {"access", "refresh"} \X (1 .. Len(pairs))
            BY <1>1, <1>2, BlacklistedNames
        <5> QED
            BY <3>0, <5>1
      <4> QED
        BY <1>6, <3>0, <3>1, <4>1, <4>2 DEF Withdrawn
    <3>5. CASE j.op = "refresh"
      <4>1. j.num \in DOMAIN pairs /\ j.num \notin Spent /\ j.who = pairs[j.num].user
        BY <1>1, <1>6, <3>5 DEF AccessInv, Refreshed, Spent, JobOK, InHand, Listed, Holding
      <4>2. DOMAIN Handed = DOMAIN pairs /\ Handed[j.num].user = j.who
        BY <4>1 DEF Handed
      <4>3. Promise!Renew(j.num)
        BY <3>2, <3>3, <3>4, <3>5, <4>1, <4>2 DEF Promise!Renew
      <4> QED
        BY <2>2, <4>1, <4>2, <4>3 DEF Promise!Next
    <3>6. CASE j.op # "refresh"
      <4>1. Promise!Issue(j.who)
        BY <3>2, <3>3, <3>4, <3>6 DEF Promise!Issue
      <4> QED
        BY <1>2, <2>2, <4>1 DEF Promise!Next
    <3> QED
        BY <3>5, <3>6
  <2>4. CASE j.op = "logout"
    <3>1. pairs' = pairs /\ Handed' = Handed /\ Spent' = Spent
        BY <1>7, <2>4 DEF Handed, Spent
    <3>2. j.num \in DOMAIN pairs /\ j.num \notin Withdrawn
        BY <1>1, <1>6, <2>4 DEF JobOK, InHand, Listed, Holding, Withdrawn
    <3>3. Withdrawn' = Withdrawn \cup {j.num}
        BY <1>2, <2>4, <3>1, <3>2 DEF Withdrawn, Blacklisted
    <3>4. Promise!Revoke(j.num) /\ DOMAIN Handed = DOMAIN pairs
        BY <3>1, <3>2, <3>3 DEF Promise!Revoke, Handed
    <3> QED
        BY <2>2, <3>2, <3>4 DEF Promise!Next
  <2>5. CASE j.op \notin {"login", "finish", "refresh", "logout"}
    <3>1. UNCHANGED <<pairs, black>>
        BY <1>2, <1>7, <2>5 DEF Blacklisted
    <3> QED
        BY <2>2, <3>1 DEF Shown, Handed, Spent, Withdrawn
  <2> QED
    BY <2>3, <2>4, <2>5
<1> QED
    BY <1>8, <1>9

LEMMA StepShown ==
    ASSUME AccessInv, [Next]_vars
    PROVE  [Promise!Next]_Shown
<1>1. workload.callers \subseteq Users
    BY AccessAssumption DEF AccessInv, TypeOK
<1>2. ASSUME NEW call \in Calls, NEW client \in SdkClients, NEW u \in workload.callers,
             Register(call, client, u) \/ Login(call, client, u) \/ AskKeyless(call, client, u)
                \/ AuthenticateBegin(call, client, u)
      PROVE  [Promise!Next]_Shown
    BY <1>1, <1>2, OpenShown
<1>3. ASSUME NEW call \in Calls, NEW client \in SdkClients,
             \/ \E n \in DOMAIN pairs : Refresh(call, client, n)
             \/ \E n \in DOMAIN chal : AuthenticateFinish(call, client, n)
             \/ \E op \in workload.ops : Ask(call, client, op)
             \/ Logout(call, client)
      PROVE  [Promise!Next]_Shown
    BY <1>3, ReturningShown, AskShown
<1>4. ASSUME NEW call \in Calls,
             \/ CheckBlacklist(call) \/ LoadUser(call) \/ Decide(call)
             \/ GrantRecordAccess(call) \/ RevokeRecordAccess(call) \/ SetUserRole(call) \/ DisableUser(call)
             \/ RegisterBegin(call) \/ RegisterFinish(call)
             \/ Flush(call) \/ Commit(call) \/ Fail(call) \/ Receive(call)
      PROVE  [Promise!Next]_Shown
    BY <1>4, TokenCheckShown, DecideShown, RoutesShown, AnsweringShown, CommitShown
<1>5. ASSUME UNCHANGED <<tables, job>>
      PROVE  UNCHANGED Shown
    BY <1>5, TablesShown DEF Shown, Standings
<1>6. CASE UNCHANGED vars \/ (\E client \in SdkClients : Close(client))
              \/ (\E n \in DOMAIN chal : ChallengeExpires(n))
  <2>1. UNCHANGED tables /\ UNCHANGED job
    BY <1>6 DEF vars, Close, ChallengeExpires
  <2> QED
    BY <2>1, <1>5
<1>7. CASE Crash
    BY <1>7, CrashShown
<1> QED
    BY <1>2, <1>3, <1>4, <1>6, <1>7 DEF Next

LEMMA InitShown == Init => Promise!Init
<1> SUFFICES ASSUME Init
             PROVE  Promise!Init
    OBVIOUS
<1>1. pairs = <<>> /\ DOMAIN pairs = {} /\ job = [k \in Calls |-> NoJob]
    BY EmptySeq DEF Init
<1>2. Handed = <<>> /\ Spent = {} /\ Withdrawn = {}
    BY <1>1 DEF Handed, Spent, Withdrawn
<1>3. Standing(NoJob) = Promise!Stranger
    BY NoJobIsJob DEF Standing, Promise!Stranger
<1> QED
    BY <1>1, <1>2, <1>3 DEF Promise!Init, Standings

(* The server keeps its promise of tokens: a pair goes to who logged in or, once,
   to the user of the pair it was renewed from, and a call is served as the user
   of a token that was good when the call came. *)
THEOREM AccessImplementsSessions == Spec => ImplementsSessions
<1>1. Init => Promise!Init
    BY InitShown
<1>2. AccessInv /\ [Next]_vars => [Promise!Next]_<<Handed, Spent, Withdrawn, Standings>>
    BY StepShown DEF Shown
<1> QED
    BY <1>1, <1>2, Invariance, PTL DEF Spec, ImplementsSessions, Promise!Spec

-----------------------------------------------------------------------------
(* Grants. *)

LEMMA FittingIsFinite ==
    ASSUME NEW rows \in Seq(Grant), NEW id, NEW role, NEW permission
    PROVE  IsFiniteSet(Matching(rows, id, role, permission))
<1>1. DOMAIN rows = 1 .. Len(rows) /\ Len(rows) \in Nat
    BY LenProperties
<1>2. IsFiniteSet(1 .. Len(rows))
    BY <1>1, FS_Interval
<1> QED
    BY <1>1, <1>2, FS_Subset DEF Matching

(* A user who reached the record goes on to reach it where a grant was added,
   unless two of them fit. *)
LEMMA ReachGrows ==
    ASSUME NEW rows \in Seq(Grant), NEW more \in Seq(Grant), NEW id, NEW user, NEW permission,
           Matching(rows, id, user.role, permission) \subseteq Matching(more, id, user.role, permission),
           Cardinality(Matching(more, id, user.role, permission)) <= 1,
           Reaches(rows, Owner, id, user, permission) = "yes"
    PROVE  Reaches(more, Owner, id, user, permission) = "yes"
<1> DEFINE A == Matching(rows, id, user.role, permission)
           B == Matching(more, id, user.role, permission)
<1>1. IsFiniteSet(A) /\ IsFiniteSet(B) /\ A \subseteq B /\ Cardinality(B) <= 1
    BY FittingIsFinite
<1>2. Cardinality(A) \in Nat /\ Cardinality(B) \in Nat /\ Cardinality(A) <= Cardinality(B)
    BY <1>1, FS_CardinalityType, FS_Subset
<1>3. /\ can_access(rows, id, user.role, permission)
            = IF Cardinality(A) = 0 THEN "no" ELSE IF Cardinality(A) = 1 THEN "yes" ELSE "raises"
      /\ can_access(more, id, user.role, permission)
            = IF Cardinality(B) = 0 THEN "no" ELSE IF Cardinality(B) = 1 THEN "yes" ELSE "raises"
    BY <1>2 DEF can_access
<1> HIDE DEF A, B
<1> QED
    BY <1>1, <1>2, <1>3 DEF Reaches

(* Only what commits changes a user or a grant. *)
LEMMA TablesStay ==
    ASSUME [Next]_vars, ~\E call \in Calls : Commit(call)
    PROVE  users' = users /\ grants' = grants
<1>1. ASSUME NEW call \in Calls, NEW client \in SdkClients, NEW u,
             Register(call, client, u) \/ Login(call, client, u) \/ AskKeyless(call, client, u)
                \/ AuthenticateBegin(call, client, u)
      PROVE  UNCHANGED tables
    BY <1>1 DEF Register, Login, AskKeyless, AuthenticateBegin
<1>2. ASSUME NEW call \in Calls, NEW client \in SdkClients, NEW n,
             \/ Refresh(call, client, n) \/ AuthenticateFinish(call, client, n)
             \/ Ask(call, client, n) \/ Logout(call, client)
      PROVE  UNCHANGED tables
    BY <1>2 DEF Refresh, AuthenticateFinish, Ask, Logout
<1>3. ASSUME NEW call \in Calls,
             \/ CheckBlacklist(call) \/ LoadUser(call) \/ Decide(call)
             \/ GrantRecordAccess(call) \/ RevokeRecordAccess(call) \/ SetUserRole(call) \/ DisableUser(call)
             \/ RegisterBegin(call) \/ RegisterFinish(call)
             \/ Flush(call) \/ Fail(call) \/ Receive(call)
      PROVE  UNCHANGED tables
    BY <1>3 DEF CheckBlacklist, LoadUser, Decide, GrantRecordAccess, RevokeRecordAccess, SetUserRole,
       DisableUser, RegisterBegin, RegisterFinish, Proceed, Flush, Fail, Receive
<1>4. ASSUME NEW n, Close(n) \/ ChallengeExpires(n) \/ Crash
      PROVE  UNCHANGED tables
    BY <1>4 DEF Close, ChallengeExpires, Crash
<1>5. UNCHANGED tables
    BY <1>1, <1>2, <1>3, <1>4 DEF Next, vars
<1> QED
    BY <1>5 DEF tables

LEMMA GrantsAdd ==
    ASSUME AccessInv, AccessInv', [Next]_vars, NEW u \in Users, NEW p \in Permissions,
           ReachOf(u, p) = "yes", users'[u] = users[u],
           \A g \in Fitting(u, p) : grants'[g].live,
           ~(Cardinality(Fitting(u, p)') > 1)
    PROVE  ReachOf(u, p)' = "yes"
<1>1. grants \in Seq(Grant) /\ grants' \in Seq(Grant)
    BY DEF AccessInv, TypeOK
<1>2. CASE \E call \in Calls : Commit(call)
  <2>1. PICK call \in Calls : Commit(call)
    BY <1>2
  <2>2. PICK j \in Job : j = job[call] /\ JobOK(j) /\ j.at = "commit"
    BY <2>1, CallKnown DEF Commit
  <2>3. grants' = Granted(j)
    BY <2>1, <2>2 DEF Commit
  <2>4. /\ Len(grants) <= Len(grants') /\ Len(grants) \in Nat /\ Len(grants') \in Nat
        /\ DOMAIN grants = 1 .. Len(grants) /\ DOMAIN grants' = 1 .. Len(grants')
        /\ \A g \in 1 .. Len(grants) :
              /\ grants'[g].user = grants[g].user /\ grants'[g].role = grants[g].role
              /\ grants'[g].permission = grants[g].permission
    BY <1>1, <2>2, <2>3, GrantedRows, LenProperties DEF AccessInv
  <2> DEFINE r == users[u].role
  <2>5. Fitting(u, p) = Matching(grants, u, r, p) /\ Fitting(u, p)' = Matching(grants', u, r, p)
    BY DEF Fitting
  <2>6. Matching(grants, u, r, p) \subseteq Matching(grants', u, r, p)
    BY <2>4, <2>5 DEF Matching
  <2>7. Cardinality(Matching(grants', u, r, p)) <= 1
    BY <1>1, <2>5, FittingIsFinite, FS_CardinalityType
  <2>8. ReachOf(u, p) = Reaches(grants, Owner, u, users[u], p)
        /\ ReachOf(u, p)' = Reaches(grants', Owner, u, users[u], p)
    BY DEF ReachOf
  <2> QED
    BY <1>1, <2>6, <2>7, <2>8, ReachGrows
<1>3. CASE ~\E call \in Calls : Commit(call)
    BY <1>3, TablesStay DEF ReachOf
<1> QED
    BY <1>2, <1>3

(* Nobody loses access to a record because somebody else is granted it, but
   where two grants fit at once (can_access). *)
THEOREM AccessIsNotLost == Spec => GrantsOnlyAdd
<1>1. AccessInv /\ AccessInv' /\ [Next]_vars =>
        [\A u \in Users, p \in Permissions :
            ReachOf(u, p) = "yes" /\ ReachOf(u, p)' # "yes" =>
               \/ users'[u] # users[u]
               \/ \E g \in Fitting(u, p) : ~grants'[g].live
               \/ Cardinality(Fitting(u, p)') > 1]_vars
    BY GrantsAdd
<1> QED
    BY <1>1, Invariance, PTL DEF Spec, GrantsOnlyAdd

-----------------------------------------------------------------------------
(* The rate limit. *)

(* A set of naturals that is not empty has a least element. *)
LEMMA SmallestNat ==
    ASSUME NEW Bad, Bad \subseteq Nat, Bad # {}
    PROVE  \E n \in Bad : \A m \in Bad : n <= m
<1>1. PICK n \in Bad : \A m \in Bad : <<m, n>> \notin OpToRel(<, Nat)
    BY NatLessThanWellFounded, WFMin
<1>2. ASSUME NEW m \in Bad, m < n PROVE <<m, n>> \in OpToRel(<, Nat)
    <2>1. <<m, n>> \in Nat \X Nat /\ <<m, n>>[1] < <<m, n>>[2]
        BY <1>2
    <2>2. <<m, n>> \in {ss \in Nat \X Nat : ss[1] < ss[2]}
        BY <2>1
    <2> QED
        BY <2>2, Zenon DEF OpToRel
<1>3. \A m \in Bad : ~(m < n)
    BY <1>1, <1>2, Zenon
<1> QED
    BY <1>3

(* Induction up to n, for what can be said with a set. *)
LEMMA InductionUpTo ==
    ASSUME NEW n \in Nat, NEW Good, 0 \in Good, \A i \in 1 .. n : i - 1 \in Good => i \in Good
    PROVE  0 .. n \subseteq Good
<1> DEFINE Bad == (0 .. n) \ Good
<1> SUFFICES ASSUME Bad # {} PROVE FALSE
    OBVIOUS
<1>1. PICK i \in Bad : \A k \in Bad : i <= k
    <2>1. Bad \subseteq Nat
        OBVIOUS
    <2> HIDE DEF Bad
    <2> QED
        BY <2>1, SmallestNat
<1>2. i \in 1 .. n /\ i - 1 \in 0 .. n /\ ~(i <= i - 1)
    BY <1>1
<1> QED
    BY <1>1, <1>2

(* f on 0 .. n begins with first and goes on as next says: there is one. *)
Steps(f, n, S, first, next) ==
    /\ f \in [0 .. n -> S]
    /\ f[0] = first /\ \A i \in 1 .. n : f[i] = next[<<i, f[i - 1]>>]

LEMMA StepsExist ==
    ASSUME NEW n \in Nat, NEW S, NEW first \in S, NEW next \in [(1 .. n) \X S -> S]
    PROVE  \E f : Steps(f, n, S, first, next)
<1> DEFINE Good == {m \in 0 .. n : \E f : Steps(f, m, S, first, next)}
<1>1. 0 \in Good
    <2>1. Steps([i \in 0 .. 0 |-> first], 0, S, first, next)
        BY DEF Steps
    <2>2. 0 \in 0 .. n
        OBVIOUS
    <2> QED
        BY <2>1, <2>2
<1>2. ASSUME NEW m \in 1 .. n, m - 1 \in Good PROVE m \in Good
    <2>1. PICK f : Steps(f, m - 1, S, first, next)
        BY <1>2
    <2> DEFINE g == [i \in 0 .. m |-> IF i = m THEN next[<<m, f[m - 1]>>] ELSE f[i]]
    <2>2. m - 1 \in 0 .. m - 1 /\ f[m - 1] \in S
        BY <2>1 DEF Steps
    <2>3. g \in [0 .. m -> S]
        BY <2>1, <2>2 DEF Steps
    <2>4. g[0] = first
        BY <2>1, <2>2 DEF Steps
    <2>5. ASSUME NEW i \in 1 .. m PROVE g[i] = next[<<i, g[i - 1]>>]
        <3>1. g[i - 1] = f[i - 1]
            BY <2>2
        <3>2. CASE i = m
            <4>1. g[m] = next[<<m, f[m - 1]>>]
                OBVIOUS
            <4> HIDE DEF g
            <4> QED
                BY <3>1, <3>2, <4>1
        <3>3. CASE i # m
            <4>1. g[i] = f[i] /\ i \in 1 .. m - 1
                BY <3>3
            <4> HIDE DEF g
            <4> QED
                BY <2>1, <3>1, <4>1 DEF Steps
        <3> QED
            BY <3>2, <3>3
    <2>6. Steps(g, m, S, first, next)
        <3> HIDE DEF g
        <3> QED
            BY <2>3, <2>4, <2>5 DEF Steps
    <2> HIDE DEF g
    <2> QED
        BY <2>6
<1> HIDE DEF Good
<1>3. n \in Good
    BY <1>1, <1>2, InductionUpTo
<1> QED
    BY <1>3 DEF Good

(* The times a limiter keeps are looked at one after the other. *)
LEMMA UnexpiredBySteps ==
    ASSUME NEW r \in Seq(Nat), NEW now \in Nat, NEW window \in Nat
    PROVE  \E F \in [0 .. Len(r) -> Seq(Nat)] :
              /\ F[0] = <<>>
              /\ \A i \in 1 .. Len(r) :
                    F[i] = IF r[i] > now - window THEN Append(F[i - 1], r[i]) ELSE F[i - 1]
              /\ Unexpired(r, now, window) = F[Len(r)]
<1> DEFINE n == Len(r)
           cut == now - window
           Rec(F) == [i \in 0 .. n |->
                        IF i = 0 THEN <<>>
                        ELSE IF r[i] > cut THEN Append(F[i - 1], r[i]) ELSE F[i - 1]]
           F == CHOOSE F : F = Rec(F)
           next == [p \in (1 .. n) \X Seq(Nat) |->
                        IF r[p[1]] > cut THEN Append(p[2], r[p[1]]) ELSE p[2]]
<1>1. Unexpired(r, now, window) = F[n]
    BY Zenon DEF Unexpired
<1>2. n \in Nat /\ \A i \in 1 .. n : r[i] \in Nat
    OBVIOUS
<1> HIDE DEF n, cut
<1>3. next \in [(1 .. n) \X Seq(Nat) -> Seq(Nat)]
    <2> SUFFICES ASSUME NEW i \in 1 .. n, NEW a \in Seq(Nat)
                 PROVE  (IF r[i] > cut THEN Append(a, r[i]) ELSE a) \in Seq(Nat)
        OBVIOUS
    <2> QED
        BY <1>2
<1>4. PICK f : Steps(f, n, Seq(Nat), <<>>, next)
    <2> HIDE DEF next
    <2>1. <<>> \in Seq(Nat)
        OBVIOUS
    <2> QED
        BY <1>2, <1>3, <2>1, StepsExist
<1> USE DEF Steps
<1>5. f = Rec(f)
    <2>1. ASSUME NEW i \in 1 .. n
          PROVE  f[i] = IF r[i] > cut THEN Append(f[i - 1], r[i]) ELSE f[i - 1]
        <3>1. f[i - 1] \in Seq(Nat)
            BY <1>2, <1>4
        <3>2. <<i, f[i - 1]>> \in (1 .. n) \X Seq(Nat)
            BY <3>1
        <3> QED
            BY <1>4, <3>2
    <2>2. f = [i \in 0 .. n |-> f[i]]
        BY <1>4
    <2>3. ASSUME NEW i \in 0 .. n
          PROVE  f[i] = IF i = 0 THEN <<>>
                        ELSE IF r[i] > cut THEN Append(f[i - 1], r[i]) ELSE f[i - 1]
        <3>1. i = 0 \/ i \in 1 .. n
            BY <1>2
        <3>2. f[0] = <<>> /\ ~(0 \in 1 .. n)
            BY <1>4
        <3> QED
            BY <2>1, <3>1, <3>2, Zenon
    <2> QED
        BY <2>2, <2>3
<1>6. F = Rec(F)
    <2> HIDE DEF Rec
    <2> QED
        BY <1>5
<1> HIDE DEF F, next
<1>7. /\ DOMAIN F = 0 .. n /\ F[0] = <<>>
      /\ \A i \in 1 .. n : F[i] = IF r[i] > cut THEN Append(F[i - 1], r[i]) ELSE F[i - 1]
    <2>1. DOMAIN F = 0 .. n /\ \A i \in 0 .. n : F[i] = IF i = 0 THEN <<>>
                        ELSE IF r[i] > cut THEN Append(F[i - 1], r[i]) ELSE F[i - 1]
        BY <1>6, Zenon
    <2>2. 0 \in 0 .. n /\ \A i \in 1 .. n : i \in 0 .. n /\ i # 0
        BY <1>2
    <2> QED
        BY <2>1, <2>2, Zenon
<1>8. F \in [0 .. n -> Seq(Nat)]
    <2> DEFINE Good == {i \in 0 .. n : F[i] \in Seq(Nat)}
    <2>1. 0 \in Good
        <3>1. 0 \in 0 .. n /\ <<>> \in Seq(Nat)
            BY <1>2
        <3> QED
            BY <1>7, <3>1, Zenon
    <2>2. ASSUME NEW i \in 1 .. n, i - 1 \in Good PROVE i \in Good
        <3>1. i \in 0 .. n /\ F[i - 1] \in Seq(Nat) /\ r[i] \in Nat
            BY <1>2, <2>2
        <3>2. Append(F[i - 1], r[i]) \in Seq(Nat)
            BY <3>1
        <3> QED
            BY <1>7, <3>1, <3>2, Zenon
    <2>3. 0 .. n \subseteq Good
        <3> HIDE DEF Good
        <3> QED
            BY <1>2, <2>1, <2>2, InductionUpTo
    <2>4. F = [i \in 0 .. n |-> F[i]]
        BY <1>6
    <2> QED
        BY <2>3, <2>4
<1> QED
    BY <1>1, <1>7, <1>8 DEF n, cut

(* b, of length m, is a, of length n, without its first d times. *)
TailOf(b, m, a, n, d) == m = n - d /\ \A i \in 1 .. m : b[i] = a[d + i]

InOrder(a, n) == /\ \A i \in 1 .. n : a[i] \in Nat
                 /\ \A i, j \in 1 .. n : i <= j => a[i] <= a[j]

(* d of the n times in a are not later than cut. *)
CutAt(a, n, cut, d) ==
    /\ \A i \in 1 .. d : a[i] <= cut
    /\ \A i \in d + 1 .. n : a[i] > cut

LEMMA TailInOrder ==
    ASSUME NEW a, NEW n \in Nat, NEW b, NEW m \in Nat, NEW d \in 0 .. n,
           TailOf(b, m, a, n, d), InOrder(a, n)
    PROVE  InOrder(b, m)
<1>1. ASSUME NEW i \in 1 .. m PROVE d + i \in 1 .. n /\ b[i] = a[d + i]
    BY DEF TailOf
<1>2. ASSUME NEW i \in 1 .. m, NEW j \in 1 .. m, i <= j PROVE b[i] <= b[j]
    BY <1>1, <1>2 DEF InOrder
<1> QED
    BY <1>1, <1>2 DEF InOrder

LEMMA TailOfTail ==
    ASSUME NEW a, NEW n \in Nat, NEW b, NEW m \in Nat, NEW c, NEW k \in Nat,
           NEW d \in 0 .. n, NEW e \in 0 .. m, NEW cut \in Int,
           InOrder(a, n), TailOf(b, m, a, n, d), TailOf(c, k, b, m, e),
           \A i \in 1 .. d : a[i] <= cut, CutAt(b, m, cut, e)
    PROVE  /\ d + e \in 0 .. n
           /\ TailOf(c, k, a, n, d + e)
           /\ CutAt(a, n, cut, d + e)
<1>1. m = n - d /\ k = m - e /\ d \in Nat /\ e \in Nat /\ d + e \in 0 .. n
    BY DEF TailOf
<1>2. ASSUME NEW i \in 1 .. k PROVE c[i] = a[d + e + i]
    <2>1. e + i \in 1 .. m /\ d + (e + i) = d + e + i
        BY <1>1
    <2>2. c[i] = b[e + i] /\ b[e + i] = a[d + (e + i)]
        BY <2>1 DEF TailOf
    <2> QED
        BY <2>1, <2>2
<1>3. ASSUME NEW i \in d + 1 .. n PROVE i - d \in 1 .. m /\ b[i - d] = a[i]
    <2>1. i - d \in 1 .. m /\ d + (i - d) = i
        BY <1>1
    <2> QED
        BY <2>1 DEF TailOf
<1>4. ASSUME NEW i \in 1 .. d + e PROVE a[i] <= cut
    <2>1. CASE i \in 1 .. d
        BY <2>1
    <2>2. CASE i \notin 1 .. d
        <3>1. i \in d + 1 .. n /\ i - d \in 1 .. e
            BY <1>1, <2>2
        <3> QED
            BY <1>3, <3>1 DEF CutAt
    <2> QED
        BY <2>1, <2>2
<1>5. ASSUME NEW i \in d + e + 1 .. n PROVE a[i] > cut
    <2>1. i \in d + 1 .. n /\ i - d \in e + 1 .. m
        BY <1>1
    <2> QED
        BY <1>3, <2>1 DEF CutAt
<1>6. k = n - (d + e)
    BY <1>1
<1> QED
    BY <1>1, <1>2, <1>4, <1>5, <1>6 DEF TailOf, CutAt

(* a with one time more at its end. *)
Longer(b, a, n, now) == b[n + 1] = now /\ \A i \in 1 .. n : b[i] = a[i]

Spaced(a, n, limit, window) == \A i \in 1 .. n - limit : a[i + limit] - a[i] >= window

LEMMA LongerInOrder ==
    ASSUME NEW a, NEW n \in Nat, NEW b, NEW now \in Nat, InOrder(a, n), Longer(b, a, n, now),
           \A i \in 1 .. n : a[i] <= now
    PROVE  InOrder(b, n + 1) /\ \A i \in 1 .. n + 1 : b[i] <= now
<1>1. ASSUME NEW i \in 1 .. n + 1 PROVE (i \in 1 .. n /\ b[i] = a[i]) \/ (i = n + 1 /\ b[i] = now)
    BY DEF Longer
<1>2. ASSUME NEW i \in 1 .. n + 1 PROVE b[i] \in Nat /\ b[i] <= now
    BY <1>1 DEF InOrder
<1>3. ASSUME NEW i \in 1 .. n + 1, NEW j \in 1 .. n + 1, i <= j PROVE b[i] <= b[j]
    <2>1. CASE j = n + 1
        BY <1>2, <2>1 DEF Longer
    <2>2. CASE j # n + 1
        <3>1. i \in 1 .. n /\ j \in 1 .. n
            BY <1>3, <2>2
        <3> QED
            BY <1>1, <1>3, <2>2, <3>1 DEF InOrder, Longer
    <2> QED
        BY <2>1, <2>2
<1> QED
    BY <1>2, <1>3 DEF InOrder

LEMMA LongerTail ==
    ASSUME NEW a, NEW n \in Nat, NEW b, NEW now \in Nat, Longer(b, a, n, now),
           NEW c, NEW k \in Nat, NEW e \in 0 .. n, TailOf(c, k, a, n, e),
           NEW g, Longer(g, c, k, now)
    PROVE  TailOf(g, k + 1, b, n + 1, e)
<1>1. k = n - e
    BY DEF TailOf
<1>2. ASSUME NEW i \in 1 .. k + 1 PROVE g[i] = b[e + i]
    <2>1. CASE i = k + 1
        <3>1. e + i = n + 1
            BY <1>1, <2>1
        <3> QED
            BY <2>1, <3>1 DEF Longer
    <2>2. CASE i # k + 1
        <3>1. i \in 1 .. k /\ e + i \in 1 .. n
            BY <1>1, <2>2
        <3> QED
            BY <3>1 DEF TailOf, Longer
    <2> QED
        BY <2>1, <2>2
<1>3. k + 1 = n + 1 - e
    BY <1>1
<1> QED
    BY <1>2, <1>3 DEF TailOf

(* With fewer than limit of the times after cut there is room for one more. *)
LEMMA LongerSpaced ==
    ASSUME NEW a, NEW n \in Nat, NEW b, NEW now \in Nat, Longer(b, a, n, now), InOrder(a, n),
           NEW limit \in Nat, NEW window \in Nat, NEW e \in 0 .. n, n - e < limit,
           Spaced(a, n, limit, window), CutAt(a, n, now - window, e)
    PROVE  /\ Spaced(b, n + 1, limit, window)
           /\ \A i \in 1 .. e : b[i] <= now - window
<1>1. ASSUME NEW i \in 1 .. e PROVE i \in 1 .. n /\ b[i] = a[i] /\ a[i] <= now - window
    <2>1. i \in 1 .. n
        OBVIOUS
    <2> QED
        BY <2>1 DEF Longer, CutAt
<1>2. ASSUME NEW i \in 1 .. n + 1 - limit PROVE b[i + limit] - b[i] >= window
    <2>1. CASE i + limit = n + 1
        <3>1. i \in 1 .. e
            BY <2>1
        <3>2. b[i + limit] = now /\ b[i] <= now - window /\ b[i] \in Nat
            BY <1>1, <2>1, <3>1 DEF Longer, InOrder
        <3> QED
            BY <3>2
    <2>2. CASE i + limit # n + 1
        <3>1. i \in 1 .. n - limit /\ i \in 1 .. n /\ i + limit \in 1 .. n
            BY <2>2
        <3> QED
            BY <3>1 DEF Longer, Spaced
    <2> QED
        BY <2>1, <2>2
<1> QED
    BY <1>1, <1>2 DEF Spaced

LEMMA AppendIsLonger ==
    ASSUME NEW a \in Seq(Nat), NEW now \in Nat
    PROVE  /\ Append(a, now) \in Seq(Nat) /\ Len(a) \in Nat /\ Len(Append(a, now)) = Len(a) + 1
           /\ Longer(Append(a, now), a, Len(a), now)
    BY DEF Longer

LEMMA SortedInOrder == ASSUME NEW a \in Seq(Nat) PROVE Sorted(a) <=> InOrder(a, Len(a))
    BY DEF Sorted, InOrder

(* Of times in order the latest are kept. *)
LEMMA UnexpiredIsTail ==
    ASSUME NEW r \in Seq(Nat), InOrder(r, Len(r)), NEW now \in Nat, NEW window \in Nat
    PROVE  \E left \in Seq(Nat) :
              /\ left = Unexpired(r, now, window)
              /\ \E d \in 0 .. Len(r) : /\ TailOf(left, Len(left), r, Len(r), d)
                                       /\ CutAt(r, Len(r), now - window, d)
<1>1. PICK F \in [0 .. Len(r) -> Seq(Nat)] :
          /\ F[0] = <<>>
          /\ \A i \in 1 .. Len(r) :
                F[i] = IF r[i] > now - window THEN Append(F[i - 1], r[i]) ELSE F[i - 1]
          /\ Unexpired(r, now, window) = F[Len(r)]
    BY UnexpiredBySteps
<1>n. PICK n \in Nat : n = Len(r)
    OBVIOUS
<1>c. PICK cut \in Int : cut = now - window
    OBVIOUS
<1> DEFINE Kept(i, d) == TailOf(F[i], Len(F[i]), r, i, d) /\ CutAt(r, i, cut, d)
           Good == {i \in 0 .. n : \E d \in 0 .. i : Kept(i, d)}
<1>2. \A i \in 1 .. n : r[i] \in Nat /\ \A j \in 1 .. i : r[j] <= r[i]
    <2>1. InOrder(r, n)
        BY <1>n
    <2>2. \A i \in 1 .. n : \A j \in 1 .. i : j \in 1 .. n /\ j <= i
        OBVIOUS
    <2> QED
        BY <2>1, <2>2, Zenon DEF InOrder
<1>3. /\ \A i \in 0 .. n : F[i] \in Seq(Nat)
      /\ \A i \in 1 .. n : F[i] = IF r[i] > cut THEN Append(F[i - 1], r[i]) ELSE F[i - 1]
    BY <1>1, <1>n, <1>c
<1>4. 0 \in Good
    <2>1. Len(F[0]) = 0
        BY <1>1
    <2>2. Kept(0, 0)
        BY <2>1 DEF TailOf, CutAt
    <2> HIDE DEF Kept
    <2> QED
        BY <2>2
<1>5. ASSUME NEW i \in 1 .. n, i - 1 \in Good PROVE i \in Good
    <2>1. PICK d \in 0 .. i - 1 : Kept(i - 1, d)
        BY <1>5
    <2>2. PICK a \in Seq(Nat) : a = F[i - 1]
        BY <1>3
    <2>3. PICK k \in Nat : k = Len(a)
        OBVIOUS
    <2>4. PICK t \in Nat : t = r[i]
        BY <1>2
    <2>5. TailOf(a, k, r, i - 1, d) /\ CutAt(r, i - 1, cut, d)
        BY <2>1, <2>2, <2>3
    <2>6. CASE t > cut
        <3>1. F[i] = Append(a, t)
            BY <1>3, <2>2, <2>4, <2>6
        <3>2. Longer(F[i], a, k, t) /\ Len(F[i]) = k + 1
            BY <2>3, <3>1, AppendIsLonger
        <3>3. Longer(r, r, i - 1, t)
            BY <2>4 DEF Longer
        <3>4. TailOf(F[i], k + 1, r, i - 1 + 1, d)
            <4>1. i - 1 \in Nat
                OBVIOUS
            <4> QED
                BY <2>5, <3>2, <3>3, <4>1, LongerTail
        <3>5. i - 1 + 1 = i /\ d \in 0 .. i
            OBVIOUS
        <3>6. CutAt(r, i, cut, d)
            <4>1. \A j \in d + 1 .. i : j \in d + 1 .. i - 1 \/ j = i
                OBVIOUS
            <4> QED
                BY <2>4, <2>5, <2>6, <4>1 DEF CutAt
        <3>7. Kept(i, d)
            BY <3>2, <3>4, <3>5, <3>6
        <3> HIDE DEF Kept
        <3> QED
            BY <3>5, <3>7
    <2>7. CASE t <= cut
        <3>1. F[i] = a
            BY <1>3, <2>2, <2>4, <2>7
        <3>2. ASSUME NEW j \in 1 .. i PROVE r[j] <= cut /\ r[j] \in Nat
            <4>1. j \in 1 .. n /\ r[j] <= t /\ r[j] \in Nat
                BY <1>2, <2>4
            <4> QED
                BY <2>7, <4>1
        <3>3. d = i - 1
            <4> SUFFICES ASSUME d # i - 1 PROVE FALSE
                OBVIOUS
            <4>1. i - 1 \in d + 1 .. i - 1 /\ i - 1 \in 1 .. i
                OBVIOUS
            <4>2. r[i - 1] > cut /\ r[i - 1] <= cut /\ r[i - 1] \in Nat
                BY <2>5, <3>2, <4>1 DEF CutAt
            <4> QED
                BY <4>2
        <3>4. k = 0
            BY <2>5, <3>3 DEF TailOf
        <3>5. CutAt(r, i, cut, i)
            BY <3>2 DEF CutAt
        <3>6. TailOf(F[i], Len(F[i]), r, i, i)
            BY <2>3, <3>1, <3>4 DEF TailOf
        <3>7. Kept(i, i) /\ i \in 0 .. i
            BY <3>5, <3>6
        <3> HIDE DEF Kept
        <3> QED
            BY <3>7
    <2> QED
        BY <2>6, <2>7
<1>6. n \in Good
    <2>1. 0 .. n \subseteq Good
        <3> HIDE DEF Good
        <3> QED
            BY <1>4, <1>5, InductionUpTo
    <2> HIDE DEF Good
    <2> QED
        BY <2>1
<1>7. PICK d \in 0 .. n : Kept(n, d)
    BY <1>6
<1>8. Unexpired(r, now, window) = F[n] /\ F[n] \in Seq(Nat)
    BY <1>1, <1>3, <1>n
<1>9. \E d1 \in 0 .. Len(r) : /\ TailOf(F[n], Len(F[n]), r, Len(r), d1)
                             /\ CutAt(r, Len(r), now - window, d1)
    BY <1>7, <1>n, <1>c
<1> QED
    BY <1>8, <1>9, Zenon

(* What is true of a limiter that has seen calls up to the time last: it keeps
   the latest of those it let through, at most limit of them, it has dropped
   only what is out of the window, and no limit + 1 were in one window. *)
LimiterOK(h, limit, window, last) ==
    /\ h.through \in Seq(Nat) /\ InOrder(h.through, Len(h.through))
    /\ \A n \in 1 .. Len(h.through) : h.through[n] <= last
    /\ h.kept \in Seq(Nat) /\ Len(h.kept) <= limit
    /\ \E d \in 0 .. Len(h.through) :
          /\ TailOf(h.kept, Len(h.kept), h.through, Len(h.through), d)
          /\ \A n \in 1 .. d : h.through[n] <= last - window
    /\ Spaced(h.through, Len(h.through), limit, window)

(* What a call at now makes of it; it is turned away only if limit calls are in
   its window. *)
AfterCall(new, h, limit, window, now) ==
    /\ LimiterOK(new, limit, window, now)
    /\ new.through = h.through => Cardinality(Recent(h.through, now, window)) = limit

(* So does a call that comes later. *)
LEMMA ArriveKeeps ==
    ASSUME NEW h, NEW limit \in Nat, NEW window \in Nat, NEW last \in Nat, NEW now \in Nat,
           LimiterOK(h, limit, window, last), last <= now
    PROVE  AfterCall(Arrive(h, now, limit, window), h, limit, window, now)
<1> SUFFICES /\ LimiterOK(Arrive(h, now, limit, window), limit, window, now)
             /\ Arrive(h, now, limit, window).through = h.through =>
                   Cardinality(Recent(h.through, now, window)) = limit
    BY DEF AfterCall
<1>1. PICK t \in Seq(Nat) : t = h.through
    BY DEF LimiterOK
<1>2. PICK k \in Seq(Nat) : k = h.kept
    BY DEF LimiterOK
<1>3. PICK n \in Nat : n = Len(t)
    OBVIOUS
<1>4. PICK m \in Nat : m = Len(k)
    OBVIOUS
<1>5. PICK cut \in Int : cut = now - window
    OBVIOUS
<1>6. /\ InOrder(t, n) /\ Spaced(t, n, limit, window) /\ m <= limit
      /\ \A i \in 1 .. n : t[i] <= last
    BY <1>1, <1>2, <1>3, <1>4 DEF LimiterOK
<1>7. PICK d \in 0 .. n : TailOf(k, m, t, n, d) /\ \A i \in 1 .. d : t[i] <= last - window
    BY <1>1, <1>2, <1>3, <1>4 DEF LimiterOK
<1>8. InOrder(k, m)
    BY <1>6, <1>7, TailInOrder
<1>9. PICK left \in Seq(Nat) :
          /\ left = Unexpired(k, now, window)
          /\ \E f \in 0 .. m : TailOf(left, Len(left), k, m, f) /\ CutAt(k, m, cut, f)
    BY <1>4, <1>5, <1>8, UnexpiredIsTail
<1>10. PICK q \in Nat : q = Len(left)
    OBVIOUS
<1>11. PICK f \in 0 .. m : TailOf(left, q, k, m, f) /\ CutAt(k, m, cut, f)
    BY <1>9, <1>10
<1>12. \A i \in 1 .. n : t[i] \in Nat /\ t[i] <= now
    <2> SUFFICES ASSUME NEW i \in 1 .. n PROVE t[i] \in Nat /\ t[i] <= now
        OBVIOUS
    <2>1. t[i] \in Nat /\ t[i] <= last
        BY <1>6 DEF InOrder
    <2> QED
        BY <2>1
<1>13. \A i \in 1 .. d : t[i] <= cut
    <2> SUFFICES ASSUME NEW i \in 1 .. d PROVE t[i] <= cut
        OBVIOUS
    <2>1. i \in 1 .. n
        OBVIOUS
    <2>2. t[i] \in Nat /\ t[i] <= last - window
        BY <1>7, <1>12, <2>1
    <2> QED
        BY <1>5, <2>2
<1>14. PICK e \in 0 .. n : TailOf(left, q, t, n, e) /\ CutAt(t, n, cut, e)
    BY <1>6, <1>7, <1>11, <1>13, TailOfTail
<1>15. q = n - e /\ q <= limit
    <2>1. q = n - e /\ q = m - f
        BY <1>11, <1>14 DEF TailOf
    <2> QED
        BY <1>6, <2>1
<1>16. PICK new : new = Arrive(h, now, limit, window)
    OBVIOUS
<1>17. /\ new.kept = (IF q >= limit THEN left ELSE Append(left, now))
       /\ new.through = (IF q >= limit THEN t ELSE Append(t, now))
    BY <1>1, <1>2, <1>9, <1>10, <1>16 DEF Arrive, Limited, Full
<1>18. CASE q >= limit
    <2>1. new.kept = left /\ new.through = t
        BY <1>17, <1>18
    <2>2. LimiterOK(new, limit, window, now)
        <3>1. \A i \in 1 .. e : t[i] <= now - window
            BY <1>5, <1>14 DEF CutAt
        <3> QED
            BY <1>3, <1>6, <1>10, <1>12, <1>14, <1>15, <2>1, <3>1 DEF LimiterOK
    <2>3. ASSUME NEW i \in 1 .. n PROVE t[i] > cut <=> i \in e + 1 .. n
        <3>1. CASE i \in 1 .. e
            <4>1. t[i] <= cut /\ t[i] \in Nat /\ ~(i \in e + 1 .. n)
                BY <1>12, <1>14, <3>1 DEF CutAt
            <4> QED
                BY <4>1
        <3>2. CASE i \notin 1 .. e
            <4>1. i \in e + 1 .. n
                BY <3>2
            <4> QED
                BY <1>14, <4>1 DEF CutAt
        <3> QED
            BY <3>1, <3>2
    <2>4. {i \in 1 .. n : t[i] > cut} = e + 1 .. n
        <3>1. e + 1 .. n \subseteq 1 .. n
            OBVIOUS
        <3> QED
            BY <2>3, <3>1
    <2>5. Cardinality(e + 1 .. n) = limit
        <3>1. e + 1 \in Int /\ n \in Int /\ n - (e + 1) + 1 = limit
            BY <1>15, <1>18
        <3>2. e + 1 > n => limit = 0
            BY <3>1
        <3>3. Cardinality(e + 1 .. n) = IF e + 1 > n THEN 0 ELSE n - (e + 1) + 1
            BY <3>1, FS_Interval
        <3> QED
            BY <3>1, <3>2, <3>3
    <2>6. DOMAIN t = 1 .. n
        BY <1>3
    <2> QED
        BY <1>1, <1>5, <1>16, <2>2, <2>4, <2>5, <2>6 DEF Recent
<1>19. CASE q < limit
    <2>1. PICK u \in Seq(Nat) : u = Append(t, now)
        BY AppendIsLonger, Zenon
    <2>2. PICK v \in Seq(Nat) : v = Append(left, now)
        BY AppendIsLonger, Zenon
    <2>3. Longer(u, t, n, now) /\ Len(u) = n + 1 /\ Longer(v, left, q, now) /\ Len(v) = q + 1
        BY <1>3, <1>10, <2>1, <2>2, AppendIsLonger
    <2>4. new.kept = v /\ new.through = u
        BY <1>17, <1>19, <2>1, <2>2
    <2>5. InOrder(u, n + 1) /\ \A i \in 1 .. n + 1 : u[i] <= now
        BY <1>6, <1>12, <2>3, LongerInOrder
    <2>6. TailOf(v, q + 1, u, n + 1, e)
        BY <1>14, <2>3, LongerTail
    <2>7. Spaced(u, n + 1, limit, window) /\ \A i \in 1 .. e : u[i] <= now - window
        <3>1. n - e < limit /\ CutAt(t, n, now - window, e)
            BY <1>5, <1>14, <1>15, <1>19
        <3> QED
            BY <1>6, <2>3, <3>1, LongerSpaced
    <2>8. e \in 0 .. n + 1 /\ q + 1 <= limit /\ n + 1 # n
        BY <1>19
    <2>9. LimiterOK(new, limit, window, now)
        BY <2>3, <2>4, <2>5, <2>6, <2>7, <2>8 DEF LimiterOK
    <2>10. new.through # t
        BY <1>3, <2>3, <2>4, <2>8
    <2> QED
        BY <1>1, <1>16, <2>9, <2>10
<1> QED
    BY <1>18, <1>19

(* A limiter goes from call to call by Arrive. *)
LEMMA LimiterSteps ==
    ASSUME NEW s \in Seq(Nat), NEW limit \in Nat, NEW window \in Nat
    PROVE  /\ Limiter(s, limit, window)[0] = [kept |-> <<>>, through |-> <<>>]
           /\ \A i \in 1 .. Len(s) :
                 Limiter(s, limit, window)[i] = Arrive(Limiter(s, limit, window)[i - 1], s[i], limit, window)
<1> DEFINE none == [kept |-> <<>>, through |-> <<>>]
           L == [kept : Seq(Nat), through : Seq(Nat)]
           Rec(g) == [i \in 0 .. Len(s) |-> IF i = 0 THEN none ELSE Arrive(g[i - 1], s[i], limit, window)]
           F == CHOOSE g : g = Rec(g)
           next == [p \in (1 .. Len(s)) \X L |-> Arrive(p[2], s[p[1]], limit, window)]
<1>1. Limiter(s, limit, window) = F
    BY Zenon DEF Limiter
<1>2. Len(s) \in Nat /\ \A i \in 1 .. Len(s) : s[i] \in Nat
    OBVIOUS
<1>3. ASSUME NEW h \in L, NEW now \in Nat PROVE Arrive(h, now, limit, window) \in L
    <2>1. Unexpired(h.kept, now, window) \in Seq(Nat)
        <3>1. PICK r \in Seq(Nat) : r = h.kept
            BY <1>3
        <3>2. PICK G \in [0 .. Len(r) -> Seq(Nat)] : Unexpired(r, now, window) = G[Len(r)]
            BY UnexpiredBySteps
        <3>3. Len(r) \in 0 .. Len(r)
            OBVIOUS
        <3> QED
            BY <3>1, <3>2, <3>3
    <2>2. h.through \in Seq(Nat)
        OBVIOUS
    <2>3. Append(Unexpired(h.kept, now, window), now) \in Seq(Nat) /\ Append(h.through, now) \in Seq(Nat)
        BY <2>1, <2>2, AppendIsLonger
    <2> QED
        BY <2>1, <2>2, <2>3 DEF Arrive, Limited
<1>4. PICK f : Steps(f, Len(s), L, none, next)
    <2>1. none \in L
        OBVIOUS
    <2>2. next \in [(1 .. Len(s)) \X L -> L]
        <3> SUFFICES ASSUME NEW i \in 1 .. Len(s), NEW h \in L
                     PROVE  Arrive(h, s[i], limit, window) \in L
            OBVIOUS
        <3> HIDE DEF L
        <3> QED
            BY <1>2, <1>3
    <2> HIDE DEF L, none, next
    <2> QED
        BY <1>2, <2>1, <2>2, StepsExist
<1> HIDE DEF L, none
<1>5. f = Rec(f)
    <2>1. /\ f = [i \in 0 .. Len(s) |-> f[i]] /\ f[0] = none
          /\ \A i \in 0 .. Len(s) : f[i] \in L
          /\ \A i \in 1 .. Len(s) : f[i] = next[<<i, f[i - 1]>>]
        BY <1>4 DEF Steps
    <2>2. ASSUME NEW i \in 1 .. Len(s) PROVE f[i] = Arrive(f[i - 1], s[i], limit, window)
        <3>1. f[i - 1] \in L /\ <<i, f[i - 1]>> \in (1 .. Len(s)) \X L
            BY <1>2, <2>1
        <3> QED
            BY <2>1, <3>1
    <2>3. ASSUME NEW i \in 0 .. Len(s)
          PROVE  f[i] = IF i = 0 THEN none ELSE Arrive(f[i - 1], s[i], limit, window)
        <3>1. i = 0 \/ i \in 1 .. Len(s)
            BY <1>2
        <3>2. ~(0 \in 1 .. Len(s))
            OBVIOUS
        <3> QED
            BY <2>1, <2>2, <3>1, <3>2, Zenon
    <2> QED
        BY <2>1, <2>3, Zenon
<1>6. F = Rec(F)
    <2> HIDE DEF Rec
    <2> QED
        BY <1>5
<1> HIDE DEF F
<1>7. \A i \in 0 .. Len(s) : F[i] = IF i = 0 THEN none ELSE Arrive(F[i - 1], s[i], limit, window)
    BY <1>6, Zenon
<1>8. 0 \in 0 .. Len(s) /\ \A i \in 1 .. Len(s) : i \in 0 .. Len(s) /\ i # 0
    BY <1>2
<1> QED
    BY <1>1, <1>7, <1>8, Zenon DEF none

(* The limiter after each call of s, which come in order. *)
LEMMA LimiterStaysOK ==
    ASSUME NEW s \in Seq(Nat), Sorted(s), NEW limit \in Nat, NEW window \in Nat
    PROVE  /\ \A i \in 1 .. Len(s) :
                 LimiterOK(Limiter(s, limit, window)[i], limit, window, s[i])
           /\ \A i \in 1 .. Len(s) : LET t == Limiter(s, limit, window)[i - 1].through IN
                 Limiter(s, limit, window)[i].through = t =>
                    Cardinality(Recent(t, s[i], window)) = limit
<1>1. PICK F : F = Limiter(s, limit, window)
    OBVIOUS
<1>2. F[0] = [kept |-> <<>>, through |-> <<>>]
      /\ \A i \in 1 .. Len(s) : F[i] = Arrive(F[i - 1], s[i], limit, window)
    BY <1>1, LimiterSteps
<1>3. PICK n \in Nat : n = Len(s)
    OBVIOUS
<1>4. \A i \in 1 .. n : s[i] \in Nat /\ \A j \in 1 .. i : s[j] <= s[i]
    <2>1. InOrder(s, n)
        BY <1>3, SortedInOrder
    <2>2. \A i \in 1 .. n : \A j \in 1 .. i : j \in 1 .. n /\ j <= i
        OBVIOUS
    <2> QED
        BY <2>1, <2>2, Zenon DEF InOrder
<1> DEFINE last(i) == IF i = 0 THEN 0 ELSE s[i]
           Good == {i \in 0 .. n : LimiterOK(F[i], limit, window, last(i))}
<1>5. 0 \in Good
    <2>1. TailOf(<<>>, 0, <<>>, 0, 0)
        BY DEF TailOf
    <2>2. InOrder(<<>>, 0) /\ Spaced(<<>>, 0, limit, window)
        BY DEF InOrder, Spaced
    <2>3. Len(<<>>) = 0 /\ <<>> \in Seq(Nat) /\ 0 <= limit
        OBVIOUS
    <2>4. LimiterOK([kept |-> <<>>, through |-> <<>>], limit, window, 0)
        BY <2>1, <2>2, <2>3 DEF LimiterOK
    <2> QED
        BY <1>2, <2>4
<1>6. ASSUME NEW i \in 1 .. n, i - 1 \in Good
      PROVE  /\ i \in Good
             /\ F[i].through = F[i - 1].through =>
                   Cardinality(Recent(F[i - 1].through, s[i], window)) = limit
    <2>1. PICK now \in Nat : now = s[i]
        BY <1>4
    <2>2. PICK before \in Nat : before = last(i - 1) /\ before <= now
        <3>1. CASE i = 1
            BY <3>1, <2>1
        <3>2. CASE i # 1
            <4>1. i - 1 \in 1 .. i /\ i - 1 \in 1 .. n
                BY <3>2
            <4> QED
                BY <1>4, <2>1, <4>1
        <3> QED
            BY <3>1, <3>2
    <2>3. PICK h : h = F[i - 1]
        OBVIOUS
    <2>4. LimiterOK(h, limit, window, before)
        BY <1>6, <2>2, <2>3
    <2>5. F[i] = Arrive(h, now, limit, window)
        BY <1>2, <1>3, <2>1, <2>3
    <2>6. LimiterOK(F[i], limit, window, now)
          /\ (F[i].through = h.through =>
                Cardinality(Recent(h.through, now, window)) = limit)
        <3>1. AfterCall(Arrive(h, now, limit, window), h, limit, window, now)
            BY <2>2, <2>4, ArriveKeeps
        <3> QED
            BY <2>5, <3>1 DEF AfterCall
    <2>7. i # 0 /\ i \in 0 .. n
        OBVIOUS
    <2> QED
        BY <2>1, <2>3, <2>6, <2>7
<1>7. 0 .. n \subseteq Good
    <2> HIDE DEF Good
    <2> QED
        BY <1>5, <1>6, InductionUpTo
<1>8. ASSUME NEW i \in 1 .. n
      PROVE  LimiterOK(F[i], limit, window, s[i]) /\ i - 1 \in Good
    <2>1. i \in 0 .. n /\ i - 1 \in 0 .. n /\ i # 0
        OBVIOUS
    <2>2. i \in Good /\ i - 1 \in Good
        BY <1>7, <2>1
    <2> QED
        BY <2>1, <2>2
<1> HIDE DEF Good
<1> QED
    BY <1>1, <1>3, <1>6, <1>8

(* The limiter lets no more calls than the limit into any window of its length,
   and turns a call away only when that many are in the one that ends with it:
   whatever the limit and the window, whenever the calls come. *)
LEMMA LimiterKeepsLimit ==
    ASSUME workload \in Workloads
    PROVE  WithinLimit
<1> SUFFICES ASSUME NEW s, s = workload.arrivals, NEW limit, limit = workload.limit,
                    NEW window, window = workload.window,
                    NEW F, F = Limiter(s, limit, window)
             PROVE  /\ \A n \in 1 .. Len(F[Len(s)].through) - limit :
                          F[Len(s)].through[n + limit] - F[Len(s)].through[n] >= window
                    /\ \A i \in 1 .. Len(s) :
                          F[i].through = F[i - 1].through =>
                             Cardinality(Recent(F[i - 1].through, s[i], window)) = limit
    BY DEF WithinLimit
<1>1. s \in Seq(Nat) /\ Sorted(s) /\ limit \in Nat /\ window \in Nat
    BY AccessAssumption
<1>2. \A i \in 1 .. Len(s) :
          F[i].through = F[i - 1].through =>
             Cardinality(Recent(F[i - 1].through, s[i], window)) = limit
    BY <1>1, LimiterStaysOK
<1>3. CASE Len(s) = 0
    <2>1. F[Len(s)].through = <<>>
        <3>1. /\ Limiter(s, limit, window)[0] = [kept |-> <<>>, through |-> <<>>]
              /\ \A i \in 1 .. Len(s) :
                    Limiter(s, limit, window)[i] = Arrive(Limiter(s, limit, window)[i - 1], s[i], limit, window)
            BY <1>1, LimiterSteps, Zenon
        <3>2. F[Len(s)] = [kept |-> <<>>, through |-> <<>>]
            BY <3>1, <1>3, Zenon
        <3> QED
            BY <3>2
    <2>2. 1 .. 0 - limit = {}
        BY <1>1
    <2>3. Len(F[Len(s)].through) = 0
        BY <2>1
    <2>4. 1 .. Len(F[Len(s)].through) - limit = {}
        BY <2>2, <2>3
    <2> QED
        BY <1>2, <2>4, Zenon
<1>4. CASE Len(s) # 0
    <2>1. Len(s) \in 1 .. Len(s)
        BY <1>1, <1>4
    <2>2. LimiterOK(F[Len(s)], limit, window, s[Len(s)])
        BY <1>1, <2>1, LimiterStaysOK
    <2> QED
        BY <1>2, <2>2 DEF LimiterOK, Spaced
<1> QED
    BY <1>3, <1>4

(* The run evaluates it for short bursts of calls; it holds of every workload. *)
THEOREM LimiterIsFair == Spec => []WithinLimit
<1>1. AccessInv => WithinLimit
    BY LimiterKeepsLimit DEF AccessInv, TypeOK
<1> QED
    BY <1>1, Invariance, PTL
==============================================================================
