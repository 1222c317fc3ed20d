------------------------------- MODULE Access -------------------------------
(***************************************************************************)
(* Who a CryptoDB server answers: the tokens of auth/session.py and the    *)
(* black list, the challenges of auth/mfa.py, the users, their roles and   *)
(* the grants on one record, and the calls of the SDK and the commands.    *)
(*                                                                         *)
(* A login or a refresh issues a pair of tokens; the n-th pair is n, and   *)
(* <<"access", n>> and <<"refresh", n>> are the names of its tokens.  One  *)
(* action is what a request does between two awaits; what it writes shows  *)
(* when it commits, and one request at a time holds the write lock.  Roles *)
(* and active users are what the rows say when a request loads its user.   *)
(***************************************************************************)
EXTENDS Clients

CONSTANTS
    Users, Admin, Owner,    \* the user bootstrap-admin made, the record's owner
    NoUser,
    SdkClients, NoClient,
    Calls, NoCall,          \* NoCall: nobody holds the write lock
    Rule, Addresses,        \* the geographic rule and where calls come from
    Roles, Permissions,     \* the roles and permissions that are given; bound
    Workloads,              \* bound: which operations run together, in a behaviour
    MaxChallenges           \* bound: challenges ever made

ASSUME AccessAssumption ==
    /\ {Admin, Owner} \subseteq Users /\ NoUser \notin Users /\ NoRole \notin Roles
    /\ NoClient \notin SdkClients /\ NoCall \notin Calls
    /\ MaxChallenges \in Nat
    /\ \A w \in Workloads : 
          /\ w.users \cup w.callers \cup w.grantees \subseteq Users /\ w.roles \subseteq Roles
          /\ w.pairs \in Nat /\ w.grants \in Nat /\ w.cli \in BOOLEAN
          /\ w.arrivals \in Seq(Nat) /\ Sorted(w.arrivals) /\ w.limit \in Nat /\ w.window \in Nat

VARIABLES
    workload,       \* which operations run: [ops, users (registered at
                    \* first), callers, roles (given), grantees, pairs, grants (made), cli,
                    \* arrivals (the times one client calls one route), limit, window]
    users,          \* role and active flag; the role is NoRole until registered
    grants,         \* the ACL rows of the record, in the order of their commits
    pairs,          \* the sessions: [user, parent, revoked]
    black,          \* the token black list
    chal,           \* the challenges: [user, open, uses, raced]
    keys,           \* the users with a hardware credential
    held,           \* the pair whose access token a client keeps, or 0
    writer,         \* the call that holds the write lock
    job             \* what each call is doing

tables == <<users, grants, pairs, black, keys>>
vars   == <<workload, tables, chal, held, writer, job>>

Given  == Roles \cup {"reader", "writer", "admin"}
Person == [role : Given \cup {NoRole}, active : BOOLEAN]
Grant  == [user : Users \cup {NoUser}, role : Roles \cup {NoRole}, permission : Permissions, live : BOOLEAN]
MFAChallenge == [user : Users, open : BOOLEAN, uses : Nat, raced : BOOLEAN]
Open   == {"login", "register", "refresh", "logout", "begin", "finish", "keyless"}
Waits  == {"blacklist", "user", "handler", "flush", "commit"}
Answer == {"none", "served", "refused", "busy", "failed"}
(* late, dead: the token was revoked, the user disabled, when the call came. *)
Job    == [at : Waits \cup {"idle", "done"}, op : Open \cup Asked \cup {"none"},
           client : SdkClients \cup {NoClient}, who : Users \cup {NoUser},
           num : Nat, to : Users \cup {NoUser}, role : Given \cup {NoRole},
           permission : Permissions \cup {"none"}, may : Person,
           answer : Answer, late : BOOLEAN, dead : BOOLEAN]
Nobody == [role |-> NoRole, active |-> FALSE]
NoJob  == [at |-> "idle", op |-> "none", client |-> NoClient, who |-> NoUser,
           num |-> 0, to |-> NoUser, role |-> NoRole, permission |-> "none", may |-> Nobody,
           answer |-> "none", late |-> FALSE, dead |-> FALSE]

(* The database of a server that has been in use: some users have registered,
   and the owner was made one who may create records. *)
Init ==
    /\ workload \in Workloads
    /\ users = [u \in Users |->
          [role |-> CASE u \notin workload.users -> NoRole
                      [] u = Admin -> "admin"
                      [] u = Owner -> "writer"
                      [] OTHER -> "reader",
           active |-> TRUE]]
    /\ grants = <<>> /\ pairs = <<>> /\ chal = <<>>
    /\ black = {} /\ keys = {}
    /\ held = [c \in SdkClients |-> 0]
    /\ writer = NoCall
    /\ job = [k \in Calls |-> NoJob]

-----------------------------------------------------------------------------
(* The life of a call. *)

Begin(call, op, new) ==
    /\ op \in workload.ops /\ job[call].at = "idle"
    /\ job' = [job EXCEPT ![call] = new]

(* The answer; what was asked, and whose call it was, matters where it is
   served. *)
Done(j, answer) ==
    LET ended == [NoJob EXCEPT !.at = "done", !.client = j.client, !.answer = answer]
    IN  IF answer = "served" THEN [ended EXCEPT !.op = j.op, !.who = j.who, !.late = j.late] ELSE ended
Give(call, answer) == job' = [job EXCEPT ![call] = Done(@, answer)]

(* A command makes one call after the other. *)
Ready(client) == workload.cli => \A k \in Calls : job[k].client # client

Registered(u) == users[u].role # NoRole
Dead(u) == ~users[u].active

Came(at, client, op, u, n) ==
    [NoJob EXCEPT !.op = op, !.at = at, !.client = client, !.who = u, !.num = n, !.dead = Dead(u)]

(* A request that needs no token, as far as its first await: it goes on to
   write, or is answered. *)
Enter(call, client, op, u, n, ok) ==
    LET came == Came("flush", client, op, u, n)
    IN  Begin(call, op, IF ok THEN came ELSE Done(came, "refused"))

Register(call, client, u) ==
    /\ Enter(call, client, "register", u, 0, TRUE)
    /\ UNCHANGED <<workload, tables, chal, held, writer>>

(* A disabled user logs in like any other. *)
Login(call, client, u) ==
    /\ Len(pairs) < workload.pairs /\ Ready(client)
    /\ workload.cli => held[client] = 0
    /\ Enter(call, client, "login", u, 0, Registered(u))
    /\ UNCHANGED <<workload, tables, chal, held, writer>>

(* rotate_refresh_token as far as its writes; any pair ever issued may come
   back, or come too late. *)
Refresh(call, client, n) ==
    /\ Len(pairs) < workload.pairs
    /\ \E expired \in BOOLEAN : Enter(call, client, "refresh", pairs[n].user, n, ~pairs[n].revoked /\ ~expired)
    /\ UNCHANGED <<workload, tables, chal, held, writer>>

(* revoke_token blacklists the access token, and looks at nothing else; of one
   that has expired it writes nothing, and the answer is the same to a client. *)
Logout(call, client) ==
    /\ held[client] # 0
    /\ LET n == held[client]
           u == pairs[n].user
       IN  \/ Enter(call, client, "logout", u, n, TRUE)
           \/ Begin(call, "logout", Done(Came("flush", client, "logout", u, n), "served"))
    /\ UNCHANGED <<workload, tables, chal, held, writer>>

(* The methods that send no token to routes that need one. *)
AskKeyless(call, client, u) ==
    /\ Enter(call, client, "keyless", u, 0, FALSE)
    /\ UNCHANGED <<workload, tables, chal, held, writer>>

(* get_current_user as far as the black list: the window, the networks, and
   whether the token can still be read. *)
Ask(call, client, op) ==
    /\ op \in Asked /\ held[client] # 0 /\ Ready(client)
    /\ workload.cli => op \in Commanded
    /\ LET n == held[client]
           u == pairs[n].user
           came == [Came("blacklist", client, op, u, n) EXCEPT !.late = <<"access", n>> \in black]
       IN  \/ \E why \in {"busy", "refused"} : Begin(call, op, Done(came, why))
           \/ \E a \in Addresses :
                Begin(call, op, IF InRule(a, Rule) THEN came ELSE Done(came, "refused"))
    /\ UNCHANGED <<workload, tables, chal, held, writer>>

(* Mutation: the black list is not asked. *)
Trusted(n) == TRUE

NotRevoked(n) == <<"access", n>> \notin black

CheckBlacklist(call) ==
    /\ job[call].at = "blacklist"
    /\ IF NotRevoked(job[call].num) THEN job' = [job EXCEPT ![call].at = "user", ![call].num = 0]
                                    ELSE Give(call, "refused")
    /\ UNCHANGED <<workload, tables, chal, held, writer>>

LoadUser(call) ==
    /\ job[call].at = "user"
    /\ job' = [job EXCEPT ![call].at = "handler", ![call].may = users[job[call].who]]
    /\ UNCHANGED <<workload, tables, chal, held, writer>>

-----------------------------------------------------------------------------
(* What the routes decide. *)

Managers(j) == j.who = Owner \/ has_permission(j.may, "admin")

Fits(j, permission) == can_access(grants, j.who, j.may.role, permission)

(* A search skips the records out of reach, and raises where can_access does. *)
Searching(j) ==
    IF ~has_permission(j.may, "read") THEN "refused"
    ELSE IF j.who # Owner /\ Fits(j, "read") = "raises" THEN "failed" ELSE "served"

ListsGrants(j) == Managers(j) \/ \E g \in DOMAIN grants : grants[g].live /\ grants[g].user = j.who

(* What a route that changes nothing here answers. *)
Decision(j) ==
    LET allowed == [yes |-> "served", no |-> "refused", raises |-> "failed"]
    IN  CASE j.op \in {"read", "delete"} -> allowed[Reaches(grants, Owner, j.who, j.may, j.op)]
          [] j.op \in {"admin", "audit", "create"} -> IF has_permission(j.may, j.op) THEN "served" ELSE "refused"
          [] j.op = "find" -> Searching(j)
          [] j.op = "grants" -> IF ListsGrants(j) THEN "served" ELSE "refused"
          [] OTHER -> "refused"

Plain == {"read", "delete", "admin", "audit", "create", "find", "grants"}

Decide(call) ==
    /\ job[call].at = "handler" /\ job[call].op \in Plain
    /\ Give(call, Decision(job[call]))
    /\ UNCHANGED <<workload, tables, chal, held, writer>>

(* A route goes on to write if it may, and is refused otherwise. *)
Proceed(call, op, may, new) ==
    /\ job[call].at = "handler" /\ job[call].op = op
    /\ IF may THEN job' = [job EXCEPT ![call] = [new EXCEPT !.at = "flush"]] ELSE Give(call, "refused")
    /\ UNCHANGED <<workload, tables, chal, held, writer>>

(* To a user, to a role, to both or to nobody. *)
GrantRecordAccess(call) ==
    \E permission \in Permissions, u \in workload.grantees \cup {NoUser},
       role \in workload.roles \cup {NoRole} :
        /\ Len(grants) < workload.grants
        /\ Proceed(call, "grant_record_access", Managers(job[call]) /\ (u = NoUser \/ Registered(u)),
                   [job[call] EXCEPT !.to = u, !.role = role, !.permission = permission])

RevokeRecordAccess(call) ==
    \E g \in DOMAIN grants :
        /\ grants[g].live
        /\ Proceed(call, "revoke_record_access", Managers(job[call]), [job[call] EXCEPT !.num = g])

(* A role is any string. *)
SetUserRole(call) ==
    \E u \in Users, role \in workload.roles :
        /\ Registered(u)
        /\ Proceed(call, "set_user_role", has_permission(job[call].may, "admin"),
                   [job[call] EXCEPT !.to = u, !.role = role])

(* delete_user and disable_user do the same; nothing enables a user again. *)
DisableUser(call) ==
    \E u \in Users, op \in {"delete_user", "disable_user"} :
        /\ Registered(u)
        /\ Proceed(call, op, has_permission(job[call].may, "admin"), [job[call] EXCEPT !.to = u])

-----------------------------------------------------------------------------
(* Hardware tokens. *)

NewChallenge(u) == chal' = Append(chal, [user |-> u, open |-> TRUE, uses |-> 0, raced |-> FALSE])

RegisterBegin(call) ==
    /\ job[call].at = "handler" /\ job[call].op = "hardware_register_begin"
    /\ Len(chal) < MaxChallenges
    /\ NewChallenge(job[call].who) /\ Give(call, "served")
    /\ UNCHANGED <<workload, tables, held, writer>>

(* What a challenge was made for is not compared; a response that does not
   verify is refused. *)
RegisterFinish(call) ==
    \E n \in DOMAIN chal, verified \in BOOLEAN :
        Proceed(call, "hardware_register_finish",
                chal[n].open /\ chal[n].user = job[call].who /\ verified, [job[call] EXCEPT !.num = n])

AuthenticateBegin(call, client, u) ==
    /\ Len(chal) < MaxChallenges
    /\ Begin(call, "begin", Done(Came("flush", client, "begin", u, 0), IF u \in keys THEN "served" ELSE "refused"))
    /\ IF u \in keys THEN NewChallenge(u) ELSE UNCHANGED chal
    /\ UNCHANGED <<workload, tables, held, writer>>

(* It gets the challenge here and removes it when it flushes; raced: another
   request has the challenge in hand. *)
Answering(n) == \E k \in Calls : /\ job[k].op \in {"finish", "hardware_register_finish"}
                                 /\ job[k].at = "flush" /\ job[k].num = n

AuthenticateFinish(call, client, n) ==
    /\ Len(pairs) < workload.pairs
    /\ \E verified \in BOOLEAN :
        LET ok == chal[n].open /\ verified
        IN  /\ Enter(call, client, "finish", chal[n].user, n, ok)
            /\ chal' = [chal EXCEPT ![n].raced = @ \/ (ok /\ Answering(n))]
    /\ UNCHANGED <<workload, tables, held, writer>>

-----------------------------------------------------------------------------
(* The writes. *)

(* What a UNIQUE constraint refuses: the name of a user, a token black-listed
   already. *)
(* Mutation: the names of black-listed tokens need not be unique. *)
TakenNames(j) == j.op = "register" /\ Registered(j.who)

Taken(j) ==
    \/ j.op = "register" /\ Registered(j.who)
    \/ j.op = "refresh"  /\ <<"refresh", j.num>> \in black
    \/ j.op = "logout"   /\ <<"access", j.num>> \in black

(* Mutation: the challenge stays. *)
RemovedNever(j) == chal

Removed(j) ==
    IF j.op \in {"finish", "hardware_register_finish"} THEN [chal EXCEPT ![j.num].open = FALSE] ELSE chal

Flush(call) ==
    /\ job[call].at = "flush" /\ writer = NoCall
    /\ IF Taken(job[call]) THEN Give(call, "failed") /\ UNCHANGED <<chal, writer>>
       ELSE /\ job' = [job EXCEPT ![call].at = "commit"]
            /\ chal' = Removed(job[call])
            /\ writer' = call
    /\ UNCHANGED <<workload, tables, held>>

(* Mutation: a call that ends keeps the lock. *)
ReleaseNone(call) == writer

Release(call) == IF writer = call THEN NoCall ELSE writer

Pair(u, parent) == [user |-> u, parent |-> parent, revoked |-> FALSE]

(* What is issued when a call commits: create_session for three routes. *)
Issued(j) ==
    CASE j.op \in {"login", "finish"} -> Append(pairs, Pair(j.who, 0))
      [] j.op = "refresh" -> Append([pairs EXCEPT ![j.num].revoked = TRUE], Pair(j.who, j.num))
      [] OTHER -> pairs

Blacklisted(j) ==
    CASE j.op = "refresh" -> black \cup {<<"refresh", j.num>>}
      [] j.op = "logout"  -> black \cup {<<"access", j.num>>}
      [] OTHER -> black

(* Mutation: a grant takes the place of the one before it. *)
GrantedAnew(j) ==
    CASE j.op = "grant_record_access" ->
            <<[user |-> j.to, role |-> j.role, permission |-> j.permission, live |-> TRUE]>>
      [] j.op = "revoke_record_access" -> [grants EXCEPT ![j.num].live = FALSE]
      [] OTHER -> grants

Granted(j) ==
    CASE j.op = "grant_record_access" ->
            Append(grants, [user |-> j.to, role |-> j.role, permission |-> j.permission, live |-> TRUE])
      [] j.op = "revoke_record_access" -> [grants EXCEPT ![j.num].live = FALSE]
      [] OTHER -> grants

UsersAfter(j) ==
    CASE j.op = "register"      -> [users EXCEPT ![j.who].role = "reader"]
      [] j.op = "set_user_role" -> [users EXCEPT ![j.to].role = j.role]
      [] j.op \in {"delete_user", "disable_user"} -> [users EXCEPT ![j.to].active = FALSE]
      [] OTHER -> users

Commit(call) ==
    LET j == job[call]
    IN  /\ j.at = "commit"
        /\ pairs' = Issued(j) /\ black' = Blacklisted(j)
        /\ grants' = Granted(j) /\ users' = UsersAfter(j)
        /\ keys' = IF j.op = "hardware_register_finish" THEN keys \cup {j.who} ELSE keys
        /\ chal' = IF j.op = "finish" THEN [chal EXCEPT ![j.num].uses = @ + 1] ELSE chal
        /\ writer' = Release(call)
        (* The number of the new pair is part of the answer. *)
        /\ job' = [job EXCEPT ![call] = [Done(j, "served") EXCEPT !.num = IF pairs' # pairs THEN Len(pairs') ELSE 0]]
        /\ UNCHANGED <<workload, held>>

(* The database is locked for too long, or refuses. *)
Fail(call) ==
    /\ job[call].at \in {"flush", "commit"}
    /\ Give(call, "failed")
    /\ writer' = Release(call)
    /\ UNCHANGED <<workload, tables, chal, held>>

-----------------------------------------------------------------------------
(* The client gets the answer, unless it is lost; a command ends with its
   call, and leaves its token good. *)
Receive(call) ==
    LET j == job[call]
        kept == CASE j.answer = "served" /\ j.op \in {"login", "refresh", "finish"} -> j.num
                  [] j.answer = "served" /\ j.op = "logout" -> 0
                  [] workload.cli -> 0
                  [] OTHER -> held[j.client]
    IN  /\ j.at = "done"
        /\ \/ held' = [held EXCEPT ![j.client] = kept]
           \/ held' = [held EXCEPT ![j.client] = IF workload.cli THEN 0 ELSE @]
        /\ job' = [job EXCEPT ![call] = NoJob]
        /\ UNCHANGED <<workload, tables, chal, writer>>

(* A client is closed, or its process ends. *)
Close(client) ==
    /\ held[client] # 0 /\ Ready(client)
    /\ held' = [held EXCEPT ![client] = 0]
    /\ UNCHANGED <<workload, tables, chal, writer, job>>

ChallengeExpires(n) ==
    /\ chal[n].open
    /\ chal' = [chal EXCEPT ![n].open = FALSE]
    /\ UNCHANGED <<workload, tables, held, writer, job>>

(* The process restarts: the challenges are gone, the tokens are as good as
   they were; a command that waits for an answer ends. *)
Crash ==
    /\ job' = [k \in Calls |-> NoJob] /\ writer' = NoCall
    /\ chal' = [n \in DOMAIN chal |-> [chal[n] EXCEPT !.open = FALSE]]
    /\ held' = [c \in SdkClients |-> IF Ready(c) THEN held[c] ELSE 0]
    /\ UNCHANGED <<workload, tables>>

Next ==
    \/ \E call \in Calls, client \in SdkClients, u \in workload.callers :
          Register(call, client, u) \/ Login(call, client, u) \/ AskKeyless(call, client, u)
              \/ AuthenticateBegin(call, client, u)
    \/ \E call \in Calls, client \in SdkClients :
          \/ \E n \in DOMAIN pairs : Refresh(call, client, n)
          \/ \E n \in DOMAIN chal : AuthenticateFinish(call, client, n)
          \/ \E op \in workload.ops : Ask(call, client, op)
          \/ Logout(call, client)
    \/ \E call \in Calls :
          \/ CheckBlacklist(call) \/ LoadUser(call) \/ Decide(call)
          \/ GrantRecordAccess(call) \/ RevokeRecordAccess(call) \/ SetUserRole(call) \/ DisableUser(call)
          \/ RegisterBegin(call) \/ RegisterFinish(call)
          \/ Flush(call) \/ Commit(call) \/ Fail(call) \/ Receive(call)
    \/ \E client \in SdkClients : Close(client)
    \/ \E n \in DOMAIN chal : ChallengeExpires(n)
    \/ Crash

Spec == Init /\ [][Next]_vars

-----------------------------------------------------------------------------
(* One call holds the lock, the one that has written and not committed. *)
TypeOK ==
    /\ workload \in Workloads
    /\ users \in [Users -> Person]
    /\ grants \in Seq(Grant)
    /\ pairs \in Seq([user : Users, parent : Nat, revoked : BOOLEAN])
    /\ black \subseteq {"access", "refresh"} \X (1 .. Len(pairs))
    /\ chal \in Seq(MFAChallenge)
    /\ keys \subseteq Users
    /\ held \in [SdkClients -> 0 .. Len(pairs)]
    /\ job \in [Calls -> Job]
    /\ {k \in Calls : job[k].at = "commit"} = {writer} \ {NoCall}

(* Whose token a call came with and what has come of it; nothing is said of a
   call that needs none, or that was turned down. *)
Standing(j) ==
    IF j.at = "idle" \/ j.op \in Open \/ (j.at = "done" /\ j.answer # "served")
    THEN [of |-> NoUser, is |-> "nothing"]
    ELSE [of |-> j.who, is |-> IF j.at = "done" THEN "served" ELSE IF j.late THEN "revoked" ELSE "good"]

Handed    == [n \in DOMAIN pairs |-> [user |-> pairs[n].user, parent |-> pairs[n].parent]]
Spent     == {n \in DOMAIN pairs : pairs[n].revoked}
Withdrawn == {n \in DOMAIN pairs : <<"access", n>> \in black}
Standings == [k \in Calls |-> Standing(job[k])]

(* The server keeps the promise of Sessions, whatever requests present a token
   together, fail or lose their answer.  Two that refresh one session may both
   have found it unrevoked: it is the name in the black list that lets one of
   them commit (rotate_refresh_token, revoke_token, get_current_user). *)
Promise == INSTANCE Sessions WITH
    issued <- Handed, spent <- Spent, revoked <- Withdrawn, call <- Standings
ImplementsSessions == Promise!Spec

(* A call that came with a token revoked before is never answered, after a
   restart neither (get_current_user). *)
RevokedRefused == \A k \in Calls : job[k].late => job[k].answer # "served"

(* Once a user is disabled, a call that comes later is let through nowhere for
   what the user's role permits: only to the record's owner, for a grant that
   still stands and fits the caller, by name or by role (can_access), or by the
   routes that look at no flag at all. *)
OwnersOps == {"read", "delete", "grants", "grant_record_access", "revoke_record_access"}
RolelessFor(j) ==
    \/ j.op \in {"hardware_register_begin", "hardware_register_finish"}
    \/ j.op \in OwnersOps /\ j.who = Owner
    \/ j.op \in {"read", "delete"} /\ Matching(grants, j.who, j.may.role, j.op) # {}
    \/ j.op = "grants" /\ \E g \in DOMAIN grants : grants[g].live /\ grants[g].user = j.who
LetThrough(k) == job[k].at = "handler" /\ (job'[k].at = "flush" \/ job'[k].answer = "served")
DisabledHaveNoRole ==
    [][\A k \in Calls : job[k].dead /\ LetThrough(k) => RolelessFor(job[k])]_vars

(* A challenge gives one pair of tokens, unless two requests had it in hand
   together: it is removed after the database was waited for
   (hardware_authenticate_finish). *)
ChallengeOnce == \A n \in DOMAIN chal : chal[n].uses <= 1 \/ chal[n].raced

(* Nobody loses access to the record but by a change of their own row, by the
   revocation of a grant that fits them, or because a second one does
   (can_access expects one at most). *)
ReachOf(u, permission) == Reaches(grants, Owner, u, users[u], permission)
Fitting(u, permission) == Matching(grants, u, users[u].role, permission)
GrantsOnlyAdd ==
    [][\A u \in Users, p \in Permissions :
         ReachOf(u, p) = "yes" /\ ReachOf(u, p)' # "yes" =>
            \/ users'[u] # users[u]
            \/ \E g \in Fitting(u, p) : ~grants'[g].live
            \/ Cardinality(Fitting(u, p)') > 1]_vars

(* Where a call is turned away for the rate, the limiter is right to, whatever
   the times of the calls: no window of its length lets more in than the limit,
   and none is turned away before that many were (RateLimiter.is_allowed). *)
Recent(times, now, window) == {n \in DOMAIN times : times[n] > now - window}
WithinLimit ==
    LET s      == workload.arrivals
        limit  == workload.limit
        window == workload.window
        after  == Limiter(s, limit, window)
        all    == after[Len(s)].through
    IN  /\ \A n \in 1 .. Len(all) - limit : all[n + limit] - all[n] >= window
        /\ \A i \in 1 .. Len(s) :
              after[i].through = after[i - 1].through =>
                 Cardinality(Recent(after[i - 1].through, s[i], window)) = limit
==============================================================================
