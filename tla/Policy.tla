------------------------------- MODULE Policy -------------------------------
(***************************************************************************)
(* What lets a request through: the sliding window of api/rate_limit.py,   *)
(* the networks of auth/geo.py, the roles of auth/rbac.py, the grants of   *)
(* auth/acl.py, and what each route of api/routes.py asks for.  A route is *)
(* named by the function that handles it.  Nothing here keeps state.       *)
(***************************************************************************)
EXTENDS Integers, Sequences, FiniteSets, FiniteSetsExt, SequencesExt

(* RateLimiter.is_allowed; requests: the times it let through. *)
Unexpired(requests, now, window) ==
    LET left[i \in 0 .. Len(requests)] ==
            IF i = 0 THEN <<>>
            ELSE IF requests[i] > now - window THEN Append(left[i - 1], requests[i]) ELSE left[i - 1]
    IN  left[Len(requests)]

(* Mutation: one request more. *)
FullOver(requests, limit) == Len(requests) > limit

Full(requests, limit) == Len(requests) >= limit

Limited(requests, now, limit, window) ==
    LET left == Unexpired(requests, now, window)
    IN  IF Full(left, limit) THEN left ELSE Append(left, now)

Sorted(s) == \A i, j \in DOMAIN s : i <= j => s[i] <= s[j]

(* A limiter while calls come at the times of arrivals: what it keeps after the
   first i of them, and when it has let calls through. *)
Arrive(state, now, limit, window) ==
    [kept |-> Limited(state.kept, now, limit, window),
     through |-> IF Full(Unexpired(state.kept, now, window), limit) THEN state.through
                 ELSE Append(state.through, now)]

Limiter(arrivals, limit, window) ==
    LET after[i \in 0 .. Len(arrivals)] ==
            IF i = 0 THEN [kept |-> <<>>, through |-> <<>>]
            ELSE Arrive(after[i - 1], arrivals[i], limit, window)
    IN  after

(* The settings say that logins are few; a route's path begins with /api/v1,
   which none of the paths compared with does. *)
Prefix == "/api/v1"
FewerPaths == {"/auth/login", "/auth/hardware/authenticate-begin", "/auth/hardware/authenticate-finish"}
LimitOf(prefix, path, rpm, fewer) == IF prefix = "" /\ path \in FewerPaths THEN fewer ELSE rpm

(* geo.is_allowed; a network is the set of its addresses. *)
InRule(address, rule) ==
    /\ address \notin UNION rule.denied
    /\ rule.allowed = {} \/ address \in UNION rule.allowed

ROLE_PERMISSIONS ==
    [admin   |-> {"create", "read", "write", "delete", "audit", "admin"},
     writer  |-> {"create", "read", "write"},
     reader  |-> {"read"},
     auditor |-> {"read", "audit"}]

(* A role may be any string. *)
PermissionsOf(role) == IF role \in DOMAIN ROLE_PERMISSIONS THEN ROLE_PERMISSIONS[role] ELSE {}

(* Mutation: a disabled user keeps what the role gives. *)
has_permissionAlways(user, action) == action \in PermissionsOf(user.role)

has_permission(user, action) == user.active /\ action \in PermissionsOf(user.role)

(* No role: that of a user who has not registered, of a grant to no role. *)
NoRole == "none"

(* The grants can_access selects, where NULL equals nothing, and what it makes
   of them: scalar_one_or_none raises when there are two. *)
Matching(grants, id, role, permission) ==
    {g \in DOMAIN grants : /\ grants[g].live /\ grants[g].permission = permission
                           /\ grants[g].user = id \/ (grants[g].role = role /\ role # NoRole)}

can_access(grants, id, role, permission) ==
    CASE Cardinality(Matching(grants, id, role, permission)) = 0 -> "no"
      [] Cardinality(Matching(grants, id, role, permission)) = 1 -> "yes"
      [] OTHER -> "raises"

(* What the operations on one record decide. *)
Reaches(grants, owner, id, user, permission) ==
    LET granted == can_access(grants, id, user.role, permission)
    IN  IF owner = id THEN "yes"
        ELSE IF granted = "no" /\ has_permission(user, "admin") THEN "yes"
        ELSE granted

-----------------------------------------------------------------------------
(* The permission a route requires before it does anything. *)

MasterKeyRoutes == {"setup_master_key", "unlock_master_key"}
KeyRoutes == {"seal_master_key", "unseal_master_key", "list_key_versions", "rotate_master_key",
              "split_recovery_key", "combine_recovery_key", "get_scheduler_status", "set_scheduler_config"}
ReplicationRoutes == {"register_standby_node", "unregister_standby_node", "list_standby_nodes",
                      "replication_health_check", "replication_retry", "replication_changes",
                      "replication_reset_sync", "list_dead_letter"}
LedgerRoutes == {"verify_ledger_endpoint", "ledger_export"}
ComplianceRoutes == {"gdpr_report", "hipaa_report", "soc2_report"}

AdminRoutes == MasterKeyRoutes \cup KeyRoutes \cup ReplicationRoutes \cup {"purge_deleted", "list_users", "init_he"}
AuditRoutes == LedgerRoutes \cup ComplianceRoutes \cup {"audit_anomalies", "list_audit", "he_decrypt_endpoint"}
FindRoutes  == {"search_records", "list_records", "he_sum_endpoint"}

Asks(route) ==
    CASE route \in AdminRoutes     -> "admin"
      [] route \in AuditRoutes     -> "audit"
      [] route \in FindRoutes      -> "find"
      [] route = "create_record"   -> "create"
      [] route = "read_record"     -> "read"
      [] route = "delete_record"   -> "delete"
      [] route = "list_record_grants" -> "grants"
      [] OTHER -> route
==============================================================================
