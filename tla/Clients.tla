------------------------------ MODULE Clients -------------------------------
(***************************************************************************)
(* The calls of sdk/client.py and the commands of cli/main.py: the route   *)
(* each sends its request to.  Every method sends one request, raises when *)
(* the answer is not a success, and returns what it says; a command makes  *)
(* a client, logs in, calls one method and ends without logging out.       *)
(***************************************************************************)
EXTENDS Policy, TLC

RecordMethods == "put" :> "create_record" @@ "get" :> "read_record" @@ "delete" :> "delete_record"
    @@ "audit" :> "list_audit"
HeMethods == "init_he" :> "init_he" @@ "he_sum" :> "he_sum_endpoint" @@ "he_decrypt" :> "he_decrypt_endpoint"
FindMethods == "search" :> "search_records" @@ "list_records" :> "list_records"
GrantMethods == "grant_access" :> "grant_record_access" @@ "revoke_access" :> "revoke_record_access"
    @@ "list_grants" :> "list_record_grants"
UserMethods == "list_users" :> "list_users" @@ "set_user_role" :> "set_user_role"
ReplicationMethods == "register_standby" :> "register_standby_node" @@ "list_standbys" :> "list_standby_nodes"
    @@ "unregister_standby" :> "unregister_standby_node"
    @@ "replication_health_check" :> "replication_health_check" @@ "replication_retry" :> "replication_retry"
HardwareMethods == "hardware_register_begin" :> "hardware_register_begin"
    @@ "hardware_register_finish" :> "hardware_register_finish"
SealMethods == "seal_master_key" :> "seal_master_key" @@ "unseal_master_key" :> "unseal_master_key"
    @@ "purge_deleted" :> "purge_deleted" @@ "ledger_export" :> "ledger_export"
KeyMethods == "list_key_versions" :> "list_key_versions" @@ "rotate_key" :> "rotate_master_key"
    @@ "recovery_split" :> "split_recovery_key" @@ "recovery_combine" :> "combine_recovery_key"
    @@ "scheduler_status" :> "get_scheduler_status" @@ "scheduler_config" :> "set_scheduler_config"

(* Sent without the token, which the routes ask for. *)
KeylessMethods == "setup_master_key" :> "setup_master_key" @@ "unlock_master_key" :> "unlock_master_key"

(* The methods that send the token, and raise when the client has none. *)
TokenMethods == RecordMethods @@ HeMethods @@ FindMethods @@ GrantMethods @@ UserMethods
    @@ ReplicationMethods @@ HardwareMethods @@ SealMethods @@ KeyMethods

(* The routes no method of the client reaches. *)
OtherRoutes == ComplianceRoutes \cup {"verify_ledger_endpoint", "audit_anomalies", "replication_changes",
    "replication_reset_sync", "list_dead_letter", "delete_user", "disable_user"}

Asked == {Asks(TokenMethods[m]) : m \in DOMAIN TokenMethods} \cup {Asks(route) : route \in OtherRoutes}

(* The commands, by the method they call. *)
RecordCommands == {"put", "get", "audit"}
BackupCommands == {"audit"}
FindCommands   == {"search", "list_records"}
GrantCommands  == {"grant_access", "revoke_access"}
AdminCommands  == {"purge_deleted", "list_users", "set_user_role", "ledger_export"}
KeyCommands    == {"list_key_versions", "rotate_key", "recovery_split", "recovery_combine",
                   "scheduler_status", "scheduler_config"}

Commanded == {Asks(TokenMethods[m]) : m \in RecordCommands \cup BackupCommands \cup FindCommands
                                            \cup GrantCommands \cup AdminCommands \cup KeyCommands}
==============================================================================
