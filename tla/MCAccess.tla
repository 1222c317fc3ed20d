------------------------------ MODULE MCAccess ------------------------------
(* Small instances of Access. *)
EXTENDS Access

CONSTANTS ann, bob, cal, c1, k1, k2

Run(ops, who, n) == [ops |-> {"login"} \cup ops, users |-> who, callers |-> who, roles |-> {"reader"},
                     grantees |-> {}, pairs |-> n, grants |-> 0, cli |-> FALSE,
                     arrivals |-> <<>>, limit |-> 1, window |-> 1]
Granting(ops, who, to, n, g) == [Run(ops \cup {"grant_record_access"}, who, n)
                                    EXCEPT !.roles = {}, !.grantees = to, !.grants = g]

Joining  == [Run({"register", "keyless", "delete", "create", "find"}, {}, 1) EXCEPT !.callers = {bob, cal}]
Tokens   == Run({"refresh", "logout", "delete"}, {bob}, 3)
Enrol    == Run({"hardware_register_begin", "hardware_register_finish"}, {bob, cal}, 1)
Mfa      == Run({"hardware_register_begin", "hardware_register_finish", "begin", "finish"}, {bob}, 2)
Rights   == [Granting({"revoke_record_access"}, {bob, cal}, {}, 1, 2)
                EXCEPT !.callers = {bob}, !.roles = {"reader"}]
Listing  == Granting({"read", "grants"}, {bob, cal}, {cal}, 2, 1)
Doubled  == Granting({"read"}, {ann}, {ann}, 1, 2)
Changes  == [Run({"admin", "set_user_role"}, {ann, cal}, 2) EXCEPT !.roles = {"admin", "guest"}]
Barred   == Granting({"disable_user", "read", "grants", "revoke_record_access"}, {ann}, {ann}, 1, 1)
Demoted  == Run({"disable_user", "set_user_role", "audit", "find"}, {ann}, 1)
Ousted   == Granting({"delete_user", "delete"}, {ann}, {ann}, 1, 1)
Evicted  == Run({"delete_user", "delete"}, {ann, bob}, 2)
Commands == [Granting(Commanded, {ann, bob, cal}, {cal}, 3, 2)
                EXCEPT !.callers = {ann, bob}, !.roles = {"reader"}, !.cli = TRUE]

(* Up to five calls, at times that do not go back, and nothing else. *)
FewArrivals == {s \in UNION {[1 .. n -> 0 .. 4] : n \in 1 .. 5} : Sorted(s)}
FewLimits   == {LimitOf(Prefix, path, 2, 1) : path \in FewerPaths} \cup {1}
Bursts      == {[Run({}, {}, 0) EXCEPT !.ops = {}, !.arrivals = s, !.limit = limit, !.window = window] :
                  s \in FewArrivals, limit \in FewLimits, window \in 1 .. 3}

AllWorkloads ==
    {Joining, Tokens, Enrol, Mfa, Rights, Listing, Doubled, Changes, Barred, Demoted,
     Ousted, Evicted, Commands}
    \cup Bursts

HereOnly == [denied |-> {{"far"}}, allowed |-> {{"near", "far"}}]

Alike == Permutations({k1, k2})
==============================================================================
