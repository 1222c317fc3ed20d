------------------------------- MODULE Sessions -------------------------------
(***************************************************************************)
(* What a server promises of the tokens it issues (README.md: "Login and   *)
(* receive JWT tokens", "Revoke current token", "Rotate refresh token"): a *)
(* pair of tokens goes to a user who logged in, or to the user of the one  *)
(* pair whose refresh token is spent for it; a call is served as the user  *)
(* whose token it came with, if that token was not revoked when it came.   *)
(* Nothing is said of rows, black lists, locks, failures or restarts.      *)
(***************************************************************************)
EXTENDS Naturals, Sequences

CONSTANTS Users, NoUser, Calls

VARIABLES
    issued,     \* the pairs of tokens: whose, and renewed from which, or 0
    spent,      \* the pairs whose refresh token gave another
    revoked,    \* the pairs whose access token was revoked
    call        \* whose token each call came with, and what became of it

Stranger == [of |-> NoUser, is |-> "nothing"]

Init ==
    /\ issued = <<>> /\ spent = {} /\ revoked = {}
    /\ call = [k \in Calls |-> Stranger]

Issue(u) ==
    /\ issued' = Append(issued, [user |-> u, parent |-> 0])
    /\ UNCHANGED <<spent, revoked>>

Renew(n) ==
    /\ n \notin spent
    /\ issued' = Append(issued, [user |-> issued[n].user, parent |-> n])
    /\ spent' = spent \cup {n}
    /\ UNCHANGED revoked

Revoke(n) ==
    /\ n \notin revoked
    /\ revoked' = revoked \cup {n}
    /\ UNCHANGED <<issued, spent>>

Come(k, n) ==
    /\ call[k] = Stranger
    /\ call' = [call EXCEPT ![k] = [of |-> issued[n].user, is |-> IF n \in revoked THEN "revoked" ELSE "good"]]

Serve(k) ==
    /\ call[k].is = "good"
    /\ call' = [call EXCEPT ![k].is = "served"]

(* Calls are refused, fail, or are over. *)
Leave(K) == call' = [k \in Calls |-> IF k \in K THEN Stranger ELSE call[k]]

Next ==
    \/ /\ UNCHANGED call
       /\ \/ \E u \in Users : Issue(u)
          \/ \E n \in DOMAIN issued : Renew(n) \/ Revoke(n)
    \/ /\ UNCHANGED <<issued, spent, revoked>>
       /\ \/ \E K \in SUBSET Calls : Leave(K)
          \/ \E k \in Calls : Serve(k) \/ \E n \in DOMAIN issued : Come(k, n)

Spec == Init /\ [][Next]_<<issued, spent, revoked, call>>
===============================================================================
