------------------------------ MODULE Sessions ------------------------------
(***************************************************************************)
(* What the refresh-token table promises the clients when refreshes of one *)
(* token do not overlap: a working token is replaced in one step, or lost; *)
(* a token that has stopped working never works again; showing one ends    *)
(* every session of its user.  TokenService implements this with one       *)
(* request at a time; WebSession uses it as the server.                    *)
(***************************************************************************)
CONSTANTS Users, Tokens, NoUser

VARIABLES
    status,     \* [Tokens -> {"absent", "live", "revoked"}]
    owner       \* [Tokens -> Users \cup {NoUser}]

Init ==
    /\ status = [t \in Tokens |-> "absent"]
    /\ owner = [t \in Tokens |-> NoUser]

(* issuePair after register, login or loginWithGoogle *)
Open(u, t) ==
    /\ status[t] = "absent"
    /\ status' = [status EXCEPT ![t] = "live"]
    /\ owner' = [owner EXCEPT ![t] = u]

(* rotate of a working token *)
Replace(t, s) ==
    /\ status[t] = "live"
    /\ status[s] = "absent"
    /\ status' = [status EXCEPT ![t] = "revoked", ![s] = "live"]
    /\ owner' = [owner EXCEPT ![s] = owner[t]]

(* revoke, or a rotation that fails after its update *)
Lose(t) ==
    /\ status[t] = "live"
    /\ status' = [status EXCEPT ![t] = "revoked"]
    /\ UNCHANGED owner

(* rotate of a revoked token: revokeAllForUser *)
EndAll(u) ==
    /\ \E t \in Tokens : status[t] = "revoked" /\ owner[t] = u
    /\ status' = [t \in Tokens |->
            IF status[t] = "live" /\ owner[t] = u THEN "revoked" ELSE status[t]]
    /\ UNCHANGED owner

Next ==
    \/ \E u \in Users, t \in Tokens : Open(u, t)
    \/ \E s, t \in Tokens : Replace(t, s)
    \/ \E t \in Tokens : Lose(t)
    \/ \E u \in Users : EndAll(u)

Spec == Init /\ [][Next]_<<status, owner>>

=============================================================================
