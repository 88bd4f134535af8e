---------------------------- MODULE TokenService ----------------------------
(***************************************************************************)
(* The refresh-token table and the three handlers that write it            *)
(* (apps/api/src/auth/token.service.ts): issuePair, rotate and revoke.     *)
(* A handler gives the event loop up at every await, so one action is what *)
(* runs between two awaits: one database call and what follows it.  The    *)
(* requests of all users interleave at that grain.                         *)
(*                                                                         *)
(* Abstractions.  A signed refresh token is its jti, which is also the key *)
(* of its row.  revokedAt is kept as null or not, expiresAt as passed or   *)
(* not; the expiry in the signature and in the row come from the same TTL  *)
(* and pass together.  bcrypt.compare always succeeds: only the server can *)
(* sign a token with a jti, and it signs it with the secret of that row.   *)
(***************************************************************************)
EXTENDS Naturals, FiniteSets

CONSTANTS
    Users,      \* userIds
    Tokens,     \* the jtis randomUUID can return: the bound on issued tokens
    Reqs,       \* requests that may be in flight at the same time
    NoUser,     \* no user
    NoToken     \* no token

ASSUME NoUserAssumption  == NoUser \notin Users
ASSUME NoTokenAssumption == NoToken \notin Tokens
ASSUME ReqsAssumption    == IsFiniteSet(Reqs)
ASSUME TokensAssumption  == IsFiniteSet(Tokens)

VARIABLES
    status,     \* the row of each jti: "absent", "live" (revokedAt null), "revoked"
    owner,      \* RefreshToken.userId
    expired,    \* tokens whose expiresAt has passed
    held,       \* tokens some client received in an answer
    req,        \* the handler each request runs, and where it waits
    parent,     \* history: the token a token was rotated from
    login,      \* history: the first token of the session a token belongs to
    consumed,   \* history: tokens rotate has marked revoked
    ended       \* history: how the session begun by a token was ended

rows    == <<status, owner>>
history == <<parent, login, consumed, ended>>
vars    == <<status, owner, expired, held, req, parent, login, consumed, ended>>

(***************************************************************************)
(* A request: the await it is suspended at, the user and the token it was  *)
(* called with, the jti it issued.  late is a history field: the token was *)
(* already revoked when the request arrived.                               *)
(***************************************************************************)
PCs == {"idle", "find", "revokeAll", "update", "revoke", "create", "respond"}

Request == [pc: PCs, user: Users \cup {NoUser}, token: Tokens \cup {NoToken},
            fresh: Tokens \cup {NoToken}, late: BOOLEAN]

Idle == [pc |-> "idle", user |-> NoUser, token |-> NoToken,
         fresh |-> NoToken, late |-> FALSE]

TypeOK ==
    /\ status \in [Tokens -> {"absent", "live", "revoked"}]
    /\ owner \in [Tokens -> Users \cup {NoUser}]
    /\ expired \in SUBSET Tokens
    /\ held \in SUBSET Tokens
    /\ req \in [Reqs -> Request]
    /\ parent \in [Tokens -> Tokens \cup {NoToken}]
    /\ login \in [Tokens -> Tokens \cup {NoToken}]
    /\ consumed \in SUBSET Tokens
    /\ ended \in [Tokens -> {"no", "reuse", "logout"}]

Init ==
    /\ status = [t \in Tokens |-> "absent"]
    /\ owner = [t \in Tokens |-> NoUser]
    /\ expired = {}
    /\ held = {}
    /\ req = [r \in Reqs |-> Idle]
    /\ parent = [t \in Tokens |-> NoToken]
    /\ login = [t \in Tokens |-> NoToken]
    /\ consumed = {}
    /\ ended = [t \in Tokens |-> "no"]

-----------------------------------------------------------------------------
Issued(u) == {t \in Tokens : status[t] # "absent" /\ owner[t] = u}

At(r, pc)   == req[r].pc = pc
Goto(r, pc) == req' = [req EXCEPT ![r].pc = pc]
Return(r)   == req' = [req EXCEPT ![r] = Idle]

(* Operators headed "Mutant" are slips that could be made in the code: the *)
(* one below each would replace.  They are not part of Next; each breaks a *)
(* property that the definition itself satisfies.                          *)

(* Mutant: the where clause matches nothing.                               *)
RevokesNothing(T) == status' = status

(* updateMany({ where: T and revokedAt: null }, data: { revokedAt: now })  *)
Revoke(T) == status' = [t \in Tokens |->
                IF t \in T /\ status[t] = "live" THEN "revoked" ELSE status[t]]

(* Bound: a request that may still issue a token has one left in the pool. *)
Room == Cardinality({t \in Tokens : status[t] = "absent"}) >
        Cardinality({r \in Reqs : req[r].pc \in {"find", "update", "create"} /\ ~req[r].late})

(* verifyRefresh: a token the server signed, whose exp has not passed.     *)
Verifies(t) == t \in held /\ t \notin expired

-----------------------------------------------------------------------------
(* register, login and loginWithGoogle end in issuePair(user): the row is  *)
(* created when the hash of the new secret is ready.                       *)
Issue(r, u) ==
    /\ At(r, "idle")
    /\ Room
    /\ req' = [req EXCEPT ![r] = [Idle EXCEPT !.pc = "create", !.user = u]]
    /\ UNCHANGED <<rows, expired, held, history>>

(* POST /auth/refresh: the signature is checked, the row is asked for.  A  *)
(* token that does not verify is answered 401 at once and changes nothing. *)
RotateStart(r, t) ==
    /\ At(r, "idle")
    /\ Verifies(t)
    /\ status[t] = "live" => Room
    /\ req' = [req EXCEPT ![r] = [Idle EXCEPT
                    !.pc = "find", !.user = owner[t], !.token = t,
                    !.late = (status[t] = "revoked")]]
    /\ UNCHANGED <<rows, expired, held, history>>

(* Mutant: the signature is trusted, revokedAt is not looked at.           *)
TrustsSignature(t) == FALSE

Reused(t) == status[t] = "revoked"

(* Mutant: nothing is answered for a row that has expired.                 *)
ForgetsToAnswer(r) == FALSE

Refuse(r) == Return(r)

(* The row as it is read decides; what happens to it afterwards is not     *)
(* looked at again.  (No code path deletes a row a signed token names.)    *)
RotateFind(r) ==
    LET t == req[r].token IN
    /\ At(r, "find")
    /\ \/ Reused(t) /\ Goto(r, "revokeAll")
       \/ ~Reused(t) /\ t \in expired /\ Refuse(r)
       \/ ~Reused(t) /\ t \notin expired /\ Goto(r, "update")
    /\ UNCHANGED <<rows, expired, held, history>>

(* Mutants: the presented token only; a where clause without the userId.   *)
Presented(r) == {req[r].token}
AllRows(r)   == Tokens

TokensOfUser(r) == Issued(req[r].user)

(* revokeAllForUser(row.userId), then 401 refreshTokenReused.              *)
RotateRevokeAll(r) ==
    /\ At(r, "revokeAll")
    /\ Revoke(TokensOfUser(r))
    /\ ended' = [s \in Tokens |-> IF s \in Issued(req[r].user) THEN "reuse" ELSE ended[s]]
    /\ Return(r)
    /\ UNCHANGED <<owner, expired, held, parent, login, consumed>>

(* Mutants: a rotated token stays valid; rotated is a state of its own.    *)
StaysValid(t)   == status
OwnState(t)     == [status EXCEPT ![t] = "rotated"]

(* update({ where: { id } }): not conditional on revokedAt being null.     *)
RevokedNow(t)   == [status EXCEPT ![t] = "revoked"]

RotateUpdate(r) ==
    LET t == req[r].token IN
    /\ At(r, "update")
    /\ status' = RevokedNow(t)
    /\ consumed' = consumed \cup {t}
    /\ Goto(r, "create")
    /\ UNCHANGED <<owner, expired, held, parent, login, ended>>

(* refreshToken.create of issuePair, for a login and for a rotation.       *)
CreateRow(r, t) ==
    LET p == req[r].token IN
    /\ At(r, "create")
    /\ status[t] = "absent"
    /\ status' = [status EXCEPT ![t] = "live"]
    /\ owner' = [owner EXCEPT ![t] = req[r].user]
    /\ parent' = [parent EXCEPT ![t] = p]
    /\ login' = [login EXCEPT ![t] = IF p = NoToken THEN t ELSE login[p]]
    /\ req' = [req EXCEPT ![r] = [@ EXCEPT !.pc = "respond", !.fresh = t]]
    /\ UNCHANGED <<expired, held, consumed, ended>>

(* The pair is signed and reaches the client.                              *)
Respond(r) ==
    /\ At(r, "respond")
    /\ held' = held \cup {req[r].fresh}
    /\ Return(r)
    /\ UNCHANGED <<rows, expired, history>>

(* POST /auth/logout: a token that does not verify is a no-op.             *)
RevokeStart(r, t) ==
    /\ At(r, "idle")
    /\ Verifies(t)
    /\ req' = [req EXCEPT ![r] = [Idle EXCEPT
                    !.pc = "revoke", !.user = owner[t], !.token = t]]
    /\ UNCHANGED <<rows, expired, held, history>>

RevokeUpdate(r) ==
    LET t == req[r].token IN
    /\ At(r, "revoke")
    /\ Revoke({t})
    /\ ended' = IF status[t] = "live"
                THEN [ended EXCEPT ![login[t]] = "logout"] ELSE ended
    /\ Return(r)
    /\ UNCHANGED <<owner, expired, held, parent, login, consumed>>

(* An await rejects (database error), the process stops, or the answer is  *)
(* lost: the request ends, what it has written stays.                      *)
Fail(r) ==
    /\ ~ At(r, "idle")
    /\ Return(r)
    /\ UNCHANGED <<rows, expired, held, history>>

Expire(t) ==
    /\ status[t] # "absent"
    /\ t \notin expired
    /\ expired' = expired \cup {t}
    /\ UNCHANGED <<rows, held, req, history>>

Step(r) ==
    \/ RotateFind(r)
    \/ RotateRevokeAll(r)
    \/ RotateUpdate(r)
    \/ \E t \in Tokens : CreateRow(r, t)
    \/ Respond(r)
    \/ RevokeUpdate(r)

Next ==
    \/ \E r \in Reqs, u \in Users : Issue(r, u)
    \/ \E r \in Reqs, t \in Tokens : RotateStart(r, t) \/ RevokeStart(r, t)
    \/ \E r \in Reqs : Step(r) \/ Fail(r)
    \/ \E t \in Tokens : Expire(t)

Spec == Init /\ [][Next]_vars

(* Node runs every continuation whose await has settled.                   *)
FairSpec == Spec /\ \A r \in Reqs : WF_vars(Step(r))

-----------------------------------------------------------------------------
Children(t)  == {s \in Tokens : parent[s] = t}
Session(l)   == {t \in Tokens : login[t] = l}

(* Requests that have read t as live and will, or may, replace it.         *)
Rotating(t) == {r \in Reqs : req[r].token = t /\ req[r].pc \in {"update", "create"}}

(* A replacement exists only once its predecessor is revoked: at no point, *)
(* a failed or interrupted rotation included, do both work.                *)
SuccessorAfterRevocation ==
    \A s \in Tokens : parent[s] # NoToken => status[parent[s]] = "revoked"

(* Reuse is always refused: a request that arrives with a token revoked    *)
(* before (rotated away, logged out, killed) never gets to issue a pair,   *)
(* whatever runs beside it.                                                *)
LateNeverRotates ==
    \A r \in Reqs : req[r].late => req[r].pc \notin {"update", "create", "respond"}

(* The unconditional update lets concurrent refreshes of one token all     *)
(* succeed, but no more of them than can be in flight together: the first  *)
(* one to write shuts the others out.  With one request at a time a token  *)
(* is rotated at most once.                                                *)
SuccessorsBounded ==
    \A t \in Tokens : Cardinality(Children(t)) <= Cardinality(Reqs)

(* A user's tokens are revoked only on behalf of someone who presents a    *)
(* token of that same user.                                                *)
RevocationStaysWithinUser ==
    [][\A t \in Tokens : status[t] = "live" /\ status'[t] = "revoked" =>
        \E r \in Reqs : /\ req[r].token # NoToken
                        /\ owner[req[r].token] = owner[t]
                        /\ req'[r] # req[r]]_vars

(* A session has at most one refresh token that works.                     *)
OneLivePerSession ==
    \A l \in Tokens : \A s, t \in Session(l) :
        status[s] = "live" /\ status[t] = "live" => s = t

(* Reuse detection ends every session the user had: no token of a session  *)
(* begun before works any more.                                            *)
ReuseEndsSessions ==
    \A t \in Tokens : status[t] = "live" => ended[login[t]] # "reuse"

(* Logout with the working token ends the session: no token descended from *)
(* the same login works any more.                                          *)
LogoutEndsSession ==
    \A t \in Tokens : status[t] = "live" => ended[login[t]] # "logout"

(* One use of a token gives one replacement.                               *)
RotatedOnce == \A t \in Tokens : Cardinality(Children(t)) <= 1

(* A token marked revoked by a rotation has its replacement, or the        *)
(* request that is about to create it.                                     *)
RotationAllOrNothing ==
    \A t \in consumed : Children(t) # {} \/ Rotating(t) # {}

(* Every request is answered: none waits for another one.                  *)
RequestsReturn == \A r \in Reqs : ~At(r, "idle") ~> At(r, "idle")

(* With one request at a time the table implements Sessions, the server    *)
(* the browser relies on: a token whose replacement is on its way still    *)
(* counts as live, and is lost when the request fails before it is made.   *)
Replacing(t) == \E r \in Reqs : At(r, "create") /\ req[r].token = t
Abstract == INSTANCE Sessions WITH
    status <- [t \in Tokens |-> IF Replacing(t) THEN "live" ELSE status[t]]
ImplementsSessions == Abstract!Spec

-----------------------------------------------------------------------------
(* The inductive invariant behind the theorems of TokenServiceProofs.      *)

(* A request that waits at a database call knows an issued token and its   *)
(* owner; one about to create a replacement has revoked the predecessor.   *)
RequestsSound ==
    \A r \in Reqs :
        /\ req[r].pc \in {"find", "revokeAll", "update", "revoke"} => req[r].token \in Tokens
        /\ req[r].token \in Tokens =>
              /\ status[req[r].token] # "absent"
              /\ owner[req[r].token] = req[r].user
              /\ req[r].pc = "create" => status[req[r].token] = "revoked"
        /\ req[r].pc = "respond" => req[r].fresh \in Tokens /\ status[req[r].fresh] # "absent"
        /\ req[r].late => /\ req[r].pc \in {"find", "revokeAll"}
                          /\ status[req[r].token] = "revoked"

HeldAreIssued == \A t \in held : status[t] # "absent"

(* Replacements of a token, and requests that may still make one, together *)
(* never outnumber the requests.                                           *)
RotationBudget ==
    \A t \in Tokens :
        Cardinality(Children(t)) + Cardinality(Rotating(t)) <= Cardinality(Reqs)

IInv ==
    /\ TypeOK
    /\ RequestsSound
    /\ HeldAreIssued
    /\ SuccessorAfterRevocation
    /\ RotationBudget

=============================================================================
