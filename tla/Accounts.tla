------------------------------ MODULE Accounts ------------------------------
(***************************************************************************)
(* Accounts: the table User and the ways to sign in to it (AuthService,    *)
(* UsersService and GoogleTokenVerifier of apps/api/src).  A request is    *)
(* split at its queries.  Passwords never change once set, so that hashing *)
(* and comparing are part of the step that has read the row; the pair that *)
(* issuePair returns (TokenService) is abstracted to the account it is for.*)
(* email and googleId are unique columns: a write that would repeat one    *)
(* fails with P2002.                                                       *)
(***************************************************************************)
EXTENDS FiniteSets

CONSTANTS
    Ids, Emails, Passwords,
    Subs,               \* Google's ids of its accounts
    GoogleAccounts,     \* <<sub, email>> that a verified credential may carry
    Themes,             \* "system" is the default of the column
    Reqs,               \* requests that may be in flight at the same time
    Nothing             \* null

UserRow == [email: Emails, googleId: Subs \cup {Nothing},
            password: Passwords \cup {Nothing}, theme: Themes]

ASSUME AccountsAssumption ==
    /\ GoogleAccounts \subseteq Subs \X Emails
    /\ "system" \in Themes
    /\ Nothing \notin Ids \cup Subs \cup Passwords \cup Emails \cup UserRow

VARIABLES
    users,  \* rows of User
    call    \* the request each of Reqs runs, and the await it waits at

accountVars == <<users, call>>

Statuses == {0, 200, 401, 409, 500}     \* 0: not answered

PCs == {"idle", "create", "byGoogleId", "byEmail", "link", "createGoogle",
        "retryByGoogleId", "retryByEmail", "issue", "done"}

(* What was sent; the account found and its theme in the profile answered; *)
(* alone: no other request was under way at the same time (history).       *)
Call == [pc: PCs, email: Emails \cup {Nothing}, password: Passwords \cup {Nothing},
         sub: Subs \cup {Nothing}, id: Ids \cup {Nothing}, theme: Themes \cup {Nothing},
         status: Statuses, alone: BOOLEAN]

IdleCall == [pc |-> "idle", email |-> Nothing, password |-> Nothing, sub |-> Nothing,
             id |-> Nothing, theme |-> Nothing, status |-> 0, alone |-> TRUE]

AccountsTypeOK ==
    /\ users \in [Ids -> UserRow \cup {Nothing}]
    /\ call \in [Reqs -> Call]

AccountsInit ==
    /\ users = [u \in Ids |-> Nothing]
    /\ call = [r \in Reqs |-> IdleCall]

Rows           == {u \in Ids : users[u] # Nothing}
ByEmail(e)     == {u \in Rows : users[u].email = e}
ByGoogleId(s)  == {u \in Rows : users[u].googleId = s}

At(r, pc)       == call[r].pc = pc
Goto(r, pc)     == call' = [call EXCEPT ![r].pc = pc]
Resolve(r, u)   == call' = [call EXCEPT ![r].pc = "issue", ![r].id = u]
Reply(r, status) == call' = [call EXCEPT ![r].pc = "done", ![r].status = status]

(* An insert or an update returns the profile it has written.              *)
Written(r, u, theme) ==
    call' = [call EXCEPT ![r].pc = "issue", ![r].id = u, ![r].theme = theme]

UnderWay(r) == call[r].pc \notin {"idle", "done"}

(* A request arrives, and its first query has been answered: c.            *)
Begin(r, c) ==
    LET others == {x \in Reqs \ {r} : UnderWay(x)} IN
    call' = [x \in Reqs |-> IF x = r THEN [c EXCEPT !.alone = others = {}]
                            ELSE IF x \in others THEN [call[x] EXCEPT !.alone = FALSE]
                            ELSE call[x]]

-----------------------------------------------------------------------------
(* Password accounts                                                       *)

(* register: refused at once if the email is taken                         *)
Register(r, e, p) ==
    /\ At(r, "idle")
    /\ Begin(r, [IdleCall EXCEPT !.email = e, !.password = p,
                                 !.pc = IF ByEmail(e) = {} THEN "create" ELSE "done",
                                 !.status = IF ByEmail(e) = {} THEN 0 ELSE 409])
    /\ UNCHANGED users

NewRow(r) == [email |-> call[r].email, googleId |-> call[r].sub, password |-> call[r].password,
              theme |-> "system"]

Taken(r) == ByEmail(call[r].email) \cup IF call[r].sub = Nothing THEN {} ELSE ByGoogleId(call[r].sub)

Insert(r) ==
    \E u \in Ids \ Rows : users' = [users EXCEPT ![u] = NewRow(r)] /\ Written(r, u, "system")

(* The email may have been taken while the password was hashed: P2002,     *)
(* which the exception filter answers with 409.                            *)
CreateUser(r) ==
    /\ At(r, "create")
    /\ IF Taken(r) = {} THEN Insert(r) ELSE Reply(r, 409) /\ UNCHANGED users

(* Mutant: no look at whether the password matches.                        *)
LoginByEmail(r, e, p) ==
    /\ At(r, "idle")
    /\ \E u \in ByEmail(e) :
          Begin(r, [IdleCall EXCEPT !.email = e, !.password = p, !.pc = "issue", !.id = u])
    /\ UNCHANGED users

(* login: an account that only has Google matches no password.             *)
Login(r, e, p) ==
    LET match == {u \in ByEmail(e) : users[u].password = p} IN
    /\ At(r, "idle")
    /\ \/ /\ match = {}
          /\ Begin(r, [IdleCall EXCEPT !.email = e, !.password = p, !.pc = "done", !.status = 401])
       \/ \E u \in match :
             Begin(r, [IdleCall EXCEPT !.email = e, !.password = p, !.pc = "issue", !.id = u])
    /\ UNCHANGED users

-----------------------------------------------------------------------------
(* Google (loginWithGoogle, resolveGoogleUser)                             *)

(* verify: anything but a token of a verified email is refused.            *)
RefuseCredential(r) ==
    /\ At(r, "idle")
    /\ Begin(r, [IdleCall EXCEPT !.pc = "done", !.status = 401])
    /\ UNCHANGED users

LoginWithGoogle(r, s, e) ==
    /\ At(r, "idle")
    /\ Begin(r, [IdleCall EXCEPT !.email = e, !.sub = s, !.pc = "byGoogleId"])
    /\ UNCHANGED users

FindByGoogleId(r) ==
    /\ At(r, "byGoogleId")
    /\ \/ ByGoogleId(call[r].sub) = {} /\ Goto(r, "byEmail")
       \/ \E u \in ByGoogleId(call[r].sub) : Resolve(r, u)
    /\ UNCHANGED users

(* Mutant: an account of another Google id is linked over.                 *)
LinkAnyway(r) ==
    /\ At(r, "byEmail")
    /\ \/ ByEmail(call[r].email) = {} /\ Goto(r, "createGoogle")
       \/ \E u \in ByEmail(call[r].email) : call' = [call EXCEPT ![r].pc = "link", ![r].id = u]
    /\ UNCHANGED users

(* The account of the email is linked if it has no Google id yet; it is    *)
(* never taken over.                                                       *)
FindByEmail(r) ==
    /\ At(r, "byEmail")
    /\ \/ ByEmail(call[r].email) = {} /\ Goto(r, "createGoogle")
       \/ \E u \in ByEmail(call[r].email) :
             CASE users[u].googleId = Nothing     -> call' = [call EXCEPT ![r].pc = "link", ![r].id = u]
               [] users[u].googleId = call[r].sub -> Resolve(r, u)
               [] OTHER                           -> Reply(r, 401)
    /\ UNCHANGED users

(* linkGoogleId does not look again; P2002 here is not caught.             *)
LinkGoogleId(r) ==
    /\ At(r, "link")
    /\ IF ByGoogleId(call[r].sub) \ {call[r].id} = {}
       THEN /\ users' = [users EXCEPT ![call[r].id].googleId = call[r].sub]
            /\ Written(r, call[r].id, users[call[r].id].theme)
       ELSE Reply(r, 409) /\ UNCHANGED users

(* Mutant: a lost race is left to the exception filter.                    *)
CreateOrConflict(r) ==
    /\ At(r, "createGoogle")
    /\ IF Taken(r) = {} THEN Insert(r) ELSE Reply(r, 409) /\ UNCHANGED users

(* createWithGoogle: whoever loses the race looks once more.               *)
CreateWithGoogle(r) ==
    /\ At(r, "createGoogle")
    /\ IF Taken(r) = {} THEN Insert(r) ELSE Goto(r, "retryByGoogleId") /\ UNCHANGED users

RetryByGoogleId(r) ==
    /\ At(r, "retryByGoogleId")
    /\ \/ ByGoogleId(call[r].sub) = {} /\ Goto(r, "retryByEmail")
       \/ \E u \in ByGoogleId(call[r].sub) : Resolve(r, u)
    /\ UNCHANGED users

RetryByEmail(r) ==
    /\ At(r, "retryByEmail")
    /\ \/ ByEmail(call[r].email) = {} /\ Reply(r, 409)
       \/ \E u \in ByEmail(call[r].email) : Resolve(r, u)
    /\ UNCHANGED users

-----------------------------------------------------------------------------
(* Mutant: the answer has no profile where the row was only looked up.     *)
IssueWithoutProfile(r) == At(r, "issue") /\ Reply(r, 200) /\ UNCHANGED users

(* findById where the row was only looked up, and issuePair                *)
IssuePair(r) ==
    /\ At(r, "issue")
    /\ call' = [call EXCEPT ![r].pc = "done", ![r].status = 200,
                           ![r].theme = IF @ = Nothing THEN users[call[r].id].theme ELSE @]
    /\ UNCHANGED users

(* A query fails, or the process goes down: 500, or no answer.             *)
Fail(r) ==
    /\ UnderWay(r)
    /\ Reply(r, 500)
    /\ UNCHANGED users

(* PATCH /users/me of the owner, from any device                           *)
UpdateProfile(u, theme) ==
    /\ u \in Rows /\ users[u].theme # theme
    /\ users' = [users EXCEPT ![u].theme = theme]
    /\ UNCHANGED call

Handle(r) ==
    \/ CreateUser(r) \/ FindByGoogleId(r) \/ FindByEmail(r) \/ LinkGoogleId(r)
    \/ CreateWithGoogle(r) \/ RetryByGoogleId(r) \/ RetryByEmail(r) \/ IssuePair(r)

Receive(r) ==
    \/ \E e \in Emails, p \in Passwords : Register(r, e, p) \/ Login(r, e, p)
    \/ \E g \in GoogleAccounts : LoginWithGoogle(r, g[1], g[2])
    \/ RefuseCredential(r)

Forget(r) == At(r, "done") /\ call' = [call EXCEPT ![r] = IdleCall] /\ UNCHANGED users

AccountsNext ==
    \/ \E r \in Reqs : Handle(r) \/ Fail(r) \/ Receive(r) \/ Forget(r)
    \/ \E u \in Ids, theme \in Themes : UpdateProfile(u, theme)

AccountsSpec == AccountsInit /\ [][AccountsNext]_accountVars

-----------------------------------------------------------------------------
Accepted(r) == call[r].status = 200

(* Who is signed in with a password is signed in to the account of that    *)
(* email and password, also while it is being linked to Google; who is     *)
(* signed in with Google, and meets no other request, to the account that  *)
(* has this Google id.                                                     *)
RightAccount ==
    \A r \in Reqs : Accepted(r) =>
        /\ call[r].id \in Rows
        /\ Nothing = call[r].sub => /\ users[call[r].id].email = call[r].email
                                   /\ users[call[r].id].password = call[r].password
        /\ Nothing # call[r].sub /\ call[r].alone => users[call[r].id].googleId = call[r].sub

(* auth.service.ts:93: the Google id of an account is never overwritten,   *)
(* unless two requests link it at the same time; its password is kept.     *)
GoogleIdStays ==
    [][\A u \in Rows :
          /\ users'[u].password = users[u].password
          /\ users[u].googleId # Nothing /\ users'[u].googleId # users[u].googleId
                => \E r \in Reqs : At(r, "link") /\ call[r].id = u /\ ~call[r].alone]_accountVars

(* auth.service.ts:105: sign-ins of one Google account that race each      *)
(* other, or a registration of the same email, all succeed.  A conflict is *)
(* answered only if the Google account is known by another email already.  *)
(* This is so of two requests: of more, two could link and link again the  *)
(* account that the third has lost the race to.                            *)
GoogleConflictsAreReal ==
    [][\A r \in Reqs :
          call[r].sub # Nothing /\ UnderWay(r) /\ call'[r].status = 409
             => \E u \in ByGoogleId(call[r].sub) : users[u].email # call[r].email]_accountVars

(* Stated in a comment, and not so (section 7 of the README):              *)
(* auth.service.ts:93: never overwrite.                                    *)
GoogleIdNeverOverwritten ==
    [][\A u \in Rows : users[u].googleId # Nothing => users'[u].googleId = users[u].googleId]_accountVars

=============================================================================
