---------------------------- MODULE SignInProofs ----------------------------
(***************************************************************************)
(* Theorems about Accounts, for any accounts, any Google credentials and   *)
(* any number of requests in flight, and about the pages of SignIn that    *)
(* use it.                                                                 *)
(***************************************************************************)
EXTENDS SignIn, TLAPS

(* What a request may rely on once it has found its account: a password    *)
(* sign-in matched it; a Google sign-in that is alone found or made the    *)
(* link, and nobody is about to link that account again.                   *)
Signed(r) ==
    /\ call[r].id \in Rows
    /\ Nothing = call[r].sub => /\ users[call[r].id].email = call[r].email
                               /\ users[call[r].id].password = call[r].password
    /\ Nothing # call[r].sub /\ call[r].alone =>
            /\ users[call[r].id].googleId = call[r].sub
            /\ \A x \in Reqs : ~(At(x, "link") /\ call[x].id = call[r].id)

GooglePCs == {"byGoogleId", "byEmail", "link", "createGoogle", "retryByGoogleId", "retryByEmail"}

(* What holds of a request at each await: of what it has read, only what   *)
(* nobody else can have changed since.                                     *)
Knows(r) ==
    /\ ~At(r, "done") => call[r].status = 0
    /\ At(r, "issue") \/ call[r].status = 200 => Signed(r)
    /\ At(r, "create") => call[r].sub = Nothing
    /\ call[r].pc \in GooglePCs => call[r].sub \in Subs
    /\ call[r].pc \in GooglePCs \cup {"create"} => call[r].email \in Emails
    /\ At(r, "link") => call[r].id \in Rows
    /\ call[r].alone /\ At(r, "link") => users[call[r].id].googleId = Nothing
    /\ call[r].alone /\ At(r, "byEmail") => ByGoogleId(call[r].sub) = {}
    /\ call[r].alone /\ At(r, "createGoogle") => Taken(r) = {}
    /\ call[r].alone => call[r].pc \notin {"retryByGoogleId", "retryByEmail"}
    /\ call[r].alone /\ UnderWay(r) => \A x \in Reqs \ {r} : ~UnderWay(x)

AccountsInv == AccountsTypeOK /\ \A r \in Reqs : Knows(r)

(* The steps of the service, each named.                                   *)
LEMMA AccountsCases ==
  ASSUME AccountsNext
  PROVE  \/ \E r \in Reqs : Handle(r)
         \/ \E r \in Reqs : Fail(r)
         \/ \E r \in Reqs : Forget(r)
         \/ \E r \in Reqs, e \in Emails, p \in Passwords : Register(r, e, p)
         \/ \E r \in Reqs, e \in Emails, p \in Passwords : Login(r, e, p)
         \/ \E r \in Reqs, s \in Subs, e \in Emails : LoginWithGoogle(r, s, e)
         \/ \E r \in Reqs : RefuseCredential(r)
         \/ \E u \in Ids, th \in Themes : UpdateProfile(u, th)
<1>1. \A g \in GoogleAccounts : g[1] \in Subs /\ g[2] \in Emails
  BY AccountsAssumption
<1> QED BY <1>1 DEF AccountsNext, Receive

(***************************************************************************)
(* Types                                                                   *)
(***************************************************************************)
LEMMA CallUpdates ==
  ASSUME NEW c \in Call
  PROVE  /\ \A pc \in PCs : [c EXCEPT !.pc = pc] \in Call
         /\ \A b \in BOOLEAN : [c EXCEPT !.alone = b] \in Call
         /\ \A pc \in PCs, status \in Statuses : [c EXCEPT !.pc = pc, !.status = status] \in Call
         /\ \A pc \in PCs, u \in Ids : [c EXCEPT !.pc = pc, !.id = u] \in Call
         /\ \A pc \in PCs, u \in Ids, th \in Themes :
               [c EXCEPT !.pc = pc, !.id = u, !.theme = th] \in Call
         /\ \A pc \in PCs, status \in Statuses, th \in Themes :
               [c EXCEPT !.pc = pc, !.status = status, !.theme = th] \in Call
         /\ \A pc \in PCs, status \in Statuses, e \in Emails, p \in Passwords :
               [c EXCEPT !.email = e, !.password = p, !.pc = pc, !.status = status] \in Call
         /\ \A pc \in PCs, u \in Ids, e \in Emails, p \in Passwords :
               [c EXCEPT !.email = e, !.password = p, !.pc = pc, !.id = u] \in Call
         /\ \A pc \in PCs, e \in Emails, s \in Subs :
               [c EXCEPT !.email = e, !.sub = s, !.pc = pc] \in Call
  BY DEF Call

LEMMA Codes ==
  /\ {"idle", "create", "byGoogleId", "byEmail", "link", "createGoogle", "retryByGoogleId",
      "retryByEmail", "issue", "done"} \subseteq PCs
  /\ 0 \in Statuses /\ 200 \in Statuses /\ 401 \in Statuses
  /\ 409 \in Statuses /\ 500 \in Statuses
  BY DEF PCs, Statuses

(* What a step does to the request that takes it leaves the calls typed.   *)
LEMMA StepTypeOK ==
  ASSUME AccountsTypeOK, NEW r \in Reqs
  PROVE  /\ \A pc \in PCs : Goto(r, pc) => call' \in [Reqs -> Call]
         /\ \A status \in Statuses : Reply(r, status) => call' \in [Reqs -> Call]
         /\ \A u \in Ids : Resolve(r, u) => call' \in [Reqs -> Call]
         /\ \A u \in Ids, th \in Themes : Written(r, u, th) => call' \in [Reqs -> Call]
<1>1. call \in [Reqs -> Call] /\ call[r] \in Call
  BY DEF AccountsTypeOK
<1>2. \A c \in Call : [call EXCEPT ![r] = c] \in [Reqs -> Call]
  BY <1>1
<1>3. ASSUME NEW pc \in PCs, Goto(r, pc) PROVE call' \in [Reqs -> Call]
  <2>1. call' = [call EXCEPT ![r] = [call[r] EXCEPT !.pc = pc]]
    BY <1>3 DEF Goto
  <2> QED BY <1>1, <1>2, <2>1, CallUpdates
<1>4. ASSUME NEW status \in Statuses, Reply(r, status) PROVE call' \in [Reqs -> Call]
  <2>1. call' = [call EXCEPT ![r] = [call[r] EXCEPT !.pc = "done", !.status = status]]
    BY <1>4 DEF Reply
  <2> QED BY <1>1, <1>2, <2>1, CallUpdates, Codes
<1>5. ASSUME NEW u \in Ids, Resolve(r, u) PROVE call' \in [Reqs -> Call]
  <2>1. call' = [call EXCEPT ![r] = [call[r] EXCEPT !.pc = "issue", !.id = u]]
    BY <1>5 DEF Resolve
  <2> QED BY <1>1, <1>2, <2>1, CallUpdates, Codes
<1>6. ASSUME NEW u \in Ids, NEW th \in Themes, Written(r, u, th)
      PROVE  call' \in [Reqs -> Call]
  <2>1. call' = [call EXCEPT ![r] = [call[r] EXCEPT !.pc = "issue", !.id = u, !.theme = th]]
    BY <1>6 DEF Written
  <2> QED BY <1>1, <1>2, <2>1, CallUpdates, Codes
<1> QED BY <1>3, <1>4, <1>5, <1>6

LEMMA BeginTypeOK ==
  ASSUME AccountsTypeOK, NEW r \in Reqs, NEW c \in Call, Begin(r, c)
  PROVE  call' \in [Reqs -> Call]
<1>1. \A x \in Reqs : call'[x] \in Call
  <2> SUFFICES ASSUME NEW x \in Reqs PROVE call'[x] \in Call
    OBVIOUS
  <2>1. call[x] \in Call
    BY DEF AccountsTypeOK
  <2>2. \A b \in BOOLEAN : [c EXCEPT !.alone = b] \in Call /\ [call[x] EXCEPT !.alone = b] \in Call
    BY <2>1, CallUpdates
  <2> QED BY <2>1, <2>2 DEF Begin
<1> QED BY <1>1 DEF Begin

LEMMA RowType ==
  ASSUME AccountsTypeOK, NEW r \in Reqs, call[r].email \in Emails
  PROVE  NewRow(r) \in UserRow
<1>1. call[r] \in Call
  BY DEF AccountsTypeOK
<1> QED BY <1>1, AccountsAssumption DEF NewRow, UserRow, Call

LEMMA HandleTypeStep ==
  ASSUME AccountsInv, NEW r \in Reqs, Handle(r)
  PROVE  AccountsTypeOK'
<1>0. AccountsTypeOK /\ Knows(r) /\ call[r] \in Call /\ "system" \in Themes
  BY AccountsAssumption DEF AccountsInv, AccountsTypeOK
<1>1. ASSUME NEW u \in Ids PROVE (users[u] # Nothing => users[u] \in UserRow) /\ u \in Ids
  BY <1>0 DEF AccountsTypeOK
<1>2. ASSUME Insert(r), call[r].email \in Emails PROVE AccountsTypeOK'
  <2>1. NewRow(r) \in UserRow
    BY <1>0, <1>2, RowType
  <2>2. PICK u \in Ids : users' = [users EXCEPT ![u] = NewRow(r)] /\ Written(r, u, "system")
    BY <1>2 DEF Insert
  <2>3. call' \in [Reqs -> Call]
    BY <1>0, <2>2, StepTypeOK
  <2> QED BY <1>0, <2>1, <2>2, <2>3 DEF AccountsTypeOK
<1>3. ASSUME NEW status \in Statuses, Reply(r, status), UNCHANGED users PROVE AccountsTypeOK'
  BY <1>0, <1>3, StepTypeOK DEF AccountsTypeOK
<1>4. ASSUME NEW pc \in PCs, Goto(r, pc), UNCHANGED users PROVE AccountsTypeOK'
  BY <1>0, <1>4, StepTypeOK DEF AccountsTypeOK
<1>5. ASSUME NEW u \in Ids, Resolve(r, u), UNCHANGED users PROVE AccountsTypeOK'
  BY <1>0, <1>5, StepTypeOK DEF AccountsTypeOK
<1>6. CASE CreateUser(r)
  BY <1>0, <1>2, <1>3, <1>6, Codes DEF CreateUser, Knows, At
<1>7. CASE FindByGoogleId(r)
  BY <1>4, <1>5, <1>7, Codes DEF FindByGoogleId, ByGoogleId, Rows
<1>8. CASE FindByEmail(r)
  <2>1. CASE ByEmail(call[r].email) = {} /\ Goto(r, "createGoogle")
    BY <1>4, <1>8, <2>1, Codes DEF FindByEmail
  <2>2. ASSUME NEW u \in ByEmail(call[r].email),
               call' = [call EXCEPT ![r].pc = "link", ![r].id = u]
        PROVE  AccountsTypeOK'
    <3>1. u \in Ids
      BY <2>2 DEF ByEmail, Rows
    <3>2. call' = [call EXCEPT ![r] = [call[r] EXCEPT !.pc = "link", !.id = u]]
      BY <2>2
    <3> QED BY <1>0, <1>8, <3>1, <3>2, CallUpdates, Codes DEF FindByEmail, AccountsTypeOK
  <2>3. ASSUME NEW u \in ByEmail(call[r].email), Resolve(r, u) PROVE AccountsTypeOK'
    <3>1. u \in Ids
      BY <2>3 DEF ByEmail, Rows
    <3> QED BY <1>5, <1>8, <2>3, <3>1 DEF FindByEmail
  <2>4. CASE Reply(r, 401)
    BY <1>3, <1>8, <2>4, Codes DEF FindByEmail
  <2> QED BY <1>8, <2>1, <2>2, <2>3, <2>4 DEF FindByEmail
<1>9. CASE LinkGoogleId(r)
  <2>1. CASE Reply(r, 409) /\ UNCHANGED users
    BY <1>3, <2>1, Codes
  <2>2. CASE /\ users' = [users EXCEPT ![call[r].id].googleId = call[r].sub]
             /\ Written(r, call[r].id, users[call[r].id].theme)
    <3>1. call[r].id \in Ids /\ users[call[r].id] \in UserRow /\ call[r].sub \in Subs
      BY <1>0, <1>1, <1>9 DEF LinkGoogleId, Knows, At, Rows, GooglePCs
    <3>2. users[call[r].id].theme \in Themes
      BY <3>1 DEF UserRow
    <3>3. call' \in [Reqs -> Call]
      BY <1>0, <2>2, <3>1, <3>2, StepTypeOK
    <3>4. [users[call[r].id] EXCEPT !.googleId = call[r].sub] \in UserRow
      BY <3>1 DEF UserRow
    <3>5. users' = [users EXCEPT ![call[r].id] = [users[call[r].id] EXCEPT !.googleId = call[r].sub]]
      BY <2>2
    <3> QED BY <1>0, <3>3, <3>4, <3>5 DEF AccountsTypeOK
  <2> QED BY <1>9, <2>1, <2>2 DEF LinkGoogleId
<1>10. CASE CreateWithGoogle(r)
  BY <1>0, <1>2, <1>4, <1>10, Codes DEF CreateWithGoogle, Knows, At, GooglePCs
<1>11. CASE RetryByGoogleId(r)
  BY <1>4, <1>5, <1>11, Codes DEF RetryByGoogleId, ByGoogleId, Rows
<1>12. CASE RetryByEmail(r)
  BY <1>3, <1>5, <1>12, Codes DEF RetryByEmail, ByEmail, Rows
<1>13. CASE IssuePair(r)
  <2>1. call[r].id \in Ids /\ users[call[r].id] \in UserRow
    BY <1>0, <1>1, <1>13 DEF IssuePair, Knows, Signed, Rows
  <2>2. \E status \in Statuses, th \in Themes :
          call' = [call EXCEPT ![r] = [call[r] EXCEPT !.pc = "done", !.status = status, !.theme = th]]
    <3>1. users[call[r].id].theme \in Themes /\ call[r].theme \in Themes \cup {Nothing}
      BY <1>0, <2>1 DEF UserRow, Call, AccountsInv
    <3> DEFINE th == IF call[r].theme = Nothing THEN users[call[r].id].theme ELSE call[r].theme
    <3>2. th \in Themes
      BY <3>1
    <3>3. call' = [call EXCEPT ![r] = [call[r] EXCEPT !.pc = "done", !.status = 200, !.theme = th]]
      BY <1>13 DEF IssuePair
    <3>4. 200 \in Statuses
      BY Codes
    <3> HIDE DEF th
    <3> QED BY <3>2, <3>3, <3>4, Zenon
  <2>3. "done" \in PCs /\ UNCHANGED users
    BY <1>13, Codes DEF IssuePair
  <2>4. call' \in [Reqs -> Call]
    <3>1. PICK status \in Statuses, th \in Themes :
            call' = [call EXCEPT ![r] = [call[r] EXCEPT !.pc = "done", !.status = status, !.theme = th]]
      BY <2>2
    <3>2. [call[r] EXCEPT !.pc = "done", !.status = status, !.theme = th] \in Call
      BY <1>0, <2>3, CallUpdates
    <3> QED BY <1>0, <3>1, <3>2 DEF AccountsTypeOK
  <2> QED BY <1>0, <2>3, <2>4 DEF AccountsTypeOK
<1> QED BY <1>6, <1>7, <1>8, <1>9, <1>10, <1>11, <1>12, <1>13 DEF Handle

LEMMA AccountsTypeStep ==
  ASSUME AccountsInv, [AccountsNext]_accountVars
  PROVE  AccountsTypeOK'
<1>0. AccountsTypeOK /\ IdleCall \in Call
  BY Codes DEF AccountsInv, IdleCall, Call
<1>1. ASSUME NEW r \in Reqs, Fail(r) PROVE AccountsTypeOK'
  BY <1>0, <1>1, StepTypeOK, Codes DEF Fail, AccountsTypeOK
<1>2. ASSUME NEW r \in Reqs, Forget(r) PROVE AccountsTypeOK'
  BY <1>0, <1>2 DEF Forget, AccountsTypeOK
<1>3. ASSUME NEW r \in Reqs, NEW e \in Emails, NEW p \in Passwords, Register(r, e, p)
      PROVE  AccountsTypeOK'
  <2> DEFINE c == [IdleCall EXCEPT !.email = e, !.password = p,
                                   !.pc = IF ByEmail(e) = {} THEN "create" ELSE "done",
                                   !.status = IF ByEmail(e) = {} THEN 0 ELSE 409]
  <2>1. c \in Call
    <3> DEFINE pc == IF ByEmail(e) = {} THEN "create" ELSE "done"
               status == IF ByEmail(e) = {} THEN 0 ELSE 409
    <3>1. pc \in PCs /\ status \in Statuses
      BY Codes
    <3>2. \A q \in PCs, t \in Statuses :
             [IdleCall EXCEPT !.email = e, !.password = p, !.pc = q, !.status = t] \in Call
      BY <1>0, CallUpdates
    <3> HIDE DEF pc, status
    <3>3. [IdleCall EXCEPT !.email = e, !.password = p, !.pc = pc, !.status = status] \in Call
      BY <3>1, <3>2
    <3> QED BY <3>3 DEF pc, status
  <2> HIDE DEF c
  <2>2. Begin(r, c) /\ UNCHANGED users
    BY <1>3 DEF Register, c
  <2> QED BY <1>0, <2>1, <2>2, BeginTypeOK DEF AccountsTypeOK
<1>4. ASSUME NEW r \in Reqs, NEW e \in Emails, NEW p \in Passwords, Login(r, e, p)
      PROVE  AccountsTypeOK'
  <2>1. [IdleCall EXCEPT !.email = e, !.password = p, !.pc = "done", !.status = 401] \in Call
    <3>1. \A q \in PCs, t \in Statuses :
             [IdleCall EXCEPT !.email = e, !.password = p, !.pc = q, !.status = t] \in Call
      BY <1>0, CallUpdates
    <3>2. "done" \in PCs /\ 401 \in Statuses
      BY Codes
    <3> QED BY <3>1, <3>2, Zenon
  <2>2. \A u \in ByEmail(e) :
           [IdleCall EXCEPT !.email = e, !.password = p, !.pc = "issue", !.id = u] \in Call
    BY <1>0, CallUpdates, Codes DEF ByEmail, Rows
  <2>3. call' \in [Reqs -> Call]
    BY <1>0, <1>4, <2>1, <2>2, BeginTypeOK DEF Login
  <2> QED BY <1>0, <1>4, <2>3 DEF Login, AccountsTypeOK
<1>5. ASSUME NEW r \in Reqs, NEW s \in Subs, NEW e \in Emails, LoginWithGoogle(r, s, e)
      PROVE  AccountsTypeOK'
  <2>1. [IdleCall EXCEPT !.email = e, !.sub = s, !.pc = "byGoogleId"] \in Call
    BY <1>0, CallUpdates, Codes
  <2> QED BY <1>0, <1>5, <2>1, BeginTypeOK DEF LoginWithGoogle, AccountsTypeOK
<1>6. ASSUME NEW r \in Reqs, RefuseCredential(r) PROVE AccountsTypeOK'
  <2>1. [IdleCall EXCEPT !.pc = "done", !.status = 401] \in Call
    <3>1. \A q \in PCs, t \in Statuses : [IdleCall EXCEPT !.pc = q, !.status = t] \in Call
      BY <1>0, CallUpdates
    <3>2. "done" \in PCs /\ 401 \in Statuses
      BY Codes
    <3> QED BY <3>1, <3>2, Zenon
  <2> QED BY <1>0, <1>6, <2>1, BeginTypeOK DEF RefuseCredential, AccountsTypeOK
<1>7. ASSUME NEW u \in Ids, NEW th \in Themes, UpdateProfile(u, th) PROVE AccountsTypeOK'
  <2>1. users[u] \in UserRow
    BY <1>0, <1>7 DEF UpdateProfile, Rows, AccountsTypeOK
  <2>2. [users[u] EXCEPT !.theme = th] \in UserRow
    BY <2>1 DEF UserRow
  <2>3. users' = [users EXCEPT ![u] = [users[u] EXCEPT !.theme = th]]
    BY <1>7 DEF UpdateProfile
  <2> QED BY <1>0, <1>7, <2>2, <2>3 DEF UpdateProfile, AccountsTypeOK
<1>8. CASE UNCHANGED accountVars
  BY <1>0, <1>8 DEF accountVars, AccountsTypeOK
<1> QED BY <1>1, <1>2, <1>3, <1>4, <1>5, <1>6, <1>7, <1>8, AccountsCases, HandleTypeStep

(***************************************************************************)
(* What requests know                                                      *)
(***************************************************************************)
(* The request of a step moves on; what was sent with it stays, and so do  *)
(* the other requests.                                                     *)
Moved(r, pc, id, status) ==
    /\ call'[r].pc = pc /\ call'[r].id = id /\ call'[r].status = status
    /\ call'[r].email = call[r].email /\ call'[r].password = call[r].password
    /\ call'[r].sub = call[r].sub /\ call'[r].alone = call[r].alone
    /\ \A x \in Reqs \ {r} : call'[x] = call[x]

(* No row goes; emails and passwords stay; a Google id changes only where  *)
(* r links it.                                                             *)
RowsKept(r) ==
    \A u \in Rows :
        /\ users'[u] # Nothing
        /\ users'[u].email = users[u].email /\ users'[u].password = users[u].password
        /\ users'[u].googleId # users[u].googleId => At(r, "link") /\ call[r].id = u

LEMMA Moves ==
  ASSUME AccountsTypeOK, NEW r \in Reqs
  PROVE  /\ \A pc : Goto(r, pc) => Moved(r, pc, call[r].id, call[r].status)
         /\ \A status : Reply(r, status) => Moved(r, "done", call[r].id, status)
         /\ \A u : Resolve(r, u) => Moved(r, "issue", u, call[r].status)
         /\ \A u, th : Written(r, u, th) => Moved(r, "issue", u, call[r].status)
<1>1. call[r] \in Call /\ call \in [Reqs -> Call]
  BY DEF AccountsTypeOK
<1>2. ASSUME NEW c, call' = [call EXCEPT ![r] = c]
      PROVE  call'[r] = c /\ \A x \in Reqs \ {r} : call'[x] = call[x]
  BY <1>1, <1>2
<1>3. ASSUME NEW pc, Goto(r, pc) PROVE Moved(r, pc, call[r].id, call[r].status)
  <2>1. call' = [call EXCEPT ![r] = [call[r] EXCEPT !.pc = pc]]
    BY <1>3 DEF Goto
  <2> QED BY <1>1, <1>2, <2>1 DEF Moved, Call
<1>4. ASSUME NEW status, Reply(r, status) PROVE Moved(r, "done", call[r].id, status)
  <2>1. call' = [call EXCEPT ![r] = [call[r] EXCEPT !.pc = "done", !.status = status]]
    BY <1>4 DEF Reply
  <2> QED BY <1>1, <1>2, <2>1 DEF Moved, Call
<1>5. ASSUME NEW u, Resolve(r, u) PROVE Moved(r, "issue", u, call[r].status)
  <2>1. call' = [call EXCEPT ![r] = [call[r] EXCEPT !.pc = "issue", !.id = u]]
    BY <1>5 DEF Resolve
  <2> QED BY <1>1, <1>2, <2>1 DEF Moved, Call
<1>6. ASSUME NEW u, NEW th, Written(r, u, th)
      PROVE  Moved(r, "issue", u, call[r].status)
  <2>1. call' = [call EXCEPT ![r] = [call[r] EXCEPT !.pc = "issue", !.id = u, !.theme = th]]
    BY <1>6 DEF Written
  <2> QED BY <1>1, <1>2, <2>1 DEF Moved, Call
<1> QED BY <1>3, <1>4, <1>5, <1>6

LEMMA LinkMoves ==
  ASSUME AccountsTypeOK, NEW r \in Reqs, NEW u, call' = [call EXCEPT ![r].pc = "link", ![r].id = u]
  PROVE  Moved(r, "link", u, call[r].status)
<1>1. call' = [call EXCEPT ![r] = [call[r] EXCEPT !.pc = "link", !.id = u]]
  OBVIOUS
<1> QED BY <1>1 DEF Moved, Call, AccountsTypeOK

LEMMA UnchangedRowsKept ==
  ASSUME NEW r, UNCHANGED users
  PROVE  RowsKept(r) /\ Rows' = Rows
  BY DEF RowsKept, Rows

LEMMA InsertRowsKept ==
  ASSUME AccountsTypeOK, NEW r \in Reqs, call[r].email \in Emails,
         NEW u \in Ids \ Rows, users' = [users EXCEPT ![u] = NewRow(r)]
  PROVE  RowsKept(r) /\ Rows' = Rows \cup {u} /\ users'[u] = NewRow(r)
<1>1. NewRow(r) # Nothing
  BY RowType, AccountsAssumption
<1> QED BY <1>1 DEF RowsKept, Rows, AccountsTypeOK

LEMMA LinkRowsKept ==
  ASSUME AccountsTypeOK, NEW r \in Reqs, At(r, "link"), call[r].id \in Rows, call[r].sub \in Subs,
         users' = [users EXCEPT ![call[r].id].googleId = call[r].sub]
  PROVE  RowsKept(r) /\ Rows' = Rows /\ users'[call[r].id].googleId = call[r].sub
<1>1. call[r].id \in Ids /\ users[call[r].id] \in UserRow
  BY DEF Rows, AccountsTypeOK
<1>2. [users[call[r].id] EXCEPT !.googleId = call[r].sub] \in UserRow
  BY <1>1 DEF UserRow
<1>3. users' = [users EXCEPT ![call[r].id] = [users[call[r].id] EXCEPT !.googleId = call[r].sub]]
  OBVIOUS
<1> QED BY <1>1, <1>2, <1>3, AccountsAssumption DEF RowsKept, Rows, AccountsTypeOK, UserRow

(* The other requests, when r takes a step: who is under way beside r is   *)
(* not alone, and nobody begins to link an account that is linked.         *)
LEMMA OthersKnow ==
  ASSUME AccountsInv, NEW r \in Reqs, UnderWay(r), NEW x \in Reqs \ {r}, RowsKept(r),
         \A y \in Reqs \ {r} : call'[y] = call[y],
         call'[r].pc = "link" => users[call'[r].id].googleId = Nothing
  PROVE  Knows(x)'
<1>1. Knows(x) /\ call'[x] = call[x]
  BY DEF AccountsInv
<1>2. UnderWay(x) => ~call[x].alone
  BY <1>1 DEF Knows
<1>3. \A u \in Rows : u \in Rows' /\ users'[u].email = users[u].email
                                  /\ users'[u].password = users[u].password
  BY DEF RowsKept, Rows
<1>4. ASSUME Signed(x) PROVE Signed(x)'
  <2>1. call[x].id \in Rows
    BY <1>4 DEF Signed
  <2>2. ASSUME Nothing # call[x].sub, call[x].alone
        PROVE  /\ users'[call[x].id].googleId = call[x].sub
               /\ \A y \in Reqs : ~(call'[y].pc = "link" /\ call'[y].id = call[x].id)
    <3>1. /\ users[call[x].id].googleId = call[x].sub
          /\ \A y \in Reqs : ~(At(y, "link") /\ call[y].id = call[x].id)
      BY <1>4, <2>2 DEF Signed
    <3>2. users'[call[x].id].googleId = call[x].sub
      BY <2>1, <3>1 DEF RowsKept
    <3>3. ~(call'[r].pc = "link" /\ call'[r].id = call[x].id)
      BY <2>2, <3>1
    <3>4. ASSUME NEW y \in Reqs \ {r}
          PROVE  ~(call'[y].pc = "link" /\ call'[y].id = call[x].id)
      BY <3>1 DEF At
    <3> QED BY <3>2, <3>3, <3>4
  <2> QED BY <1>1, <1>3, <1>4, <2>1, <2>2 DEF Signed, At
<1>5. At(x, "link") \/ At(x, "byEmail") \/ At(x, "createGoogle") => ~call[x].alone
  BY <1>2 DEF At, UnderWay
<1> QED BY <1>1, <1>2, <1>3, <1>4, <1>5 DEF Knows, At, UnderWay

(* All requests know what they should once r does.                         *)
LEMMA StepKnows ==
  ASSUME AccountsInv, NEW r \in Reqs, UnderWay(r), RowsKept(r),
         NEW pc, NEW id, NEW status, Moved(r, pc, id, status),
         pc = "link" => users[id].googleId = Nothing,
         (call[r].alone => \A x \in Reqs \ {r} : ~UnderWay(x)) => Knows(r)'
  PROVE  \A x \in Reqs : Knows(x)'
<1>1. call[r].alone => \A x \in Reqs \ {r} : ~UnderWay(x)
  BY DEF AccountsInv, Knows
<1>2. \A x \in Reqs \ {r} : Knows(x)'
  BY OthersKnow DEF Moved
<1> QED BY <1>1, <1>2

(* An answer other than 200 claims nothing.                                *)
LEMMA ReplyKnows ==
  ASSUME AccountsInv, NEW r \in Reqs, UnderWay(r), UNCHANGED users,
         NEW status, status # 200, Reply(r, status)
  PROVE  \A x \in Reqs : Knows(x)'
<1>1. Moved(r, "done", call[r].id, status) /\ RowsKept(r)
  BY Moves, UnchangedRowsKept DEF AccountsInv
<1>2. Knows(r)'
  BY <1>1 DEF Moved, Knows, At, UnderWay, GooglePCs
<1> QED BY <1>1, <1>2, StepKnows

(* A Google sign-in that looked an account up.                             *)
LEMMA ResolveKnows ==
  ASSUME AccountsInv, NEW r \in Reqs, call[r].pc \in GooglePCs, UNCHANGED users,
         NEW u \in Rows, Resolve(r, u), call[r].alone => users[u].googleId = call[r].sub
  PROVE  \A x \in Reqs : Knows(x)'
<1>0. Knows(r) /\ UnderWay(r) /\ call[r].sub # Nothing
  BY AccountsAssumption DEF AccountsInv, Knows, UnderWay, GooglePCs
<1>1. Moved(r, "issue", u, call[r].status) /\ RowsKept(r) /\ Rows' = Rows
  BY Moves, UnchangedRowsKept DEF AccountsInv
<1>2. ASSUME call[r].alone => \A x \in Reqs \ {r} : ~UnderWay(x)
      PROVE  Knows(r)'
  <2>1. call'[r].alone => \A x \in Reqs : call'[x].pc # "link"
    BY <1>1, <1>2 DEF Moved, UnderWay
  <2>2. Signed(r)'
    BY <1>0, <1>1, <2>1 DEF Signed, Moved, At
  <2> QED BY <1>0, <1>1, <1>2, <2>2 DEF Moved, Knows, At, UnderWay, GooglePCs
<1> QED BY <1>0, <1>1, <1>2, StepKnows

(* A request that inserts its row is signed in to it.                      *)
LEMMA InsertKnows ==
  ASSUME AccountsInv, NEW r \in Reqs, call[r].pc \in {"create", "createGoogle"}, Insert(r)
  PROVE  \A x \in Reqs : Knows(x)'
<1>0. /\ Knows(r) /\ UnderWay(r) /\ call[r].status = 0 /\ call[r].email \in Emails
      /\ AccountsTypeOK
  BY DEF AccountsInv, Knows, UnderWay, GooglePCs, At
<1>1. PICK u \in Ids \ Rows : users' = [users EXCEPT ![u] = NewRow(r)] /\ Written(r, u, "system")
  BY DEF Insert
<1>2. RowsKept(r) /\ Rows' = Rows \cup {u} /\ users'[u] = NewRow(r)
  BY <1>0, <1>1, InsertRowsKept
<1>3. Moved(r, "issue", u, call[r].status)
  BY <1>0, <1>1, Moves
<1>4. ASSUME call[r].alone => \A x \in Reqs \ {r} : ~UnderWay(x)
      PROVE  Knows(r)'
  <2>1. call'[r].alone => \A x \in Reqs : call'[x].pc # "link"
    BY <1>3, <1>4 DEF Moved, UnderWay
  <2>2. /\ users'[u].email = call[r].email /\ users'[u].password = call[r].password
        /\ users'[u].googleId = call[r].sub
    BY <1>2 DEF NewRow
  <2>3. Signed(r)'
    BY <1>2, <1>3, <2>1, <2>2 DEF Signed, Moved, At
  <2> QED BY <1>0, <1>3, <1>4, <2>3 DEF Moved, Knows, At, UnderWay, GooglePCs
<1> QED BY <1>0, <1>2, <1>3, <1>4, StepKnows

LEMMA HandleKnows ==
  ASSUME AccountsInv, NEW r \in Reqs, Handle(r)
  PROVE  \A x \in Reqs : Knows(x)'
<1>0. Knows(r) /\ AccountsTypeOK /\ call[r] \in Call
  BY DEF AccountsInv, AccountsTypeOK
<1>1. CASE CreateUser(r)
  <2>1. CASE Insert(r)
    BY <1>1, <2>1, InsertKnows DEF CreateUser, At
  <2>2. CASE Reply(r, 409) /\ UNCHANGED users
    BY <1>1, <2>2, ReplyKnows DEF CreateUser, At, UnderWay
  <2> QED BY <1>1, <2>1, <2>2 DEF CreateUser
<1>2. CASE FindByGoogleId(r)
  <2>0. At(r, "byGoogleId") /\ UnderWay(r) /\ call[r].pc \in GooglePCs /\ UNCHANGED users
    BY <1>2 DEF FindByGoogleId, At, UnderWay, GooglePCs
  <2>1. CASE ByGoogleId(call[r].sub) = {} /\ Goto(r, "byEmail")
    <3>1. Moved(r, "byEmail", call[r].id, call[r].status) /\ RowsKept(r) /\ Rows' = Rows
      BY <1>0, <2>0, <2>1, Moves, UnchangedRowsKept
    <3>2. ASSUME call[r].alone => \A x \in Reqs \ {r} : ~UnderWay(x)
          PROVE  Knows(r)'
      <4>1. ByGoogleId(call[r].sub)' = {}
        BY <2>0, <2>1, <3>1 DEF ByGoogleId, Moved
      <4> QED BY <1>0, <2>0, <3>1, <3>2, <4>1 DEF Moved, Knows, At, UnderWay, GooglePCs
    <3> QED BY <2>0, <3>1, <3>2, StepKnows
  <2>2. ASSUME NEW u \in ByGoogleId(call[r].sub), Resolve(r, u) PROVE \A x \in Reqs : Knows(x)'
    BY <2>0, <2>2, ResolveKnows DEF ByGoogleId
  <2> QED BY <1>2, <2>1, <2>2 DEF FindByGoogleId
<1>3. CASE FindByEmail(r)
  <2>0. At(r, "byEmail") /\ UnderWay(r) /\ call[r].pc \in GooglePCs /\ UNCHANGED users
    BY <1>3 DEF FindByEmail, At, UnderWay, GooglePCs
  <2>1. CASE ByEmail(call[r].email) = {} /\ Goto(r, "createGoogle")
    <3>1. Moved(r, "createGoogle", call[r].id, call[r].status) /\ RowsKept(r) /\ Rows' = Rows
      BY <1>0, <2>0, <2>1, Moves, UnchangedRowsKept
    <3>2. ASSUME call[r].alone => \A x \in Reqs \ {r} : ~UnderWay(x)
          PROVE  Knows(r)'
      <4>1. call[r].alone => ByGoogleId(call[r].sub) = {}
        BY <1>0, <2>0 DEF Knows
      <4>2. call[r].alone => Taken(r) = {}
        BY <2>1, <4>1 DEF Taken
      <4>3. Taken(r)' = Taken(r)
        BY <2>0, <3>1 DEF Taken, ByEmail, ByGoogleId, Moved
      <4> QED BY <1>0, <2>0, <3>1, <3>2, <4>2, <4>3 DEF Moved, Knows, At, UnderWay, GooglePCs
    <3> QED BY <2>0, <3>1, <3>2, StepKnows
  <2>2. ASSUME NEW u \in ByEmail(call[r].email), users[u].googleId = Nothing,
               call' = [call EXCEPT ![r].pc = "link", ![r].id = u]
        PROVE  \A x \in Reqs : Knows(x)'
    <3>1. Moved(r, "link", u, call[r].status)
      BY <1>0, <2>2, LinkMoves
    <3>2. RowsKept(r) /\ Rows' = Rows /\ u \in Rows
      BY <2>0, <2>2, UnchangedRowsKept DEF ByEmail
    <3>3. ASSUME call[r].alone => \A x \in Reqs \ {r} : ~UnderWay(x)
          PROVE  Knows(r)'
      <4>1. u \in Rows' /\ users'[u].googleId = Nothing
        BY <2>0, <2>2, <3>2
      <4>2. call'[r].sub \in Subs /\ call'[r].email \in Emails /\ call'[r].status = 0
        BY <1>0, <2>0, <3>1 DEF Moved, Knows, At, GooglePCs
      <4> QED BY <3>1, <3>3, <4>1, <4>2 DEF Moved, Knows, At, UnderWay, GooglePCs
    <3> QED BY <2>0, <2>2, <3>1, <3>2, <3>3, StepKnows
  <2>3. ASSUME NEW u \in ByEmail(call[r].email), users[u].googleId = call[r].sub, Resolve(r, u)
        PROVE  \A x \in Reqs : Knows(x)'
    BY <2>0, <2>3, ResolveKnows DEF ByEmail
  <2>4. CASE Reply(r, 401)
    BY <2>0, <2>4, ReplyKnows
  <2> QED BY <1>3, <2>1, <2>2, <2>3, <2>4 DEF FindByEmail
<1>4. CASE LinkGoogleId(r)
  <2>0. /\ At(r, "link") /\ UnderWay(r) /\ call[r].sub \in Subs /\ call[r].status = 0
        /\ call[r].id \in Rows
    BY <1>0, <1>4 DEF LinkGoogleId, Knows, At, UnderWay, GooglePCs
  <2>1. CASE Reply(r, 409) /\ UNCHANGED users
    BY <2>0, <2>1, ReplyKnows
  <2>2. CASE /\ users' = [users EXCEPT ![call[r].id].googleId = call[r].sub]
             /\ Written(r, call[r].id, users[call[r].id].theme)
    <3>1. RowsKept(r) /\ Rows' = Rows /\ users'[call[r].id].googleId = call[r].sub
      BY <1>0, <2>0, <2>2, LinkRowsKept
    <3>2. Moved(r, "issue", call[r].id, call[r].status)
      BY <1>0, <2>2, Moves
    <3>3. ASSUME call[r].alone => \A x \in Reqs \ {r} : ~UnderWay(x)
          PROVE  Knows(r)'
      <4>1. call'[r].alone => \A x \in Reqs : call'[x].pc # "link"
        BY <3>2, <3>3 DEF Moved, UnderWay
      <4>2. Signed(r)'
        BY <2>0, <3>1, <3>2, <4>1, AccountsAssumption DEF Signed, Moved, At
      <4> QED BY <1>0, <2>0, <3>2, <3>3, <4>2 DEF Moved, Knows, At, UnderWay, GooglePCs
    <3> QED BY <2>0, <3>1, <3>2, <3>3, StepKnows
  <2> QED BY <1>4, <2>1, <2>2 DEF LinkGoogleId
<1>5. CASE CreateWithGoogle(r)
  <2>1. CASE Insert(r)
    BY <1>5, <2>1, InsertKnows DEF CreateWithGoogle, At
  <2>2. CASE Taken(r) # {} /\ Goto(r, "retryByGoogleId") /\ UNCHANGED users
    <3>0. At(r, "createGoogle") /\ UnderWay(r) /\ call[r].pc \in GooglePCs /\ ~call[r].alone
      BY <1>0, <1>5, <2>2 DEF CreateWithGoogle, Knows, At, UnderWay, GooglePCs
    <3>1. Moved(r, "retryByGoogleId", call[r].id, call[r].status) /\ RowsKept(r)
      BY <1>0, <2>2, Moves, UnchangedRowsKept
    <3>2. Knows(r)'
      BY <1>0, <3>0, <3>1 DEF Moved, Knows, At, UnderWay, GooglePCs
    <3> QED BY <3>0, <3>1, <3>2, StepKnows
  <2> QED BY <1>5, <2>1, <2>2 DEF CreateWithGoogle
<1>6. CASE RetryByGoogleId(r)
  <2>0. /\ At(r, "retryByGoogleId") /\ UnderWay(r) /\ call[r].pc \in GooglePCs /\ UNCHANGED users
        /\ ~call[r].alone
    BY <1>0, <1>6 DEF RetryByGoogleId, Knows, At, UnderWay, GooglePCs
  <2>1. CASE Goto(r, "retryByEmail")
    <3>1. Moved(r, "retryByEmail", call[r].id, call[r].status) /\ RowsKept(r)
      BY <1>0, <2>0, <2>1, Moves, UnchangedRowsKept
    <3>2. Knows(r)'
      BY <1>0, <2>0, <3>1 DEF Moved, Knows, At, UnderWay, GooglePCs
    <3> QED BY <2>0, <3>1, <3>2, StepKnows
  <2>2. ASSUME NEW u \in ByGoogleId(call[r].sub), Resolve(r, u) PROVE \A x \in Reqs : Knows(x)'
    BY <2>0, <2>2, ResolveKnows DEF ByGoogleId
  <2> QED BY <1>6, <2>1, <2>2 DEF RetryByGoogleId
<1>7. CASE RetryByEmail(r)
  <2>0. /\ At(r, "retryByEmail") /\ UnderWay(r) /\ call[r].pc \in GooglePCs /\ UNCHANGED users
        /\ ~call[r].alone
    BY <1>0, <1>7 DEF RetryByEmail, Knows, At, UnderWay, GooglePCs
  <2>1. CASE Reply(r, 409)
    BY <2>0, <2>1, ReplyKnows
  <2>2. ASSUME NEW u \in ByEmail(call[r].email), Resolve(r, u) PROVE \A x \in Reqs : Knows(x)'
    BY <2>0, <2>2, ResolveKnows DEF ByEmail
  <2> QED BY <1>7, <2>1, <2>2 DEF RetryByEmail
<1>8. CASE IssuePair(r)
  <2>0. At(r, "issue") /\ UnderWay(r) /\ Signed(r) /\ UNCHANGED users
    BY <1>0, <1>8 DEF IssuePair, Knows, At, UnderWay
  <2>1. Moved(r, "done", call[r].id, 200) /\ RowsKept(r) /\ Rows' = Rows
    <3>1. PICK th : call' = [call EXCEPT ![r] =
                                  [call[r] EXCEPT !.pc = "done", !.status = 200, !.theme = th]]
      <4> DEFINE found == IF call[r].theme = Nothing THEN users[call[r].id].theme ELSE call[r].theme
      <4>1. call' = [call EXCEPT ![r] = [call[r] EXCEPT !.pc = "done", !.status = 200, !.theme = found]]
        BY <1>8 DEF IssuePair
      <4> HIDE DEF found
      <4> QED BY <4>1, Zenon
    <3> QED BY <1>0, <2>0, <3>1, UnchangedRowsKept DEF Moved, Call, AccountsTypeOK
  <2>2. Knows(r)'
    <3>1. \A x \in Reqs : call'[x].pc = "link" => call[x].pc = "link" /\ call'[x].id = call[x].id
      BY <2>0, <2>1 DEF Moved
    <3>2. Signed(r)'
      BY <2>0, <2>1, <3>1 DEF Signed, Moved, At
    <3> QED BY <1>0, <2>0, <2>1, <3>2 DEF Moved, Knows, At, UnderWay, GooglePCs
  <2> QED BY <2>0, <2>1, <2>2, StepKnows
<1> QED BY <1>1, <1>2, <1>3, <1>4, <1>5, <1>6, <1>7, <1>8 DEF Handle

(* A request that arrives, with what its first query answered; from then   *)
(* on who is under way beside it is not alone.                             *)
LEMMA BeginKnows ==
  ASSUME AccountsInv, NEW r \in Reqs, At(r, "idle"), NEW c \in Call, Begin(r, c), UNCHANGED users,
         c.pc \in {"create", "issue", "byGoogleId", "done"}, c.status # 200,
         c.pc # "done" => c.status = 0,
         c.pc = "create" => c.sub = Nothing /\ c.email \in Emails,
         c.pc = "byGoogleId" => c.sub \in Subs /\ c.email \in Emails,
         c.pc = "issue" => /\ c.sub = Nothing /\ c.id \in Rows
                           /\ users[c.id].email = c.email /\ users[c.id].password = c.password
  PROVE  \A x \in Reqs : Knows(x)'
<1> DEFINE others == {x \in Reqs \ {r} : UnderWay(x)}
<1>0. \A x \in Reqs : Knows(x) /\ call[x] \in Call
  BY DEF AccountsInv, AccountsTypeOK
<1>1. /\ call'[r] = [c EXCEPT !.alone = others = {}]
      /\ \A x \in others : call'[x] = [call[x] EXCEPT !.alone = FALSE]
      /\ \A x \in Reqs \ {r} : x \notin others => call'[x] = call[x]
  BY DEF Begin
<1>2. /\ call'[r].pc = c.pc /\ call'[r].email = c.email /\ call'[r].password = c.password
      /\ call'[r].sub = c.sub /\ call'[r].id = c.id /\ call'[r].status = c.status
      /\ call'[r].alone = (others = {})
  BY <1>1 DEF Call
<1>3. ASSUME NEW x \in Reqs \ {r}
      PROVE  /\ call'[x].pc = call[x].pc /\ call'[x].email = call[x].email
             /\ call'[x].password = call[x].password
             /\ call'[x].sub = call[x].sub /\ call'[x].id = call[x].id
             /\ call'[x].status = call[x].status
             /\ x \in others => ~call'[x].alone
             /\ x \notin others => call'[x].alone = call[x].alone
  <2>1. CASE x \in others
    <3>1. call[x] \in Call /\ call'[x] = [call[x] EXCEPT !.alone = FALSE]
      BY <1>0, <1>1, <2>1
    <3> QED BY <2>1, <3>1 DEF Call
  <2>2. CASE x \notin others
    BY <1>1, <2>2
  <2> QED BY <2>1, <2>2
<1>4. Rows' = Rows
  BY DEF Rows
<1>5. Knows(r)'
  <2>1. c.pc = "issue" => Signed(r)'
    BY <1>2, <1>4 DEF Signed
  <2>2. call'[r].alone => \A x \in Reqs \ {r} : ~UnderWay(x)'
    BY <1>2, <1>3 DEF UnderWay
  <2> QED BY <1>2, <2>1, <2>2 DEF Knows, At, UnderWay, GooglePCs
<1>6. ASSUME NEW x \in Reqs \ {r} PROVE Knows(x)'
  <2>1. Signed(x) => Signed(x)'
    <3> SUFFICES ASSUME Signed(x) PROVE Signed(x)'
      OBVIOUS
    <3>1. call'[x].alone => call[x].alone
      BY <1>3
    <3>2. ASSUME NEW y \in Reqs, call'[y].pc = "link"
          PROVE  call[y].pc = "link" /\ call'[y].id = call[y].id
      BY <1>2, <1>3, <3>2
    <3>3. call[x].alone /\ Nothing # call[x].sub =>
            \A y \in Reqs : ~(call'[y].pc = "link" /\ call'[y].id = call'[x].id)
      BY <1>3, <3>2 DEF Signed, At
    <3>4. /\ call'[x].id = call[x].id /\ call'[x].sub = call[x].sub
          /\ call'[x].email = call[x].email /\ call'[x].password = call[x].password
      BY <1>3
    <3> QED BY <1>4, <3>1, <3>3, <3>4 DEF Signed, At
  <2>2. CASE x \in others
    <3>1. ~call'[x].alone
      BY <1>3, <2>2
    <3>2. Knows(x)
      BY <1>0
    <3> QED BY <1>3, <1>4, <2>1, <3>1, <3>2 DEF Knows, At, GooglePCs
  <2>3. CASE x \notin others
    <3>1. call[x].pc \in {"idle", "done"} /\ call'[x] = call[x]
      BY <1>1, <2>3 DEF UnderWay
    <3>2. Knows(x)
      BY <1>0
    <3> QED BY <2>1, <3>1, <3>2 DEF Knows, At, UnderWay, GooglePCs
  <2> QED BY <2>2, <2>3
<1> QED BY <1>5, <1>6

LEMMA PasswordKnows ==
  ASSUME AccountsInv, NEW r \in Reqs, NEW e \in Emails, NEW p \in Passwords,
         Register(r, e, p) \/ Login(r, e, p)
  PROVE  \A x \in Reqs : Knows(x)'
<1>0. AccountsTypeOK /\ IdleCall \in Call
  BY Codes DEF AccountsInv, IdleCall, Call
<1>1. \A q \in PCs, t \in Statuses :
         [IdleCall EXCEPT !.email = e, !.password = p, !.pc = q, !.status = t] \in Call
  BY <1>0, CallUpdates
<1>2. CASE Register(r, e, p)
  <2> DEFINE pc == IF ByEmail(e) = {} THEN "create" ELSE "done"
             status == IF ByEmail(e) = {} THEN 0 ELSE 409
             c == [IdleCall EXCEPT !.email = e, !.password = p, !.pc = pc, !.status = status]
  <2>1. /\ pc \in {"create", "done"} /\ status # 200 /\ (pc # "done" => status = 0)
        /\ pc \in PCs /\ status \in Statuses
    BY Codes
  <2>2. At(r, "idle") /\ UNCHANGED users /\ Begin(r, c)
    BY <1>2 DEF Register
  <2> HIDE DEF pc, status
  <2>3. c \in Call
    BY <1>1, <2>1
  <2>4. c.pc = pc /\ c.status = status /\ c.email = e /\ c.sub = Nothing
    BY DEF IdleCall
  <2> HIDE DEF c
  <2> QED BY <2>1, <2>2, <2>3, <2>4, BeginKnows
<1>3. CASE Login(r, e, p)
  <2>0. At(r, "idle") /\ UNCHANGED users
    BY <1>3 DEF Login
  <2>1. CASE Begin(r, [IdleCall EXCEPT !.email = e, !.password = p, !.pc = "done", !.status = 401])
    <3> DEFINE c == [IdleCall EXCEPT !.email = e, !.password = p, !.pc = "done", !.status = 401]
    <3>1. "done" \in PCs /\ 401 \in Statuses
      BY Codes
    <3>2. c \in Call
      BY <1>1, <3>1, Zenon
    <3>3. c.pc = "done" /\ c.status = 401
      BY DEF IdleCall
    <3> HIDE DEF c
    <3>4. Begin(r, c)
      BY <2>1 DEF c
    <3> QED BY <2>0, <3>2, <3>3, <3>4, BeginKnows
  <2>2. ASSUME NEW u \in ByEmail(e), users[u].password = p,
               Begin(r, [IdleCall EXCEPT !.email = e, !.password = p, !.pc = "issue", !.id = u])
        PROVE  \A x \in Reqs : Knows(x)'
    <3> DEFINE c == [IdleCall EXCEPT !.email = e, !.password = p, !.pc = "issue", !.id = u]
    <3>1. u \in Ids /\ u \in Rows /\ users[u].email = e
      BY DEF ByEmail, Rows
    <3>2. c \in Call
      BY <1>0, <3>1, CallUpdates, Codes
    <3>3. /\ c.pc = "issue" /\ c.status = 0 /\ c.email = e /\ c.password = p
          /\ c.sub = Nothing /\ c.id = u
      BY DEF IdleCall
    <3> HIDE DEF c
    <3>4. Begin(r, c)
      BY <2>2 DEF c
    <3> QED BY <2>0, <2>2, <3>1, <3>2, <3>3, <3>4, BeginKnows
  <2> QED BY <1>3, <2>1, <2>2 DEF Login
<1> QED BY <1>2, <1>3

LEMMA CredentialKnows ==
  ASSUME AccountsInv, NEW r \in Reqs, NEW e \in Emails, NEW s \in Subs, LoginWithGoogle(r, s, e)
  PROVE  \A x \in Reqs : Knows(x)'
<1> DEFINE c == [IdleCall EXCEPT !.email = e, !.sub = s, !.pc = "byGoogleId"]
<1>0. IdleCall \in Call
  BY Codes DEF IdleCall, Call
<1>1. c \in Call
  BY <1>0, CallUpdates, Codes
<1>2. c.pc = "byGoogleId" /\ c.status = 0 /\ c.email = e /\ c.sub = s
  BY DEF IdleCall
<1> HIDE DEF c
<1>3. At(r, "idle") /\ UNCHANGED users /\ Begin(r, c)
  BY DEF LoginWithGoogle, c
<1> QED BY <1>1, <1>2, <1>3, BeginKnows

LEMMA RefusalKnows ==
  ASSUME AccountsInv, NEW r \in Reqs, RefuseCredential(r)
  PROVE  \A x \in Reqs : Knows(x)'
<1> DEFINE c == [IdleCall EXCEPT !.pc = "done", !.status = 401]
<1>0. IdleCall \in Call
  BY Codes DEF IdleCall, Call
<1>1. c \in Call
  <2>1. \A q \in PCs, t \in Statuses : [IdleCall EXCEPT !.pc = q, !.status = t] \in Call
    BY <1>0, CallUpdates
  <2>2. "done" \in PCs /\ 401 \in Statuses
    BY Codes
  <2> QED BY <2>1, <2>2, Zenon
<1>2. c.pc = "done" /\ c.status = 401
  BY DEF IdleCall
<1> HIDE DEF c
<1>3. At(r, "idle") /\ UNCHANGED users /\ Begin(r, c)
  BY DEF RefuseCredential, c
<1> QED BY <1>1, <1>2, <1>3, BeginKnows

LEMMA ForgetKnows ==
  ASSUME AccountsInv, NEW r \in Reqs, Forget(r)
  PROVE  \A x \in Reqs : Knows(x)'
<1>0. \A x \in Reqs : Knows(x) /\ call[x] \in Call
  BY DEF AccountsInv, AccountsTypeOK
<1>1. /\ call'[r] = IdleCall /\ \A x \in Reqs \ {r} : call'[x] = call[x]
      /\ call[r].pc = "done" /\ UNCHANGED users /\ Rows' = Rows
  BY DEF Forget, At, AccountsInv, AccountsTypeOK, Rows
<1>2. Knows(r)'
  BY <1>1 DEF Knows, At, UnderWay, IdleCall, GooglePCs
<1>3. ASSUME NEW x \in Reqs \ {r} PROVE Knows(x)'
  <2>1. \A y \in Reqs : call'[y].pc \in {"idle"} \/ call'[y] = call[y]
    BY <1>1 DEF IdleCall
  <2>2. Signed(x) => Signed(x)'
    BY <1>1, <2>1 DEF Signed, At
  <2>3. \A y \in Reqs : UnderWay(y)' => UnderWay(y)
    BY <2>1 DEF UnderWay
  <2>4. (ByGoogleId(call[x].sub) = {} => ByGoogleId(call[x].sub)' = {}) /\ Taken(x)' = Taken(x)
    BY <1>1 DEF ByGoogleId, ByEmail, Taken
  <2>5. Knows(x) /\ call'[x] = call[x]
    BY <1>0, <1>1
  <2> QED BY <1>1, <2>2, <2>3, <2>4, <2>5 DEF Knows, At, UnderWay
<1> QED BY <1>2, <1>3

LEMMA UpdateProfileKnows ==
  ASSUME AccountsInv, NEW u \in Ids, NEW th \in Themes, UpdateProfile(u, th)
  PROVE  \A x \in Reqs : Knows(x)'
<1>1. /\ users[u] \in UserRow /\ u \in Rows /\ UNCHANGED call
      /\ users' = [users EXCEPT ![u] = [users[u] EXCEPT !.theme = th]]
  BY DEF UpdateProfile, Rows, AccountsInv, AccountsTypeOK
<1>2. [users[u] EXCEPT !.theme = th] \in UserRow
  BY <1>1 DEF UserRow
<1>3. Rows' = Rows
  BY <1>1, <1>2, AccountsAssumption DEF Rows, AccountsInv, AccountsTypeOK
<1>4. \A v \in Rows : /\ users'[v].email = users[v].email /\ users'[v].password = users[v].password
                      /\ users'[v].googleId = users[v].googleId
  BY <1>1 DEF UserRow, Rows, AccountsInv, AccountsTypeOK
<1>5. ASSUME NEW x \in Reqs PROVE Knows(x)'
  <2>1. Signed(x) => Signed(x)'
    BY <1>1, <1>3, <1>4 DEF Signed, At
  <2>2. ByGoogleId(call[x].sub)' = ByGoogleId(call[x].sub) /\ Taken(x)' = Taken(x)
    BY <1>1, <1>3, <1>4 DEF ByGoogleId, ByEmail, Taken
  <2>3. Knows(x)
    BY DEF AccountsInv
  <2> QED BY <1>1, <1>3, <1>4, <2>1, <2>2, <2>3 DEF Knows, At, UnderWay
<1> QED BY <1>5

(***************************************************************************)
(* The invariant                                                           *)
(***************************************************************************)
LEMMA AccountsInitInv == AccountsInit => AccountsInv
<1> SUFFICES ASSUME AccountsInit PROVE AccountsInv
  OBVIOUS
<1>1. IdleCall \in Call
  BY Codes DEF IdleCall, Call
<1>2. AccountsTypeOK
  BY <1>1 DEF AccountsInit, AccountsTypeOK
<1>3. ASSUME NEW r \in Reqs PROVE Knows(r)
  BY DEF AccountsInit, Knows, At, UnderWay, IdleCall, GooglePCs
<1> QED BY <1>2, <1>3 DEF AccountsInv

LEMMA AccountsStepInv ==
  ASSUME AccountsInv, [AccountsNext]_accountVars
  PROVE  AccountsInv'
<1>1. ASSUME NEW r \in Reqs, Fail(r) PROVE \A x \in Reqs : Knows(x)'
  <2>1. UnderWay(r) /\ UNCHANGED users /\ Reply(r, 500)
    BY <1>1 DEF Fail
  <2> QED BY <2>1, ReplyKnows
<1>2. CASE UNCHANGED accountVars
  <2>1. \A x \in Reqs : Knows(x)
    BY DEF AccountsInv
  <2>2. \A x \in Reqs : Knows(x)'
    BY <1>2, <2>1 DEF accountVars, Knows, Signed, At, UnderWay, ByGoogleId, ByEmail, Taken, Rows
  <2> QED BY <2>2, AccountsTypeStep DEF AccountsInv
<1> QED BY <1>1, <1>2, AccountsTypeStep, AccountsCases, HandleKnows, PasswordKnows,
           CredentialKnows, RefusalKnows, ForgetKnows, UpdateProfileKnows DEF AccountsInv

(* What a request of auth.service.ts has read stays what it may rely on.   *)
THEOREM AccountsInvariant == AccountsSpec => []AccountsInv
<1>1. AccountsInv /\ [AccountsNext]_accountVars => AccountsInv'
  BY AccountsStepInv
<1> QED BY AccountsInitInv, <1>1, PTL DEF AccountsSpec

(* The table of accounts and the requests are always well typed.           *)
THEOREM AccountsTypeCorrect == AccountsSpec => []AccountsTypeOK
<1>1. AccountsInv => AccountsTypeOK
  BY DEF AccountsInv
<1> QED BY <1>1, AccountsInvariant, PTL

(* Whoever auth.service.ts signs in is signed in to the account whose      *)
(* password or whose Google id was shown.                                  *)
THEOREM SignedInToRightAccount == AccountsSpec => []RightAccount
<1>1. AccountsInv => RightAccount
  BY DEF AccountsInv, Knows, Signed, RightAccount, Accepted
<1> QED BY <1>1, AccountsInvariant, PTL

(* linkGoogleId and every other step leave a Google id that is set, unless *)
(* two requests link the account at the same time.                         *)
THEOREM GoogleIdKept == AccountsSpec => GoogleIdStays
<1> DEFINE Stays(u) == /\ users'[u].password = users[u].password
                       /\ users[u].googleId # Nothing /\ users'[u].googleId # users[u].googleId
                             => \E r \in Reqs : At(r, "link") /\ call[r].id = u /\ ~call[r].alone
<1>1. ASSUME AccountsInv, [AccountsNext]_accountVars, NEW u \in Rows PROVE Stays(u)
  <2>0. AccountsTypeOK /\ users[u] \in UserRow /\ \A r \in Reqs : Knows(r)
    BY <1>1 DEF AccountsInv, AccountsTypeOK, Rows
  <2>1. CASE UNCHANGED users
    BY <2>1
  <2>2. ASSUME NEW r \in Reqs, Insert(r) PROVE Stays(u)
    BY <2>2 DEF Insert
  <2>3. ASSUME NEW r \in Reqs, LinkGoogleId(r), ~UNCHANGED users PROVE Stays(u)
    <3>1. /\ At(r, "link")
          /\ users' = [users EXCEPT ![call[r].id].googleId = call[r].sub]
      BY <2>3 DEF LinkGoogleId
    <3>2. call[r].alone => users[call[r].id].googleId = Nothing
      BY <2>0, <3>1 DEF Knows
    <3>3. CASE call[r].id = u
      <4>1. users' = [users EXCEPT ![u] = [users[u] EXCEPT !.googleId = call[r].sub]]
        BY <3>1, <3>3
      <4>2. users'[u].password = users[u].password
        BY <2>0, <4>1 DEF UserRow, AccountsTypeOK, Rows
      <4> QED BY <3>1, <3>2, <3>3, <4>2
    <3>4. CASE call[r].id # u
      BY <3>1, <3>4
    <3> QED BY <3>3, <3>4
  <2>4. ASSUME NEW v \in Ids, NEW th \in Themes, UpdateProfile(v, th) PROVE Stays(u)
    <3>1. users' = [users EXCEPT ![v] = [users[v] EXCEPT !.theme = th]] /\ v \in Rows
      BY <2>4 DEF UpdateProfile
    <3> QED BY <2>0, <3>1 DEF UserRow
  <2>5. ASSUME NEW r \in Reqs, Handle(r), ~LinkGoogleId(r), ~UNCHANGED users PROVE Insert(r)
    BY <2>5 DEF Handle, CreateUser, FindByGoogleId, FindByEmail, CreateWithGoogle,
                RetryByGoogleId, RetryByEmail, IssuePair
  <2> QED BY <1>1, <2>1, <2>2, <2>3, <2>4, <2>5, AccountsCases
             DEF accountVars, Fail, Forget, Register, Login, LoginWithGoogle, RefuseCredential
<1>2. AccountsInv /\ [AccountsNext]_accountVars => [\A u \in Rows : Stays(u)]_accountVars
  BY <1>1
<1> QED BY <1>2, AccountsInvariant, PTL DEF AccountsSpec, GoogleIdStays

(***************************************************************************)
(* Conflicts of Google sign-ins                                            *)
(***************************************************************************)
(* Some request is about to link anew the account that has the Google id.  *)
Contested(r) ==
    \E u \in ByGoogleId(call[r].sub), x \in Reqs : At(x, "link") /\ call[x].id = u

(* What a request relies on from its second query on: the account that     *)
(* will make its insert fail, by its email or by its Google id, is still   *)
(* found when it looks once more.                                          *)
FindsWinner(r) ==
    /\ At(r, "link") => users[call[r].id].email = call[r].email
    /\ call[r].pc \in {"byEmail", "createGoogle"} => ~Contested(r)
    /\ At(r, "retryByGoogleId") =>
          ByEmail(call[r].email) # {} \/ (ByGoogleId(call[r].sub) # {} /\ ~Contested(r))
    /\ At(r, "retryByEmail") => ByEmail(call[r].email) # {}

EmailsDiffer == \A u, v \in Rows : users[u].email = users[v].email => u = v

ConflictInv == EmailsDiffer /\ \A r \in Reqs : FindsWinner(r)

LEMMA ConflictInit == AccountsInit => ConflictInv
  BY DEF AccountsInit, ConflictInv, EmailsDiffer, Rows, FindsWinner, At, IdleCall

(* What nobody can take from a waiting request while another one does a    *)
(* step: with two in flight, the one that links cannot be met by a third.  *)
LEMMA OthersFind ==
  ASSUME AccountsInv, ConflictInv, NEW p, NEW q, Reqs = {p, q},
         NEW r \in Reqs, NEW x \in Reqs \ {r}, RowsKept(r),
         \A y \in Reqs \ {r} : /\ call'[y].pc = call[y].pc /\ call'[y].id = call[y].id
                               /\ call'[y].email = call[y].email /\ call'[y].sub = call[y].sub,
         call'[r].pc = "link" => users'[call'[r].id].googleId = Nothing
  PROVE  FindsWinner(x)'
<1>0. /\ FindsWinner(x) /\ Knows(x)
      /\ \A y \in Reqs : At(y, "link") => call[y].id \in Rows
  BY DEF AccountsInv, ConflictInv, Knows
<1>1. \A u \in Rows : u \in Rows' /\ users'[u].email = users[u].email
  BY DEF RowsKept, Rows
<1>2. ByEmail(call[x].email) # {} => (ByEmail(call[x].email) # {})'
  BY <1>1 DEF ByEmail
<1>3. ASSUME call[x].pc \in GooglePCs \ {"link"}, ~Contested(x)
      PROVE  /\ ~Contested(x)'
             /\ ByGoogleId(call[x].sub) # {} => (ByGoogleId(call[x].sub) # {})'
  <2>1. call[x].sub \in Subs /\ call[x].sub # Nothing
    BY <1>0, <1>3, AccountsAssumption DEF Knows
  <2>2. ASSUME Contested(x)' PROVE FALSE
    <3>1. PICK u \in ByGoogleId(call[x].sub)', y \in Reqs :
             call'[y].pc = "link" /\ call'[y].id = u
      BY <2>2 DEF Contested, At, ByGoogleId
    <3>2. users'[u].googleId = call[x].sub
      BY <3>1 DEF ByGoogleId
    <3>3. y # r
      BY <2>1, <3>1, <3>2
    <3>4. At(y, "link") /\ call[y].id = u /\ u \in Rows
      BY <1>0, <3>1, <3>3 DEF At
    <3>5. y # x
      BY <1>3, <3>4 DEF At
    <3> QED BY <3>3, <3>5
  <2>3. ASSUME NEW u \in ByGoogleId(call[x].sub) PROVE u \in ByGoogleId(call[x].sub)'
    <3>1. u \in Rows /\ users[u].googleId = call[x].sub
      BY DEF ByGoogleId
    <3>2. ~(At(r, "link") /\ call[r].id = u)
      BY <1>3 DEF Contested
    <3>3. users'[u].googleId = call[x].sub
      BY <3>1, <3>2 DEF RowsKept
    <3> QED BY <1>1, <3>1, <3>3 DEF ByGoogleId
  <2> QED BY <2>2, <2>3
<1>4. At(x, "link") => users'[call[x].id].email = call[x].email
  BY <1>0, <1>1 DEF FindsWinner
<1>5. /\ call'[x].pc = call[x].pc /\ call'[x].id = call[x].id
      /\ call'[x].email = call[x].email /\ call'[x].sub = call[x].sub
  OBVIOUS
<1>7. At(x, "link")' => users'[call'[x].id].email = call'[x].email
  BY <1>4, <1>5 DEF At
<1>8. call'[x].pc \in {"byEmail", "createGoogle"} => ~Contested(x)'
  BY <1>0, <1>3, <1>5 DEF FindsWinner, GooglePCs
<1>9. At(x, "retryByGoogleId")' =>
        (ByEmail(call[x].email) # {} \/ (ByGoogleId(call[x].sub) # {} /\ ~Contested(x)))'
  BY <1>0, <1>2, <1>3, <1>5 DEF FindsWinner, At, GooglePCs
<1>10. At(x, "retryByEmail")' => (ByEmail(call[x].email) # {})'
  BY <1>0, <1>2, <1>5 DEF FindsWinner, At
<1> QED BY <1>7, <1>8, <1>9, <1>10 DEF FindsWinner

(* A step of a request that leaves the accounts as they are.               *)
LEMMA QuietFinds ==
  ASSUME AccountsInv, ConflictInv, NEW p, NEW q, Reqs = {p, q}, NEW r \in Reqs, UNCHANGED users,
         \A y \in Reqs \ {r} : /\ call'[y].pc = call[y].pc /\ call'[y].id = call[y].id
                               /\ call'[y].email = call[y].email /\ call'[y].sub = call[y].sub,
         call'[r].pc = "link" => users[call'[r].id].googleId = Nothing,
         FindsWinner(r)'
  PROVE  ConflictInv'
<1>1. RowsKept(r)
  BY UnchangedRowsKept
<1>2. \A x \in Reqs \ {r} : FindsWinner(x)'
  BY <1>1, OthersFind
<1>3. EmailsDiffer'
  BY DEF ConflictInv, EmailsDiffer, Rows
<1> QED BY <1>2, <1>3 DEF ConflictInv

(* A request that waits no more, or for nothing that it could lose.        *)
LEMMA SettledFinds ==
  ASSUME AccountsInv, ConflictInv, NEW p, NEW q, Reqs = {p, q}, NEW r \in Reqs, UNCHANGED users,
         \A y \in Reqs \ {r} : /\ call'[y].pc = call[y].pc /\ call'[y].id = call[y].id
                               /\ call'[y].email = call[y].email /\ call'[y].sub = call[y].sub,
         call'[r].pc \in {"idle", "create", "byGoogleId", "issue", "done"}
  PROVE  ConflictInv'
<1>1. FindsWinner(r)'
  BY DEF FindsWinner, At
<1> QED BY <1>1, QuietFinds

LEMMA InsertFinds ==
  ASSUME AccountsInv, ConflictInv, NEW p, NEW q, Reqs = {p, q}, NEW r \in Reqs,
         call[r].email \in Emails, Taken(r) = {}, Insert(r)
  PROVE  ConflictInv'
<1>0. AccountsTypeOK
  BY DEF AccountsInv
<1>1. PICK u \in Ids \ Rows : users' = [users EXCEPT ![u] = NewRow(r)] /\ Written(r, u, "system")
  BY DEF Insert
<1>2. RowsKept(r) /\ Rows' = Rows \cup {u} /\ users'[u] = NewRow(r)
  BY <1>0, <1>1, InsertRowsKept
<1>3. Moved(r, "issue", u, call[r].status)
  BY <1>0, <1>1, Moves
<1>4. \A x \in Reqs \ {r} : FindsWinner(x)'
  BY <1>2, <1>3, OthersFind DEF Moved
<1>5. FindsWinner(r)'
  BY <1>3 DEF FindsWinner, At, Moved
<1>6. EmailsDiffer'
  <2>1. users'[u].email = call[r].email
    BY <1>2 DEF NewRow
  <2>2. \A v \in Rows : users'[v].email = users[v].email /\ users[v].email # call[r].email
    BY <1>2 DEF RowsKept, Taken, ByEmail
  <2> QED BY <1>2, <2>1, <2>2 DEF ConflictInv, EmailsDiffer
<1> QED BY <1>4, <1>5, <1>6 DEF ConflictInv

LEMMA HandleFinds ==
  ASSUME AccountsInv, ConflictInv, NEW p, NEW q, Reqs = {p, q}, NEW r \in Reqs, Handle(r)
  PROVE  ConflictInv'
<1>0. /\ AccountsTypeOK /\ Knows(r) /\ FindsWinner(r)
      /\ \A pc, id, status : Moved(r, pc, id, status) =>
            \A y \in Reqs \ {r} : /\ call'[y].pc = call[y].pc /\ call'[y].id = call[y].id
                                  /\ call'[y].email = call[y].email /\ call'[y].sub = call[y].sub
  BY DEF AccountsInv, ConflictInv, Moved
<1>1. ASSUME NEW status, Reply(r, status), UNCHANGED users PROVE ConflictInv'
  <2>1. Moved(r, "done", call[r].id, status)
    BY <1>0, <1>1, Moves
  <2> QED BY <1>0, <1>1, <2>1, SettledFinds DEF Moved
<1>2. ASSUME NEW u, Resolve(r, u), UNCHANGED users PROVE ConflictInv'
  <2>1. Moved(r, "issue", u, call[r].status)
    BY <1>0, <1>2, Moves
  <2> QED BY <1>0, <1>2, <2>1, SettledFinds DEF Moved
<1>3. ASSUME NEW pc, Goto(r, pc), UNCHANGED users, FindsWinner(r)', pc # "link" PROVE ConflictInv'
  <2>1. Moved(r, pc, call[r].id, call[r].status)
    BY <1>0, <1>3, Moves
  <2> QED BY <1>0, <1>3, <2>1, QuietFinds DEF Moved
<1>4. ASSUME NEW pc, Goto(r, pc), UNCHANGED users, ~At(r, "link"), pc # "link"
      PROVE  /\ call'[r].pc = pc
             /\ (ByEmail(call[r].email) # {})' <=> ByEmail(call[r].email) # {}
             /\ (ByGoogleId(call[r].sub) # {})' <=> ByGoogleId(call[r].sub) # {}
             /\ Contested(r)' => Contested(r)
  <2>1. Moved(r, pc, call[r].id, call[r].status)
    BY <1>0, <1>4, Moves
  <2>2. /\ call'[r].email = call[r].email /\ call'[r].sub = call[r].sub
        /\ \A x \in Reqs : At(x, "link")' => At(x, "link") /\ call'[x].id = call[x].id
    BY <1>4, <2>1 DEF Moved, At
  <2> QED BY <1>4, <2>1, <2>2 DEF Moved, ByEmail, ByGoogleId, Rows, Contested
<1>5. CASE CreateUser(r)
  BY <1>0, <1>1, <1>5, InsertFinds DEF CreateUser, Knows, At
<1>6. CASE FindByGoogleId(r)
  <2>1. CASE ByGoogleId(call[r].sub) = {} /\ Goto(r, "byEmail")
    <3>1. At(r, "byGoogleId") /\ ~At(r, "link") /\ UNCHANGED users /\ ~Contested(r)
      BY <1>6, <2>1 DEF FindByGoogleId, At, Contested
    <3>2. call'[r].pc = "byEmail" /\ ~Contested(r)'
      BY <1>4, <2>1, <3>1
    <3>3. FindsWinner(r)'
      BY <3>2 DEF FindsWinner, At
    <3> QED BY <1>3, <2>1, <3>1, <3>3
  <2> QED BY <1>2, <1>6, <2>1 DEF FindByGoogleId
<1>7. CASE FindByEmail(r)
  <2>0. At(r, "byEmail") /\ UNCHANGED users /\ ~Contested(r) /\ call[r] \in Call
    BY <1>0, <1>7 DEF FindByEmail, FindsWinner, At, AccountsTypeOK
  <2>1. CASE Goto(r, "createGoogle")
    <3>1. call'[r].pc = "createGoogle" /\ ~Contested(r)'
      BY <1>4, <2>0, <2>1 DEF At
    <3>2. FindsWinner(r)'
      BY <3>1 DEF FindsWinner, At
    <3> QED BY <1>3, <2>0, <2>1, <3>2
  <2>2. ASSUME NEW u \in ByEmail(call[r].email), users[u].googleId = Nothing,
               call' = [call EXCEPT ![r].pc = "link", ![r].id = u]
        PROVE  ConflictInv'
    <3>1. Moved(r, "link", u, call[r].status)
      BY <1>0, <2>2, LinkMoves
    <3>2. FindsWinner(r)'
      BY <2>0, <2>2, <3>1 DEF FindsWinner, At, Moved, ByEmail
    <3> QED BY <1>0, <2>0, <2>2, <3>1, <3>2, QuietFinds DEF Moved
  <2> QED BY <1>1, <1>2, <1>7, <2>0, <2>1, <2>2 DEF FindByEmail
<1>8. CASE LinkGoogleId(r)
  <2>1. CASE /\ users' = [users EXCEPT ![call[r].id].googleId = call[r].sub]
             /\ Written(r, call[r].id, users[call[r].id].theme)
    <3>1. At(r, "link") /\ call[r].id \in Rows /\ call[r].sub \in Subs
      BY <1>0, <1>8 DEF LinkGoogleId, Knows, At, GooglePCs
    <3>2. RowsKept(r) /\ Rows' = Rows
      BY <1>0, <2>1, <3>1, LinkRowsKept
    <3>3. Moved(r, "issue", call[r].id, call[r].status)
      BY <1>0, <2>1, Moves
    <3>4. \A x \in Reqs \ {r} : FindsWinner(x)'
      BY <1>0, <3>2, <3>3, OthersFind DEF Moved
    <3>5. FindsWinner(r)'
      BY <3>3 DEF FindsWinner, At, Moved
    <3>6. EmailsDiffer'
      BY <3>2 DEF ConflictInv, EmailsDiffer, RowsKept
    <3> QED BY <3>4, <3>5, <3>6 DEF ConflictInv
  <2> QED BY <1>1, <1>8, <2>1 DEF LinkGoogleId
<1>9. CASE CreateWithGoogle(r)
  <2>0. At(r, "createGoogle") /\ ~Contested(r) /\ call[r].email \in Emails
    BY <1>0, <1>9 DEF CreateWithGoogle, FindsWinner, Knows, At, GooglePCs
  <2>1. CASE Taken(r) # {} /\ Goto(r, "retryByGoogleId") /\ UNCHANGED users
    <3>1. ByEmail(call[r].email) # {} \/ ByGoogleId(call[r].sub) # {}
      BY <2>1 DEF Taken
    <3>2. FindsWinner(r)'
      BY <1>4, <2>0, <2>1, <3>1 DEF FindsWinner, At
    <3> QED BY <1>3, <2>1, <3>2
  <2>2. CASE Taken(r) = {} /\ Insert(r)
    BY <2>0, <2>2, InsertFinds
  <2> QED BY <1>9, <2>1, <2>2 DEF CreateWithGoogle
<1>10. CASE RetryByGoogleId(r)
  <2>0. At(r, "retryByGoogleId") /\ UNCHANGED users
    BY <1>10 DEF RetryByGoogleId
  <2>1. CASE ByGoogleId(call[r].sub) = {} /\ Goto(r, "retryByEmail")
    <3>1. ByEmail(call[r].email) # {}
      BY <1>0, <2>0, <2>1 DEF FindsWinner
    <3>2. FindsWinner(r)'
      BY <1>4, <2>0, <2>1, <3>1 DEF FindsWinner, At
    <3> QED BY <1>3, <2>0, <2>1, <3>2
  <2> QED BY <1>2, <1>10, <2>0, <2>1 DEF RetryByGoogleId
<1>11. CASE RetryByEmail(r)
  BY <1>1, <1>2, <1>11 DEF RetryByEmail
<1>12. CASE IssuePair(r)
  <2>1. UNCHANGED users /\ call \in [Reqs -> Call] /\ call[r] \in Call
    BY <1>0, <1>12 DEF IssuePair, AccountsTypeOK
  <2>2. call'[r].pc = "done" /\ \A y \in Reqs \ {r} : call'[y] = call[y]
    BY <1>12, <2>1 DEF IssuePair, Call
  <2> QED BY <2>1, <2>2, SettledFinds
<1> QED BY <1>5, <1>6, <1>7, <1>8, <1>9, <1>10, <1>11, <1>12 DEF Handle

(* A request that arrives begins with what its first query answered.       *)
LEMMA ReceiveBegins ==
  ASSUME AccountsTypeOK, NEW r \in Reqs,
         \/ \E e \in Emails, w \in Passwords : Register(r, e, w) \/ Login(r, e, w)
         \/ \E s \in Subs, e \in Emails : LoginWithGoogle(r, s, e)
         \/ RefuseCredential(r)
  PROVE  \E c \in Call : /\ At(r, "idle") /\ Begin(r, c) /\ UNCHANGED users
                         /\ c.pc \in {"create", "issue", "byGoogleId", "done"}
                         /\ c.status # 200
<1> DEFINE Begun == \E c \in Call : /\ At(r, "idle") /\ Begin(r, c) /\ UNCHANGED users
                                    /\ c.pc \in {"create", "issue", "byGoogleId", "done"}
                                    /\ c.status # 200
<1>0. IdleCall \in Call /\ IdleCall.status = 0
  BY Codes DEF IdleCall, Call
<1>1. ASSUME NEW e \in Emails, NEW w \in Passwords, Register(r, e, w)
      PROVE  Begun
  <2> DEFINE pc == IF ByEmail(e) = {} THEN "create" ELSE "done"
             status == IF ByEmail(e) = {} THEN 0 ELSE 409
             c == [IdleCall EXCEPT !.email = e, !.password = w, !.pc = pc, !.status = status]
  <2>1. At(r, "idle") /\ Begin(r, c) /\ UNCHANGED users
    BY <1>1 DEF Register
  <2>2. pc \in PCs /\ status \in Statuses /\ pc \in {"create", "done"} /\ status # 200
    BY Codes
  <2> HIDE DEF pc, status
  <2>3. c \in Call
    BY <1>0, <2>2, CallUpdates
  <2>4. c.pc = pc /\ c.status = status
    BY DEF IdleCall
  <2> HIDE DEF c
  <2> QED BY <2>1, <2>2, <2>3, <2>4
<1>2. ASSUME NEW e \in Emails, NEW w \in Passwords, Login(r, e, w)
      PROVE  Begun
  <2>0. At(r, "idle") /\ UNCHANGED users
    BY <1>2 DEF Login
  <2>1. CASE Begin(r, [IdleCall EXCEPT !.email = e, !.password = w, !.pc = "done", !.status = 401])
    <3> DEFINE c == [IdleCall EXCEPT !.email = e, !.password = w, !.pc = "done", !.status = 401]
    <3>1. c \in Call /\ c.pc = "done" /\ c.status = 401
      <4>1. \A x \in PCs, t \in Statuses :
              [IdleCall EXCEPT !.email = e, !.password = w, !.pc = x, !.status = t] \in Call
        BY <1>0, CallUpdates
      <4>2. "done" \in PCs /\ 401 \in Statuses
        BY Codes
      <4>3. c \in Call
        BY <4>1, <4>2, Zenon
      <4> QED BY <4>3 DEF IdleCall
    <3>2. Begin(r, c)
      BY <2>1
    <3> HIDE DEF c
    <3> QED BY <2>0, <3>1, <3>2
  <2>2. ASSUME NEW u \in ByEmail(e),
               Begin(r, [IdleCall EXCEPT !.email = e, !.password = w, !.pc = "issue", !.id = u])
        PROVE  Begun
    <3> DEFINE c == [IdleCall EXCEPT !.email = e, !.password = w, !.pc = "issue", !.id = u]
    <3>0. u \in Ids
      BY DEF ByEmail, Rows
    <3>1. c \in Call /\ c.pc = "issue" /\ c.status = 0
      BY <1>0, <3>0, CallUpdates, Codes DEF IdleCall
    <3>2. Begin(r, c)
      BY <2>2
    <3> HIDE DEF c
    <3> QED BY <2>0, <3>1, <3>2
  <2> HIDE DEF Begun
  <2> QED BY <1>2, <2>1, <2>2 DEF Login
<1>3. ASSUME NEW s \in Subs, NEW e \in Emails, LoginWithGoogle(r, s, e)
      PROVE  Begun
  <2> DEFINE c == [IdleCall EXCEPT !.email = e, !.sub = s, !.pc = "byGoogleId"]
  <2>1. c \in Call /\ c.pc = "byGoogleId" /\ c.status = 0
    BY <1>0, CallUpdates, Codes DEF IdleCall
  <2>2. At(r, "idle") /\ Begin(r, c) /\ UNCHANGED users
    BY <1>3 DEF LoginWithGoogle
  <2> HIDE DEF c
  <2> QED BY <2>1, <2>2
<1>4. ASSUME RefuseCredential(r)
      PROVE  Begun
  <2> DEFINE c == [IdleCall EXCEPT !.pc = "done", !.status = 401]
  <2>1. c \in Call /\ c.pc = "done" /\ c.status = 401
    <3>1. \A x \in PCs, t \in Statuses : [IdleCall EXCEPT !.pc = x, !.status = t] \in Call
      BY <1>0, CallUpdates
    <3>2. "done" \in PCs /\ 401 \in Statuses
      BY Codes
    <3>3. c \in Call
      BY <3>1, <3>2, Zenon
    <3> QED BY <3>3 DEF IdleCall
  <2>2. At(r, "idle") /\ Begin(r, c) /\ UNCHANGED users
    BY <1>4 DEF RefuseCredential
  <2> HIDE DEF c
  <2> QED BY <2>1, <2>2
<1> QED BY <1>1, <1>2, <1>3, <1>4

(* The step of a request that has arrived is its own.                      *)
LEMMA StepOfOne ==
  ASSUME AccountsTypeOK, NEW x \in Reqs, Handle(x) \/ Fail(x) \/ Forget(x), NEW r \in Reqs \ {x}
  PROVE  call'[r] = call[r]
<1>1. ASSUME NEW u, call' = [call EXCEPT ![x].pc = "link", ![x].id = u] PROVE call'[r] = call[r]
  BY <1>1 DEF AccountsTypeOK
<1>2. /\ \A pc : Goto(x, pc) => call'[r] = call[r]
      /\ \A status : Reply(x, status) => call'[r] = call[r]
      /\ \A u : Resolve(x, u) => call'[r] = call[r]
      /\ \A u, th : Written(x, u, th) => call'[r] = call[r]
  BY DEF Goto, Reply, Resolve, Written, AccountsTypeOK
<1>3. CASE Handle(x)
  <2>1. CASE FindByEmail(x)
    BY <1>1, <1>2, <2>1 DEF FindByEmail
  <2>2. CASE IssuePair(x)
    BY <2>2 DEF IssuePair, AccountsTypeOK
  <2> QED BY <1>2, <1>3, <2>1, <2>2 DEF Handle, CreateUser, FindByGoogleId, LinkGoogleId,
             CreateWithGoogle, RetryByGoogleId, RetryByEmail, Insert
<1> QED BY <1>2, <1>3 DEF Fail, Forget, AccountsTypeOK

(* What is answered has the theme of the profile.                          *)
LEMMA IssueAnswers ==
  ASSUME AccountsInv, NEW r \in Reqs, IssuePair(r)
  PROVE  call'[r].status = 200 /\ call'[r].theme \in Themes
<1>1. /\ call[r] \in Call /\ call \in [Reqs -> Call] /\ call[r].id \in Rows /\ call[r].id \in Ids
  BY DEF AccountsInv, AccountsTypeOK, Knows, IssuePair, Signed, Rows
<1>2. users[call[r].id].theme \in Themes
  BY <1>1 DEF AccountsInv, AccountsTypeOK, Rows, UserRow
<1> DEFINE found == IF call[r].theme = Nothing THEN users[call[r].id].theme ELSE call[r].theme
<1>3. found \in Themes
  BY <1>1, <1>2 DEF Call
<1>4. call' = [call EXCEPT ![r] = [call[r] EXCEPT !.pc = "done", !.status = 200, !.theme = found]]
  BY DEF IssuePair
<1> HIDE DEF found
<1> QED BY <1>1, <1>3, <1>4 DEF Call

(* Requests that arrive leave the others what they know.                   *)
LEMMA BeginFinds ==
  ASSUME AccountsInv, ConflictInv, NEW p, NEW q, Reqs = {p, q}, NEW r \in Reqs, UNCHANGED users,
         NEW c \in Call, Begin(r, c), c.pc \in {"create", "issue", "byGoogleId", "done"}
  PROVE  ConflictInv'
<1>1. \A y \in Reqs : call[y] \in Call
  BY DEF AccountsInv, AccountsTypeOK
<1>2. ASSUME NEW y \in Reqs \ {r}
      PROVE  /\ call'[y].pc = call[y].pc /\ call'[y].id = call[y].id
             /\ call'[y].email = call[y].email /\ call'[y].sub = call[y].sub
  <2>1. call'[y] = call[y] \/ call'[y] = [call[y] EXCEPT !.alone = FALSE]
    BY DEF Begin
  <2> QED BY <1>1, <2>1 DEF Call
<1>3. call'[r].pc = c.pc
  <2>1. \E b : call'[r] = [c EXCEPT !.alone = b]
    BY DEF Begin
  <2> QED BY <2>1 DEF Call
<1> QED BY <1>2, <1>3, SettledFinds

LEMMA ReceiveFinds ==
  ASSUME AccountsInv, ConflictInv, NEW p, NEW q, Reqs = {p, q}, NEW r \in Reqs,
         \/ \E e \in Emails, w \in Passwords : Register(r, e, w) \/ Login(r, e, w)
         \/ \E s \in Subs, e \in Emails : LoginWithGoogle(r, s, e)
         \/ RefuseCredential(r)
  PROVE  ConflictInv'
<1>1. \E c \in Call : /\ Begin(r, c) /\ UNCHANGED users
                      /\ c.pc \in {"create", "issue", "byGoogleId", "done"}
  BY ReceiveBegins DEF AccountsInv
<1> QED BY <1>1, BeginFinds

LEMMA ConflictStep ==
  ASSUME AccountsInv, ConflictInv, NEW p, NEW q, Reqs = {p, q}, [AccountsNext]_accountVars
  PROVE  ConflictInv'
<1>0. AccountsTypeOK
  BY DEF AccountsInv
<1>1. ASSUME NEW r \in Reqs, Fail(r) PROVE ConflictInv'
  <2>1. Moved(r, "done", call[r].id, 500)
    BY <1>0, <1>1, Moves DEF Fail
  <2> QED BY <1>1, <2>1, SettledFinds DEF Fail, Moved
<1>2. ASSUME NEW r \in Reqs, Forget(r) PROVE ConflictInv'
  <2>1. UNCHANGED users /\ call'[r] = IdleCall /\ \A y \in Reqs \ {r} : call'[y] = call[y]
    BY <1>0, <1>2 DEF Forget, AccountsTypeOK
  <2>2. call'[r].pc = "idle"
    BY <2>1 DEF IdleCall
  <2> QED BY <2>1, <2>2, SettledFinds
<1>3. ASSUME NEW u \in Ids, NEW th \in Themes, UpdateProfile(u, th) PROVE ConflictInv'
  <2>1. /\ UNCHANGED call /\ Rows' = Rows
        /\ \A v \in Rows : /\ users'[v].email = users[v].email
                           /\ users'[v].googleId = users[v].googleId
    <3>1. /\ users[u] \in UserRow /\ u \in Rows /\ UNCHANGED call
          /\ users' = [users EXCEPT ![u] = [users[u] EXCEPT !.theme = th]]
      BY <1>0, <1>3 DEF UpdateProfile, Rows, AccountsTypeOK
    <3>2. [users[u] EXCEPT !.theme = th] \in UserRow
      BY <3>1 DEF UserRow
    <3>3. Rows' = Rows
      BY <1>0, <3>1, <3>2, AccountsAssumption DEF Rows, AccountsTypeOK
    <3> QED BY <1>0, <3>1, <3>3 DEF UserRow, Rows, AccountsTypeOK
  <2>2. EmailsDiffer'
    BY <2>1 DEF ConflictInv, EmailsDiffer
  <2>3. ASSUME NEW r \in Reqs PROVE FindsWinner(r)'
    <3>1. /\ ByEmail(call[r].email)' = ByEmail(call[r].email)
          /\ ByGoogleId(call[r].sub)' = ByGoogleId(call[r].sub)
      BY <2>1 DEF ByEmail, ByGoogleId
    <3>2. Contested(r)' = Contested(r)
      BY <2>1, <3>1 DEF Contested, At
    <3>3. At(r, "link") => call[r].id \in Rows
      BY DEF AccountsInv, Knows
    <3> QED BY <2>1, <3>1, <3>2, <3>3 DEF ConflictInv, FindsWinner, At
  <2> QED BY <2>2, <2>3 DEF ConflictInv
<1>4. CASE UNCHANGED accountVars
  BY <1>4 DEF accountVars, ConflictInv, EmailsDiffer, FindsWinner, Contested, ByEmail, ByGoogleId, Rows, At
<1>5. ASSUME AccountsNext PROVE ConflictInv'
  BY <1>1, <1>2, <1>3, <1>5, HandleFinds, ReceiveFinds, AccountsCases
<1> QED BY <1>4, <1>5

(* The answer 409 to a Google sign-in that was under way comes only from   *)
(* linkGoogleId.                                                           *)
LEMMA ConflictIsReal ==
  ASSUME AccountsInv, ConflictInv, [AccountsNext]_accountVars, NEW r \in Reqs,
         call[r].sub # Nothing, UnderWay(r), call'[r].status = 409
  PROVE  \E u \in ByGoogleId(call[r].sub) : users[u].email # call[r].email
<1>0. /\ AccountsTypeOK /\ Knows(r) /\ FindsWinner(r) /\ call[r].status = 0
      /\ \A x \in Reqs : call[x] \in Call
  BY DEF AccountsInv, ConflictInv, Knows, UnderWay, At, AccountsTypeOK
<1>1. ASSUME NEW x \in Reqs \ {r}, Handle(x) \/ Fail(x) \/ Forget(x) PROVE FALSE
  BY <1>0, <1>1, StepOfOne
<1>2. ASSUME NEW x \in Reqs, NEW c \in Call, Begin(x, c), At(x, "idle") PROVE FALSE
  <2>1. x # r
    BY <1>2 DEF At, UnderWay
  <2>2. call'[r] = call[r] \/ call'[r] = [call[r] EXCEPT !.alone = FALSE]
    BY <1>2, <2>1 DEF Begin
  <2> QED BY <1>0, <2>2 DEF Call
<1>3. ~(UNCHANGED call)
  BY <1>0
<1>4. CASE Handle(r)
  <2>1. CASE LinkGoogleId(r)
    <3>1. ByGoogleId(call[r].sub) \ {call[r].id} # {}
      <4>1. Written(r, call[r].id, users[call[r].id].theme) => call'[r].status = call[r].status
        BY <1>0, Moves DEF Moved
      <4> QED BY <1>0, <2>1, <4>1 DEF LinkGoogleId
    <3>2. PICK u \in ByGoogleId(call[r].sub) : u # call[r].id
      BY <3>1
    <3>3. /\ call[r].id \in Rows /\ users[call[r].id].email = call[r].email /\ u \in Rows
      BY <1>0, <2>1 DEF LinkGoogleId, Knows, FindsWinner, ByGoogleId
    <3>4. users[u].email # call[r].email
      BY <3>2, <3>3 DEF ConflictInv, EmailsDiffer
    <3> QED BY <3>4
  <2>2. CASE CreateUser(r)
    BY <1>0, <2>2 DEF CreateUser, Knows
  <2>3. CASE RetryByEmail(r)
    BY <1>0, <2>3, Moves DEF RetryByEmail, FindsWinner, Moved
  <2>4. CASE FindByGoogleId(r)
    BY <1>0, <2>4, Moves DEF FindByGoogleId, Moved
  <2>5. CASE FindByEmail(r)
    <3>1. ASSUME NEW u, call' = [call EXCEPT ![r].pc = "link", ![r].id = u] PROVE FALSE
      <4>1. Moved(r, "link", u, call[r].status)
        BY <1>0, <3>1, LinkMoves
      <4> QED BY <1>0, <4>1 DEF Moved
    <3>2. /\ Goto(r, "createGoogle") => call'[r].status = 0
          /\ \A u : Resolve(r, u) => call'[r].status = 0
          /\ Reply(r, 401) => call'[r].status = 401
      BY <1>0, Moves DEF Moved
    <3> QED BY <2>5, <3>1, <3>2 DEF FindByEmail
  <2>6. CASE CreateWithGoogle(r)
    <3>1. /\ Goto(r, "retryByGoogleId") => call'[r].status = 0
          /\ \A u, th : Written(r, u, th) => call'[r].status = 0
      BY <1>0, Moves DEF Moved
    <3> QED BY <2>6, <3>1 DEF CreateWithGoogle, Insert
  <2>7. CASE RetryByGoogleId(r)
    BY <1>0, <2>7, Moves DEF RetryByGoogleId, Moved
  <2>8. CASE IssuePair(r)
    BY <1>0, <2>8, IssueAnswers
  <2> QED BY <1>4, <2>1, <2>2, <2>3, <2>4, <2>5, <2>6, <2>7, <2>8 DEF Handle
<1>5. CASE Fail(r)
  BY <1>0, <1>5, Moves DEF Fail, Moved
<1>6. ~Forget(r)
  BY DEF Forget, At, UnderWay
<1>7. ASSUME NEW u \in Ids, NEW th \in Themes, UpdateProfile(u, th) PROVE FALSE
  BY <1>3, <1>7 DEF UpdateProfile
<1>8. ASSUME NEW x \in Reqs,
             \/ \E e \in Emails, w \in Passwords : Register(x, e, w) \/ Login(x, e, w)
             \/ \E s \in Subs, e \in Emails : LoginWithGoogle(x, s, e)
             \/ RefuseCredential(x)
      PROVE  FALSE
  BY <1>0, <1>2, <1>8, ReceiveBegins
<1>9. ASSUME AccountsNext, ~Handle(r), ~Fail(r) PROVE FALSE
  BY <1>1, <1>6, <1>7, <1>8, <1>9, AccountsCases
<1> QED BY <1>3, <1>4, <1>5, <1>9 DEF accountVars

LEMMA ConflictInvariant ==
  ASSUME NEW p, NEW q, Reqs = {p, q}
  PROVE  AccountsSpec => []ConflictInv
<1>1. AccountsInv /\ ConflictInv /\ [AccountsNext]_accountVars => ConflictInv'
  BY ConflictStep
<1> QED BY ConflictInit, AccountsInvariant, <1>1, PTL DEF AccountsSpec

(* Of two requests that meet, a Google sign-in is answered with 409 only   *)
(* if its Google account already belongs to an account of another email:   *)
(* the loser of a race finds what beat it (auth.service.ts:105).           *)
THEOREM GoogleConflictsReal ==
  ASSUME NEW p, NEW q, Reqs = {p, q}
  PROVE  AccountsSpec => GoogleConflictsAreReal
<1> DEFINE Real == \A r \in Reqs :
                      call[r].sub # Nothing /\ UnderWay(r) /\ call'[r].status = 409
                         => \E u \in ByGoogleId(call[r].sub) : users[u].email # call[r].email
<1>1. AccountsInv /\ ConflictInv /\ [AccountsNext]_accountVars => [Real]_accountVars
  BY ConflictIsReal
<1> QED BY <1>1, AccountsInvariant, ConflictInvariant, PTL DEF AccountsSpec, GoogleConflictsAreReal

(***************************************************************************)
(* The pages                                                               *)
(***************************************************************************)
(* An answer of 200 carries a profile.                                     *)
ProfileInv == \A r \in Reqs : Accepted(r) => call[r].theme \in Themes

(* Nobody waits for an answer behind ProtectedRoute, and only there is a   *)
(* user.                                                                   *)
PageInv ==
    /\ TypeOK
    /\ route = "home" => form = Nothing /\ google = Nothing
    /\ user # Nothing => route = "home"

SignInInv == AccountsInv /\ ProfileInv /\ PageInv

(* What a step does to the answer of a request                             *)
LEMMA AnswerStep ==
  ASSUME AccountsInv, [AccountsNext]_accountVars, NEW r \in Reqs
  PROVE  \/ call'[r].status = call[r].status /\ call'[r].theme = call[r].theme
         \/ call'[r].status # 200
         \/ IssuePair(r)
<1>0. /\ AccountsTypeOK /\ Knows(r) /\ call[r] \in Call /\ call \in [Reqs -> Call]
  BY DEF AccountsInv, AccountsTypeOK
<1>1. ASSUME NEW x \in Reqs \ {r}, Handle(x) \/ Fail(x) \/ Forget(x) PROVE call'[r] = call[r]
  BY <1>0, <1>1, StepOfOne
<1>2. ASSUME NEW x \in Reqs, NEW c \in Call, Begin(x, c), c.status # 200
      PROVE  \/ call'[r].status = call[r].status /\ call'[r].theme = call[r].theme
             \/ call'[r].status # 200
  <2>1. \/ call'[r] = call[r]
        \/ call'[r] = [call[r] EXCEPT !.alone = FALSE]
        \/ \E b : call'[r] = [c EXCEPT !.alone = b]
    BY <1>2 DEF Begin
  <2> QED BY <1>0, <1>2, <2>1 DEF Call
<1>3. ASSUME Handle(r), ~IssuePair(r) PROVE call'[r].status # 200
  <2>1. call[r].status = 0
    BY <1>0, <1>3 DEF Knows, At, Handle, CreateUser, FindByGoogleId, FindByEmail, LinkGoogleId,
                      CreateWithGoogle, RetryByGoogleId, RetryByEmail
  <2>2. /\ \A pc : Goto(r, pc) => call'[r].status = 0
        /\ \A status : Reply(r, status) => call'[r].status = status
        /\ \A u : Resolve(r, u) => call'[r].status = 0
        /\ \A u, th : Written(r, u, th) => call'[r].status = 0
    BY <1>0, <2>1, Moves DEF Moved
  <2>3. ASSUME NEW u, call' = [call EXCEPT ![r].pc = "link", ![r].id = u] PROVE call'[r].status = 0
    BY <1>0, <2>1, <2>3, LinkMoves DEF Moved
  <2>4. CASE FindByEmail(r)
    BY <2>2, <2>3, <2>4 DEF FindByEmail
  <2> QED BY <1>3, <2>2, <2>4 DEF Handle, CreateUser, FindByGoogleId, LinkGoogleId, CreateWithGoogle,
             RetryByGoogleId, RetryByEmail, Insert
<1>4. CASE Fail(r)
  BY <1>0, <1>4, Moves DEF Fail, Moved
<1>5. CASE Forget(r)
  BY <1>0, <1>5 DEF Forget, IdleCall
<1>6. ASSUME NEW x \in Reqs,
             \/ \E e \in Emails, w \in Passwords : Register(x, e, w) \/ Login(x, e, w)
             \/ \E s \in Subs, e \in Emails : LoginWithGoogle(x, s, e)
             \/ RefuseCredential(x)
      PROVE  \/ call'[r].status = call[r].status /\ call'[r].theme = call[r].theme
             \/ call'[r].status # 200
  BY <1>0, <1>2, <1>6, ReceiveBegins
<1>7. ASSUME NEW u \in Ids, NEW th \in Themes, UpdateProfile(u, th) PROVE call'[r] = call[r]
  BY <1>7 DEF UpdateProfile
<1>8. CASE UNCHANGED accountVars
  BY <1>8 DEF accountVars
<1>9. CASE AccountsNext
  BY <1>1, <1>3, <1>4, <1>5, <1>6, <1>7, <1>9, AccountsCases
<1> QED BY <1>8, <1>9

LEMMA ProfileStep ==
  ASSUME AccountsInv, ProfileInv, [AccountsNext]_accountVars
  PROVE  ProfileInv'
<1> SUFFICES ASSUME NEW r \in Reqs, call'[r].status = 200 PROVE call'[r].theme \in Themes
  BY DEF ProfileInv, Accepted
<1> QED BY AnswerStep, IssueAnswers DEF ProfileInv, Accepted

(* What the pages do at the API is a step of Accounts, and most of what    *)
(* they do is none at all.                                                 *)
LEMMA SignInSteps ==
  ASSUME TypeOK, [Next]_vars
  PROVE  [AccountsNext]_accountVars
<1>1. /\ form # Nothing => form.req \in Reqs
      /\ google # Nothing => google.req \in Reqs
  BY DEF TypeOK, Pending
<1>2. FollowLink \/ ChangeLanguage \/ Reload \/ ScriptLoaded \/ ScriptFailed \/ SignOut
        \/ (\E th \in Themes : SetTheme(th)) \/ UNCHANGED vars => UNCHANGED accountVars
  BY DEF FollowLink, ChangeLanguage, Reload, ScriptLoaded, ScriptFailed, SignOut, SetTheme, vars
<1>3. FormAnswered \/ GoogleAnswered => \E r \in Reqs : Forget(r)
  BY <1>1 DEF FormAnswered, GoogleAnswered
<1>4. OtherDevice => \E u \in Ids, th \in Themes : UpdateProfile(u, th)
  BY DEF OtherDevice
<1>5. ASSUME NEW r \in Reqs PROVE
        /\ ChooseGoogle(r) => Receive(r)
        /\ Serve(r) => Handle(r) \/ Fail(r) \/ Forget(r)
        /\ \A e \in Emails, p \in Passwords : SubmitLogin(r, e, p) \/ SubmitRegister(r, e, p) => Receive(r)
  BY DEF ChooseGoogle, Serve, SubmitLogin, SubmitRegister, Receive
<1> QED BY <1>2, <1>3, <1>4, <1>5 DEF Next, AccountsNext

LEMMA AuthSuccessTypes ==
  ASSUME SignInInv, NEW slot, slot.req \in Reqs, Accepted(slot.req), AuthSuccess(slot)
  PROVE  /\ user' \in Ids /\ theme' \in Themes /\ route' = "home"
         /\ form' = Nothing /\ google' = Nothing /\ UNCHANGED <<script, seen>>
<1>1. call[slot.req].id \in Ids
  BY DEF SignInInv, AccountsInv, Knows, Signed, Accepted, Rows
<1>2. call[slot.req].theme \in Themes /\ theme \in Themes
  BY DEF SignInInv, ProfileInv, PageInv, TypeOK
<1> QED BY <1>1, <1>2 DEF AuthSuccess, Detach

LEMMA PageStep ==
  ASSUME SignInInv, [Next]_vars
  PROVE  PageInv'
<1>0. TypeOK /\ (route = "home" => form = Nothing /\ google = Nothing) /\ (user # Nothing => route = "home")
  BY DEF SignInInv, PageInv
<1>1. AccountsTypeOK'
  BY <1>0, SignInSteps, AccountsTypeStep DEF SignInInv
<1> DEFINE P == PageInv'
<1>2. /\ "home" \notin Forms /\ Nothing \in Pending
      /\ \A r \in Reqs, th \in Themes : [req |-> r, seen |-> th] \in Pending
  BY DEF Forms, Pending
<1>3. CASE FollowLink
  BY <1>0, <1>1, <1>2, <1>3 DEF FollowLink, PageInv, TypeOK, Detach, Mount
<1>4. CASE ChangeLanguage
  BY <1>0, <1>1, <1>2, <1>4 DEF ChangeLanguage, PageInv, TypeOK
<1>5. CASE Reload
  BY <1>0, <1>1, <1>2, <1>5 DEF Reload, PageInv, TypeOK, Detach
<1>6. CASE ScriptLoaded \/ ScriptFailed
  BY <1>0, <1>1, <1>2, <1>6 DEF ScriptLoaded, ScriptFailed, PageInv, TypeOK
<1>7. CASE FormAnswered
  <2>1. form.req \in Reqs
    BY <1>0, <1>7 DEF FormAnswered, TypeOK, Pending
  <2>2. CASE Accepted(form.req)
    <3>1. AuthSuccess(form)
      BY <1>7, <2>2 DEF FormAnswered
    <3> QED BY <1>0, <1>1, <1>2, <2>1, <2>2, <3>1, AuthSuccessTypes DEF PageInv, TypeOK
  <2>3. CASE ~Accepted(form.req)
    BY <1>0, <1>1, <1>2, <1>7, <2>3 DEF FormAnswered, PageInv, TypeOK
  <2> QED BY <2>2, <2>3
<1>8. CASE GoogleAnswered
  <2>1. google.req \in Reqs
    BY <1>0, <1>8 DEF GoogleAnswered, TypeOK, Pending
  <2>2. CASE Accepted(google.req)
    <3>1. AuthSuccess(google)
      BY <1>8, <2>2 DEF GoogleAnswered
    <3> QED BY <1>0, <1>1, <1>2, <2>1, <2>2, <3>1, AuthSuccessTypes DEF PageInv, TypeOK
  <2>3. CASE ~Accepted(google.req)
    BY <1>0, <1>1, <1>2, <1>8, <2>3 DEF GoogleAnswered, PageInv, TypeOK
  <2> QED BY <2>2, <2>3
<1>9. CASE SignOut
  BY <1>0, <1>1, <1>2, <1>9 DEF SignOut, PageInv, TypeOK, Mount, Forms
<1>10. CASE OtherDevice \/ \E r \in Reqs : Serve(r)
  BY <1>0, <1>1, <1>10 DEF OtherDevice, Serve, pageVars, PageInv, TypeOK
<1>11. ASSUME NEW th \in Themes, SetTheme(th) PROVE P
  BY <1>0, <1>1, <1>11 DEF SetTheme, PageInv, TypeOK
<1>12. ASSUME NEW r \in Reqs, ChooseGoogle(r) PROVE P
  <2>1. seen \in Themes
    BY <1>0 DEF TypeOK
  <2> QED BY <1>0, <1>1, <1>2, <1>12, <2>1 DEF ChooseGoogle, PageInv, TypeOK
<1>13. ASSUME NEW r \in Reqs, NEW e \in Emails, NEW p \in Passwords,
              SubmitLogin(r, e, p) \/ SubmitRegister(r, e, p)
       PROVE  P
  <2>1. theme \in Themes
    BY <1>0 DEF TypeOK
  <2> QED BY <1>0, <1>1, <1>2, <1>13, <2>1 DEF SubmitLogin, SubmitRegister, PageInv, TypeOK
<1>14. CASE UNCHANGED vars
  BY <1>0, <1>1, <1>14 DEF vars, pageVars, PageInv, TypeOK
<1> HIDE DEF P
<1> QED BY <1>3, <1>4, <1>5, <1>6, <1>7, <1>8, <1>9, <1>10, <1>11, <1>12, <1>13, <1>14 DEF Next, P

LEMMA SignInInitInv == Init => SignInInv
<1> SUFFICES ASSUME Init PROVE SignInInv
  OBVIOUS
<1>1. AccountsInv
  BY AccountsInitInv DEF Init
<1>2. ProfileInv
  BY DEF Init, AccountsInit, ProfileInv, Accepted, IdleCall
<1>3. PageInv
  BY <1>1, AccountsAssumption DEF Init, PageInv, TypeOK, AccountsInv, Pending, Forms
<1> QED BY <1>1, <1>2, <1>3 DEF SignInInv

LEMMA SignInStepInv ==
  ASSUME SignInInv, [Next]_vars
  PROVE  SignInInv'
<1>1. [AccountsNext]_accountVars
  BY SignInSteps DEF SignInInv, PageInv
<1> QED BY <1>1, AccountsStepInv, ProfileStep, PageStep DEF SignInInv

(* The accounts and the page agree: who waits for an answer, of whom, and  *)
(* what the session shows meanwhile.                                       *)
THEOREM SignInInvariant == Spec => []SignInInv
<1>1. SignInInv /\ [Next]_vars => SignInInv'
  BY SignInStepInv
<1> QED BY SignInInitInv, <1>1, PTL DEF Spec

(* The sign-in pages keep to the types of their state.                     *)
THEOREM SignInTypeCorrect == Spec => []TypeOK
<1>1. SignInInv => TypeOK
  BY DEF SignInInv, PageInv
<1> QED BY <1>1, SignInInvariant, PTL

(* The pages use the API as any client may: what is proved of Accounts     *)
(* holds under them.                                                       *)
THEOREM SignInUsesAccounts == Spec => AccountsSpec
<1>1. Init => AccountsInit
  BY DEF Init
<1>2. TypeOK /\ [Next]_vars => [AccountsNext]_accountVars
  BY SignInSteps
<1> QED BY <1>1, <1>2, SignInTypeCorrect, PTL DEF Spec, AccountsSpec

(* An answer that comes late, to the form or to the Google button, never   *)
(* replaces who is signed in: only the end of the session does.            *)
THEOREM SessionKept == Spec => SessionStays
<1> DEFINE Stays == user # Nothing /\ user' # user => user' = Nothing /\ route' = "login"
<1>1. ASSUME SignInInv, [Next]_vars PROVE Stays
  <2>1. user # Nothing => route = "home" /\ form = Nothing /\ google = Nothing
    BY <1>1 DEF SignInInv, PageInv
  <2>2. ~FormAnswered /\ ~GoogleAnswered /\ ~SignOut => UNCHANGED user
    BY <1>1 DEF Next, vars, pageVars, FollowLink, ChangeLanguage, Reload, ScriptLoaded, ScriptFailed,
                SetTheme, OtherDevice, Serve, ChooseGoogle, SubmitLogin, SubmitRegister
  <2> QED BY <2>1, <2>2 DEF FormAnswered, GoogleAnswered, SignOut
<1>2. SignInInv /\ [Next]_vars => [Stays]_vars
  BY <1>1
<1> QED BY <1>2, SignInInvariant, PTL DEF Spec, SessionStays

(* Under the pages: whoever is signed in is so to the right account, the   *)
(* Google id of an account stays, and conflicts are real.                  *)
COROLLARY PagesReachRightAccount == Spec => []RightAccount /\ GoogleIdStays
  BY SignInUsesAccounts, SignedInToRightAccount, GoogleIdKept, PTL

COROLLARY PagesMeetRealConflicts ==
  ASSUME NEW p, NEW q, Reqs = {p, q}
  PROVE  Spec => GoogleConflictsAreReal
  BY SignInUsesAccounts, GoogleConflictsReal, PTL

=============================================================================
