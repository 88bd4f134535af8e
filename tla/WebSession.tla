----------------------------- MODULE WebSession -----------------------------
(***************************************************************************)
(* The browser's side of a session: the module variables of                *)
(* apps/web/src/lib/api-client.ts (one copy per open page), the            *)
(* AuthProvider of contexts/auth-context.tsx, and the refresh token in     *)
(* localStorage that all pages of the browser share.  The server is        *)
(* module Sessions.                                                        *)
(*                                                                         *)
(* JavaScript runs to completion: one action is the code that runs when    *)
(* one answer arrives (with the promise callbacks it wakes), or one user   *)
(* gesture.  A request and its answer are separate steps.                  *)
(*                                                                         *)
(* A pair issued together is one member of Tokens: access[p] = t means the *)
(* page holds the access token of pair t.                                  *)
(***************************************************************************)
EXTENDS Naturals, FiniteSets

CONSTANTS
    Pages,      \* browser pages with the app loaded
    Queries,    \* API calls a page may have in flight at the same time
    Users, Tokens, NoUser, NoToken

ASSUME NoTokenAssumption == NoToken \notin Tokens
ASSUME NoUserAssumption  == NoUser \notin Users
ASSUME QueriesAssumption == {"signIn", "signOut"} \cap Queries = {}

VARIABLES
    status, owner,  \* the server's refresh tokens (Sessions)
    lapsed,         \* pairs whose access token has passed its TTL
    stored,         \* localStorage['okane.refresh']
    mode,           \* AuthStatus of each page
    user,           \* the user each page shows
    expiredNote,    \* sessionExpired of each page
    access,         \* accessToken of each page
    refresh,        \* refreshToken of each page
    flight,         \* refreshInFlight of each page
    call,           \* the calls of request() each page has open
    orphans,        \* refresh requests whose page is gone
    wasIn           \* history: pages that have been signed in since they were loaded

server == <<status, owner>>
shown  == <<mode, user, expiredNote, wasIn>>
memory == <<access, refresh>>
vars   == <<status, owner, lapsed, stored, mode, user, expiredNote, access,
            refresh, flight, call, orphans, wasIn>>

Server == INSTANCE Sessions

Slots == Queries \cup {"signIn", "signOut"}

Pair == Tokens \cup {NoToken}

(* One fetch of /auth/refresh: what it carries, what came back.            *)
Flight  == [st: {"none", "sent", "answered"}, token: Pair, answer: Pair]
NoFlight == [st |-> "none", token |-> NoToken, answer |-> NoToken]

(* One request(): the access token it carries, whether it is the retry,    *)
(* and the pair a sign-in is answered with.                                *)
Call == [st: {"idle", "sent", "done", "refused", "waiting"}, with: Pair,
         retry: BOOLEAN, got: Pair]
NoCall == [st |-> "idle", with |-> NoToken, retry |-> FALSE, got |-> NoToken]

TypeOK ==
    /\ status \in [Tokens -> {"absent", "live", "revoked"}]
    /\ owner \in [Tokens -> Users \cup {NoUser}]
    /\ lapsed \in SUBSET Tokens
    /\ stored \in Pair
    /\ mode \in [Pages -> {"closed", "restoring", "guest", "authenticated"}]
    /\ user \in [Pages -> Users \cup {NoUser}]
    /\ expiredNote \in [Pages -> BOOLEAN]
    /\ access \in [Pages -> Pair]
    /\ refresh \in [Pages -> Pair]
    /\ flight \in [Pages -> Flight]
    /\ call \in [Pages -> [Slots -> Call]]
    /\ orphans \in SUBSET Tokens
    /\ wasIn \in SUBSET Pages

Init ==
    /\ Server!Init
    /\ lapsed = {}
    /\ stored = NoToken
    /\ mode = [p \in Pages |-> "closed"]
    /\ user = [p \in Pages |-> NoUser]
    /\ expiredNote = [p \in Pages |-> FALSE]
    /\ access = [p \in Pages |-> NoToken]
    /\ refresh = [p \in Pages |-> NoToken]
    /\ flight = [p \in Pages |-> NoFlight]
    /\ call = [p \in Pages |-> [s \in Slots |-> NoCall]]
    /\ orphans = {}
    /\ wasIn = {}

-----------------------------------------------------------------------------
(* Loading a page                                                          *)

(* Operators headed "Mutant" are slips that could be made in the code: the *)
(* one below each would replace.  They are not part of Next; each breaks a *)
(* property that the definition itself satisfies.                          *)

(* Mutant: an abandoned refresh is assumed where there was none.           *)
AbandonedAny(p) == {flight[p].token}

Abandoned(p) == IF flight[p].st = "sent" THEN {flight[p].token} ELSE {}

(* The module variables and the React state start afresh; requests of the  *)
(* page that was there are abandoned, but the server may still get them.   *)
(* The boot effect then restores the session with the stored token.        *)
Load(p) ==
    /\ orphans' = orphans \cup Abandoned(p)
    /\ call' = [call EXCEPT ![p] = [s \in Slots |-> NoCall]]
    /\ access' = [access EXCEPT ![p] = NoToken]
    /\ refresh' = [refresh EXCEPT ![p] = stored]
    /\ user' = [user EXCEPT ![p] = NoUser]
    /\ expiredNote' = [expiredNote EXCEPT ![p] = FALSE]
    /\ wasIn' = wasIn \ {p}
    /\ IF stored = NoToken
       THEN /\ mode' = [mode EXCEPT ![p] = "guest"]
            /\ flight' = [flight EXCEPT ![p] = NoFlight]
       ELSE /\ mode' = [mode EXCEPT ![p] = "restoring"]
            /\ flight' = [flight EXCEPT ![p] = [NoFlight EXCEPT !.st = "sent", !.token = stored]]
    /\ UNCHANGED <<server, lapsed, stored>>

FirstLoad(p) == mode[p] = "closed" /\ Load(p)
Reload(p)    == mode[p] # "closed" /\ Load(p)

-----------------------------------------------------------------------------
(* request(): the call goes out with the access token of this moment       *)

Send(p, s) ==
    /\ call[p][s].st = "idle"
    /\ call' = [call EXCEPT ![p][s] = [NoCall EXCEPT !.st = "sent", !.with = access[p]]]
    /\ UNCHANGED <<server, lapsed, stored, shown, memory, flight, orphans>>

SendQuery(p, q) == mode[p] = "authenticated" /\ Send(p, q)
SendSignOut(p)  == mode[p] = "authenticated" /\ Send(p, "signOut")
SendSignIn(p)   == mode[p] = "guest" /\ Send(p, "signIn")

(* JwtAuthGuard: 401 without a valid access token.  Any other answer ends  *)
(* the call, also the 400 of /auth/logout, which the page posts without    *)
(* the refreshToken that RefreshDto requires.                              *)
Serve(p, s) ==
    LET t == call[p][s].with IN
    /\ s # "signIn"
    /\ call[p][s].st = "sent"
    /\ call' = [call EXCEPT ![p][s].st =
                    IF t = NoToken \/ t \in lapsed THEN "refused" ELSE "done"]
    /\ UNCHANGED <<server, lapsed, stored, shown, memory, flight, orphans>>

(* /auth/login is @Public: the credentials decide.                         *)
SignInAccepted(p, u, t) ==
    /\ call[p]["signIn"].st = "sent"
    /\ Server!Open(u, t)
    /\ call' = [call EXCEPT ![p]["signIn"] = [@ EXCEPT !.st = "done", !.got = t]]
    /\ UNCHANGED <<lapsed, stored, shown, memory, flight, orphans>>

SignInRefused(p) ==
    /\ call[p]["signIn"].st = "sent"
    /\ call' = [call EXCEPT ![p]["signIn"].st = "refused"]
    /\ UNCHANGED <<server, lapsed, stored, shown, memory, flight, orphans>>

(* The request or the answer is lost, or the server fails: fetch rejects,  *)
(* or the status is neither a success nor 401.  The call ends; logout goes *)
(* on all the same.                                                        *)
CallFails(p, s) ==
    /\ \/ call[p][s].st = "sent"
       \/ s = "signIn" /\ call[p][s].st = "done"
    /\ call' = [call EXCEPT ![p][s] = IF s = "signOut" THEN [@ EXCEPT !.st = "done"] ELSE NoCall]
    /\ UNCHANGED <<server, lapsed, stored, shown, memory, flight, orphans>>

-----------------------------------------------------------------------------
(* The answer arrives                                                      *)

QueryDone(p, q) ==
    /\ call[p][q].st = "done"
    /\ call' = [call EXCEPT ![p][q] = NoCall]
    /\ UNCHANGED <<server, lapsed, stored, shown, memory, flight, orphans>>

(* login(session) *)
SignedIn(p) ==
    LET t == call[p]["signIn"].got IN
    /\ call[p]["signIn"].st = "done"
    /\ call' = [call EXCEPT ![p]["signIn"] = NoCall]
    /\ access' = [access EXCEPT ![p] = t]
    /\ refresh' = [refresh EXCEPT ![p] = t]
    /\ stored' = t
    /\ user' = [user EXCEPT ![p] = owner[t]]
    /\ mode' = [mode EXCEPT ![p] = "authenticated"]
    /\ expiredNote' = [expiredNote EXCEPT ![p] = FALSE]
    /\ wasIn' = wasIn \cup {p}
    /\ UNCHANGED <<server, lapsed, flight, orphans>>

(* setTokens(null) and the rest of clearLocalSession                       *)
ClearLocalSession(p, note) ==
    /\ access' = [access EXCEPT ![p] = NoToken]
    /\ refresh' = [refresh EXCEPT ![p] = NoToken]
    /\ stored' = NoToken
    /\ user' = [user EXCEPT ![p] = NoUser]
    /\ mode' = [mode EXCEPT ![p] = "guest"]
    /\ expiredNote' = [expiredNote EXCEPT ![p] = @ \/ note]
    /\ UNCHANGED wasIn

(* logout(): whatever the server answered, the local session is cleared.   *)
SignedOut(p) ==
    /\ \/ call[p]["signOut"].st = "done"
       \/ call[p]["signOut"].st = "refused" /\ call[p]["signOut"].retry
    /\ call' = [call EXCEPT ![p]["signOut"] = NoCall]
    /\ ClearLocalSession(p, FALSE)
    /\ UNCHANGED <<server, lapsed, flight, orphans>>

(* The retry was refused again: the call fails.                            *)
RetryRefused(p, s) ==
    /\ s # "signOut"
    /\ call[p][s].st = "refused" /\ call[p][s].retry
    /\ call' = [call EXCEPT ![p][s] = NoCall]
    /\ UNCHANGED <<server, lapsed, stored, shown, memory, flight, orphans>>

(* Mutant: every 401 starts a refresh of its own.                          *)
NoSharing(p) == FALSE

InFlight(p) == flight[p].st # "none"

(* attemptRefresh: join the refresh in flight, or start one ...            *)
AwaitRefresh(p, s) ==
    /\ call[p][s].st = "refused" /\ ~call[p][s].retry
    /\ InFlight(p) \/ refresh[p] # NoToken
    /\ call' = [call EXCEPT ![p][s].st = "waiting"]
    /\ flight' = IF InFlight(p) THEN flight
                 ELSE [flight EXCEPT ![p] = [NoFlight EXCEPT !.st = "sent", !.token = refresh[p]]]
    /\ UNCHANGED <<server, lapsed, stored, shown, memory, orphans>>

(* ... which without a refresh token fails at once.                        *)
NothingToRefresh(p, s) ==
    /\ call[p][s].st = "refused" /\ ~call[p][s].retry
    /\ ~InFlight(p) /\ refresh[p] = NoToken
    /\ call' = [call EXCEPT ![p][s] = NoCall]
    /\ ClearLocalSession(p, TRUE)
    /\ UNCHANGED <<server, lapsed, flight, orphans>>

-----------------------------------------------------------------------------
(* POST /auth/refresh at the server                                        *)

(* rotate of t, answered with s: a new pair, or 401 for a token that does  *)
(* not work, which ends every session of its user.                         *)
Rotate(t, s) ==
    \/ s \in Tokens /\ Server!Replace(t, s)
    \/ s = NoToken /\ status[t] = "revoked" /\ Server!EndAll(owner[t])

(* Mutant: the promise is never settled.                                   *)
NeverAnswered(p, s) == flight' = flight

Answered(p, s) == flight' = [flight EXCEPT ![p] = [@ EXCEPT !.st = "answered", !.answer = s]]

ServeRefresh(p) ==
    /\ flight[p].st = "sent"
    /\ \E s \in Pair : Rotate(flight[p].token, s) /\ Answered(p, s)
    /\ UNCHANGED <<lapsed, stored, shown, memory, call, orphans>>

(* The request or the answer is lost, or the server fails before (500).    *)
RefreshLost(p) ==
    /\ flight[p].st \in {"sent", "answered"}
    /\ flight[p].st = "answered" => flight[p].answer # NoToken
    /\ Answered(p, NoToken)
    /\ UNCHANGED <<server, lapsed, stored, shown, memory, call, orphans>>

(* The server fails between revoking the token and creating the next one.  *)
RefreshFailsHalfway(p) ==
    /\ flight[p].st = "sent"
    /\ Server!Lose(flight[p].token)
    /\ Answered(p, NoToken)
    /\ UNCHANGED <<lapsed, stored, shown, memory, call, orphans>>

ServeOrphan(t) ==
    /\ t \in orphans
    /\ \E s \in Pair : Rotate(t, s)
    /\ orphans' = orphans \ {t}
    /\ UNCHANGED <<lapsed, stored, shown, memory, flight, call>>

(* Mutant: the calls that wait are not resumed.                            *)
NoneWaiting(p) == {}

Waiting(p) == {s \in Slots : call[p][s].st = "waiting"}

(* Mutant: performRefresh writes localStorage, whatever is shown.          *)
AlwaysStored(p, t) == t

StoredAfter(p, t) == IF mode[p] = "restoring" THEN t ELSE stored

(* performRefresh resolves: setTokens, then every call that waits and the  *)
(* boot effect continue.  Only the boot effect stores the new token, with  *)
(* a session that has no user (the answer is a TokenPair).                 *)
RefreshSucceeded(p) ==
    LET t == flight[p].answer IN
    /\ flight[p].st = "answered" /\ t # NoToken
    /\ flight' = [flight EXCEPT ![p] = NoFlight]
    /\ access' = [access EXCEPT ![p] = t]
    /\ refresh' = [refresh EXCEPT ![p] = t]
    /\ call' = [call EXCEPT ![p] = [s \in Slots |->
            IF s \in Waiting(p)
            THEN [NoCall EXCEPT !.st = "sent", !.with = t, !.retry = TRUE] ELSE @[s]]]
    /\ stored' = StoredAfter(p, t)
    /\ IF mode[p] = "restoring"
       THEN /\ mode' = [mode EXCEPT ![p] = "authenticated"]
            /\ expiredNote' = [expiredNote EXCEPT ![p] = FALSE]
            /\ wasIn' = wasIn \cup {p}
            /\ UNCHANGED user
       ELSE UNCHANGED shown
    /\ UNCHANGED <<server, lapsed, orphans>>

RefreshFailed(p) ==
    /\ flight[p].st = "answered" /\ flight[p].answer = NoToken
    /\ flight' = [flight EXCEPT ![p] = NoFlight]
    /\ call' = [call EXCEPT ![p] = [s \in Slots |-> IF s \in Waiting(p) THEN NoCall ELSE @[s]]]
    /\ ClearLocalSession(p, Waiting(p) # {})
    /\ UNCHANGED <<server, lapsed, orphans>>

(* Fifteen minutes pass.                                                   *)
AccessLapses(t) ==
    /\ status[t] # "absent"
    /\ t \notin lapsed
    /\ lapsed' = lapsed \cup {t}
    /\ UNCHANGED <<server, stored, shown, memory, flight, call, orphans>>

-----------------------------------------------------------------------------
(* What a call of an open page, or its refresh, does by itself: the user's *)
(* gestures, the passing of time and the faults of the network are apart.  *)
CallStep(p, s) ==
    \/ Serve(p, s) \/ RetryRefused(p, s) \/ AwaitRefresh(p, s) \/ NothingToRefresh(p, s)
    \/ s \in Queries /\ QueryDone(p, s)
    \/ s = "signIn" /\ \/ SignInRefused(p) \/ SignedIn(p)
                       \/ \E u \in Users, t \in Tokens : SignInAccepted(p, u, t)
    \/ s = "signOut" /\ SignedOut(p)

FlightStep(p) == ServeRefresh(p) \/ RefreshSucceeded(p) \/ RefreshFailed(p)

Stay ==
    \/ \E p \in Pages : FirstLoad(p) \/ SendSignIn(p) \/ SendSignOut(p) \/ FlightStep(p)
    \/ \E p \in Pages, q \in Queries : SendQuery(p, q)
    \/ \E p \in Pages, s \in Slots : CallStep(p, s)
    \/ \E t \in Tokens : AccessLapses(t)

Faults ==
    \E p \in Pages : \/ RefreshLost(p) \/ RefreshFailsHalfway(p)
                     \/ \E s \in Slots : CallFails(p, s)

Orphans == \E t \in Tokens : ServeOrphan(t)

Next == Stay \/ Faults \/ Orphans \/ \E p \in Pages : Reload(p)

Spec == Init /\ [][Next]_vars

(* A page that is never reloaded, on a network that may fail.              *)
StaySpec == Init /\ [][Stay \/ Faults]_vars

(* No faults.  The user lets a page finish restoring before reloading, or  *)
(* reloads at any moment but within the life of an access token.           *)
PatientReload == \E p \in Pages : mode[p] # "restoring" /\ Reload(p)
PatientSpec == Init /\ [][Stay \/ Orphans \/ PatientReload]_vars
HastySpec   == Init /\ [][/\ Stay \/ Orphans \/ \E p \in Pages : Reload(p)
                          /\ lapsed' = {}]_vars

(* The server and the network answer or fail, the page's event loop runs   *)
(* the callbacks of what was answered, and the user does not go on for     *)
(* ever reloading a page before it is restored.                            *)
FairSpec ==
    /\ Spec
    /\ \A p \in Pages : WF_vars(FlightStep(p)) /\ \A s \in Slots : WF_vars(CallStep(p, s))
    /\ \A p \in Pages : <>[][mode[p] = "restoring" => ~Reload(p)]_vars

-----------------------------------------------------------------------------
(* In a page that is never reloaded, a token that is presented for refresh *)
(* works: concurrent 401s, sign-outs, account switches and lost answers    *)
(* never set off the server's reuse detection.                             *)
PresentedTokenWorks ==
    \A p \in Pages : flight[p].st = "sent" => status[flight[p].token] = "live"

(* What localStorage keeps is the session of the user the page shows, and  *)
(* nothing once signed out, even when a late refresh has left other tokens *)
(* in memory: a reload cannot bring another user's session back.           *)
StoredMatchesShown ==
    \A p \in Pages :
        /\ mode[p] = "guest" => stored = NoToken
        /\ user[p] # NoUser => stored # NoToken /\ owner[stored] = user[p]

(* Every call is answered or fails, also one that waits for a refresh, as  *)
(* long as the server has a token left to issue (the bound of the model).  *)
PoolEmpty == \A t \in Tokens : status[t] # "absent"
CallsSettle ==
    \A p \in Pages : \A s \in Slots :
        call[p][s].st # "idle" ~> call[p][s].st = "idle" \/ PoolEmpty

(* The silent restore always ends: any failure falls through to guest.     *)
RestoreSettles ==
    \A p \in Pages : mode[p] = "restoring" ~> mode[p] # "restoring" \/ PoolEmpty

(* What a page presents when it restores its session works.                *)
RestorePresentsWorkingToken ==
    \A p \in Pages : mode[p] = "restoring" /\ flight[p].st = "sent"
                        => status[flight[p].token] = "live"

(* Signing out revokes the refresh token of the page at the server.        *)
SignOutRevokes ==
    [][\A p \in Pages : SignedOut(p) /\ refresh[p] # NoToken
                            => status'[refresh[p]] = "revoked"]_vars

(* A page that shows the login form holds no tokens.                       *)
GuestHoldsNoTokens ==
    \A p \in Pages : mode[p] = "guest" => access[p] = NoToken /\ refresh[p] = NoToken

(* The page's calls carry tokens of the user it shows.                     *)
TokensMatchUser ==
    \A p \in Pages : user[p] # NoUser => owner[access[p]] = user[p]

(* A page that is signed in knows its user.                                *)
SignedInHasUser ==
    \A p \in Pages : mode[p] = "authenticated" => user[p] # NoUser

(* Only a page that had a session says that it expired.                    *)
ExpiredNoteHadSession ==
    \A p \in Pages : expiredNote[p] => p \in wasIn

(* A signed-in page starts a refresh only when the access token it holds   *)
(* has lapsed: one refresh per lapse.                                      *)
OneRefreshPerLapse ==
    [][\A p \in Pages :
        (mode[p] = "authenticated" /\ mode'[p] = "authenticated" /\ access[p] # NoToken
            /\ flight[p].st = "none" /\ flight'[p].st = "sent")
        => access[p] \in lapsed]_vars

=============================================================================
