-------------------------- MODULE WebSessionProofs --------------------------
(***************************************************************************)
(* Theorems about WebSession, for any queries, users and tokens.           *)
(***************************************************************************)
EXTENDS WebSession, TLAPS

(***************************************************************************)
(* Types                                                                   *)
(***************************************************************************)
(* A refresh is sent with a token, and a sign-in answered with a pair.     *)
Carried ==
    \A p \in Pages :
        /\ flight[p].st = "sent" => flight[p].token \in Tokens
        /\ call[p]["signIn"].st = "done" => call[p]["signIn"].got \in Tokens

LEMMA NoneTyped == NoCall \in Call /\ NoFlight \in Flight
  BY DEF NoCall, Call, NoFlight, Flight, Pair

LEMMA CallFields ==
  ASSUME NEW c \in Call
  PROVE  /\ c.st \in {"idle", "sent", "done", "refused", "waiting"}
         /\ c.with \in Pair /\ c.retry \in BOOLEAN /\ c.got \in Pair
         /\ \A st \in {"idle", "sent", "done", "refused", "waiting"} :
               [c EXCEPT !.st = st] \in Call
         /\ \A t \in Pair : [c EXCEPT !.st = "done", !.got = t] \in Call
  BY DEF Call

LEMMA FlightFields ==
  ASSUME NEW f \in Flight
  PROVE  /\ f.st \in {"none", "sent", "answered"}
         /\ f.token \in Pair /\ f.answer \in Pair
         /\ \A t \in Pair : [f EXCEPT !.st = "answered", !.answer = t] \in Flight
  BY DEF Flight

LEMMA AnsweredFields ==
  ASSUME NEW f \in Flight, NEW t \in Pair
  PROVE  /\ [f EXCEPT !.st = "answered", !.answer = t].st = "answered"
         /\ [f EXCEPT !.st = "answered", !.answer = t].answer = t
         /\ [f EXCEPT !.st = "answered", !.answer = t].token = f.token
  BY DEF Flight

LEMMA SentFields ==
  /\ NoCall.st = "idle" /\ NoCall.got = NoToken /\ NoFlight.st = "none"
  /\ \A t : /\ [NoCall EXCEPT !.st = "sent", !.with = t].st = "sent"
            /\ [NoCall EXCEPT !.st = "sent", !.with = t, !.retry = TRUE].st = "sent"
            /\ [NoFlight EXCEPT !.st = "sent", !.token = t].st = "sent"
            /\ [NoFlight EXCEPT !.st = "sent", !.token = t].token = t
  BY DEF NoCall, NoFlight

(* Replacing one call of one page.                                         *)
LEMMA OneCall ==
  ASSUME TypeOK, NEW p \in Pages, NEW s \in Slots, NEW c \in Call
  PROVE  [call EXCEPT ![p][s] = c] \in [Pages -> [Slots -> Call]]
  BY DEF TypeOK

(* Moving one call of one page on.                                         *)
LEMMA CallMoves ==
  ASSUME TypeOK, NEW p \in Pages, NEW s \in Slots,
         NEW st \in {"idle", "sent", "done", "refused", "waiting"}
  PROVE  [call EXCEPT ![p][s].st = st] \in [Pages -> [Slots -> Call]]
<1>1. call[p][s] \in Call
  BY DEF TypeOK
<1>2. [call[p][s] EXCEPT !.st = st] \in Call
  BY <1>1, CallFields
<1>3. [call EXCEPT ![p][s].st = st] = [call EXCEPT ![p][s] = [call[p][s] EXCEPT !.st = st]]
  BY DEF TypeOK
<1> QED BY <1>2, <1>3, OneCall

LEMMA Requests ==
  /\ "signIn" \in Slots /\ "signOut" \in Slots /\ Queries \subseteq Slots
  BY DEF Slots

(* The requests a page has in flight, seen from the page.                  *)
LEMMA SentTyped ==
  ASSUME NEW t \in Pair
  PROVE  /\ [NoCall EXCEPT !.st = "sent", !.with = t] \in Call
         /\ [NoCall EXCEPT !.st = "sent", !.with = t, !.retry = TRUE] \in Call
         /\ [NoFlight EXCEPT !.st = "sent", !.token = t] \in Flight
  BY DEF NoCall, Call, NoFlight, Flight, Pair

(* The server's table keeps its type.                                      *)
LEMMA ServerTyped ==
  ASSUME TypeOK,
         \/ \E u \in Users, t \in Tokens : Server!Open(u, t)
         \/ \E s, t \in Tokens : Server!Replace(t, s)
         \/ \E t \in Tokens : Server!Lose(t)
         \/ \E u \in Users \cup {NoUser} : Server!EndAll(u)
         \/ UNCHANGED server
  PROVE  /\ status' \in [Tokens -> {"absent", "live", "revoked"}]
         /\ owner' \in [Tokens -> Users \cup {NoUser}]
<1>1. CASE \E u \in Users, t \in Tokens : Server!Open(u, t)
  BY <1>1 DEF TypeOK, Server!Open
<1>2. CASE \E s, t \in Tokens : Server!Replace(t, s)
  BY <1>2 DEF TypeOK, Server!Replace
<1>3. CASE \E t \in Tokens : Server!Lose(t)
  BY <1>3 DEF TypeOK, Server!Lose
<1>4. CASE \E u \in Users \cup {NoUser} : Server!EndAll(u)
  BY <1>4 DEF TypeOK, Server!EndAll
<1>5. CASE UNCHANGED server
  BY <1>5 DEF TypeOK, server
<1> QED BY <1>1, <1>2, <1>3, <1>4, <1>5

LEMMA RotateTyped ==
  ASSUME TypeOK, NEW t \in Tokens, NEW s \in Pair, Rotate(t, s)
  PROVE  /\ status' \in [Tokens -> {"absent", "live", "revoked"}]
         /\ owner' \in [Tokens -> Users \cup {NoUser}]
<1>1. CASE s \in Tokens /\ Server!Replace(t, s)
  BY <1>1, ServerTyped
<1>2. CASE Server!EndAll(owner[t])
  BY <1>2, ServerTyped DEF TypeOK
<1> QED BY <1>1, <1>2 DEF Rotate

(* What loading a page, or ending its session, leaves.                     *)
LEMMA LoadTyped ==
  ASSUME TypeOK, NEW p \in Pages, Load(p),
         flight[p].st = "sent" => flight[p].token \in Tokens
  PROVE  TypeOK'
<1>1. NoCall \in Call /\ [s \in Slots |-> NoCall] \in [Slots -> Call]
  BY NoneTyped
<1>2. call' \in [Pages -> [Slots -> Call]]
  BY <1>1 DEF TypeOK, Load
<1>3. stored \in Pair /\ NoToken \in Pair
  BY DEF TypeOK, Pair
<1>4. flight' \in [Pages -> Flight]
  BY <1>3, NoneTyped, SentTyped DEF TypeOK, Load
<1>5. orphans' \in SUBSET Tokens
  BY DEF TypeOK, Load, Abandoned
<1>6. /\ access' \in [Pages -> Pair] /\ refresh' \in [Pages -> Pair]
      /\ mode' \in [Pages -> {"closed", "restoring", "guest", "authenticated"}]
      /\ user' \in [Pages -> Users \cup {NoUser}]
      /\ expiredNote' \in [Pages -> BOOLEAN]
      /\ wasIn' \in SUBSET Pages
  BY <1>3 DEF TypeOK, Load
<1> QED BY <1>2, <1>4, <1>5, <1>6 DEF TypeOK, Load, server

LEMMA ClearTyped ==
  ASSUME TypeOK, NEW p \in Pages, NEW note \in BOOLEAN, ClearLocalSession(p, note)
  PROVE  /\ access' \in [Pages -> Pair] /\ refresh' \in [Pages -> Pair]
         /\ stored' \in Pair
         /\ mode' \in [Pages -> {"closed", "restoring", "guest", "authenticated"}]
         /\ user' \in [Pages -> Users \cup {NoUser}]
         /\ expiredNote' \in [Pages -> BOOLEAN]
         /\ wasIn' \in SUBSET Pages
<1>1. NoToken \in Pair
  BY DEF Pair
<1> QED BY <1>1 DEF TypeOK, ClearLocalSession

(* A step that only moves calls.                                           *)
LEMMA CallsOnly ==
  ASSUME TypeOK, call' \in [Pages -> [Slots -> Call]],
         UNCHANGED <<server, lapsed, stored, shown, memory, flight, orphans>>
  PROVE  TypeOK'
  BY DEF TypeOK, server, shown, memory

LEMMA CallStepTyped ==
  ASSUME TypeOK, Carried, NEW p \in Pages, NEW s \in Slots, CallStep(p, s)
  PROVE  TypeOK'
<1>0. call[p][s] \in Call /\ call[p]["signIn"] \in Call /\ NoToken \in Pair
  BY Requests DEF TypeOK, Pair
<1>1. CASE Serve(p, s)
  BY <1>1, CallMoves, CallsOnly DEF Serve
<1>2. CASE RetryRefused(p, s)
  BY <1>2, OneCall, NoneTyped, CallsOnly DEF RetryRefused
<1>3. CASE AwaitRefresh(p, s)
  <2>1. call' \in [Pages -> [Slots -> Call]]
    BY <1>3, CallMoves DEF AwaitRefresh
  <2>2. refresh[p] \in Pair
    BY DEF TypeOK
  <2>3. flight' \in [Pages -> Flight]
    BY <1>3, <2>2, SentTyped DEF AwaitRefresh, TypeOK
  <2> QED BY <1>3, <2>1, <2>3 DEF AwaitRefresh, TypeOK, server, shown, memory
<1>4. CASE NothingToRefresh(p, s)
  <2>1. call' \in [Pages -> [Slots -> Call]]
    BY <1>4, OneCall, NoneTyped DEF NothingToRefresh
  <2> QED BY <1>4, <2>1, ClearTyped DEF NothingToRefresh, TypeOK, server
<1>5. CASE s \in Queries /\ QueryDone(p, s)
  BY <1>5, OneCall, NoneTyped, CallsOnly DEF QueryDone
<1>6. CASE s = "signIn" /\ SignInRefused(p)
  BY <1>6, CallMoves, CallsOnly DEF SignInRefused
<1>7. CASE s = "signIn" /\ SignedIn(p)
  <2>1. call' \in [Pages -> [Slots -> Call]]
    BY <1>7, OneCall, NoneTyped DEF SignedIn
  <2>2. call[p]["signIn"].got \in Pair
    BY <1>0, CallFields
  <2>3. call[p]["signIn"].got \in Tokens
    BY <1>7 DEF SignedIn, Carried
  <2>4. user' \in [Pages -> Users \cup {NoUser}]
    BY <1>7, <2>3 DEF SignedIn, TypeOK
  <2> QED BY <1>7, <2>1, <2>2, <2>4 DEF SignedIn, TypeOK, server
<1>8. CASE s = "signIn" /\ \E u \in Users, t \in Tokens : SignInAccepted(p, u, t)
  <2> PICK u \in Users, t \in Tokens : SignInAccepted(p, u, t)
    BY <1>8
  <2>1. [call[p]["signIn"] EXCEPT !.st = "done", !.got = t] \in Call
    BY <1>0, CallFields DEF Pair
  <2>2. call' \in [Pages -> [Slots -> Call]]
    BY <2>1, OneCall, Requests DEF SignInAccepted, TypeOK
  <2> QED BY <2>2, ServerTyped DEF SignInAccepted, TypeOK, shown, memory
<1>9. CASE s = "signOut" /\ SignedOut(p)
  <2>1. call' \in [Pages -> [Slots -> Call]]
    BY <1>9, OneCall, NoneTyped DEF SignedOut
  <2> QED BY <1>9, <2>1, ClearTyped DEF SignedOut, TypeOK, server
<1> QED BY <1>1, <1>2, <1>3, <1>4, <1>5, <1>6, <1>7, <1>8, <1>9 DEF CallStep

LEMMA FlightStepTyped ==
  ASSUME TypeOK, Carried, NEW p \in Pages,
         \/ FlightStep(p)
         \/ RefreshLost(p)
         \/ RefreshFailsHalfway(p)
  PROVE  TypeOK'
<1>1. flight[p] \in Flight /\ NoToken \in Pair
  BY DEF TypeOK, Pair
<1>2. ASSUME NEW s \in Pair, Answered(p, s)
      PROVE  flight' \in [Pages -> Flight]
  BY <1>1, <1>2, FlightFields DEF Answered, TypeOK
<1>3. CASE ServeRefresh(p)
  <2> PICK s \in Pair : Rotate(flight[p].token, s) /\ Answered(p, s)
    BY <1>3 DEF ServeRefresh
  <2>1. flight[p].token \in Tokens
    BY <1>3 DEF ServeRefresh, Carried
  <2> QED BY <1>2, <1>3, <2>1, RotateTyped DEF ServeRefresh, TypeOK, shown, memory
<1>4. CASE RefreshLost(p)
  BY <1>1, <1>2, <1>4 DEF RefreshLost, TypeOK, server, shown, memory
<1>5. CASE RefreshFailsHalfway(p)
  <2>1. flight[p].token \in Tokens
    BY <1>5 DEF RefreshFailsHalfway, Carried
  <2> QED BY <1>1, <1>2, <1>5, <2>1, ServerTyped DEF RefreshFailsHalfway, TypeOK, shown, memory
<1>6. CASE RefreshSucceeded(p)
  <2>1. flight[p].answer \in Pair
    BY <1>1, FlightFields
  <2>2. flight' \in [Pages -> Flight]
    BY <1>6, NoneTyped DEF RefreshSucceeded, TypeOK
  <2>3. \A s \in Slots : call[p][s] \in Call
    BY DEF TypeOK
  <2>4. call' \in [Pages -> [Slots -> Call]]
    BY <1>6, <2>1, <2>3, SentTyped DEF RefreshSucceeded, TypeOK
  <2>5. stored' \in Pair
    BY <1>6, <2>1 DEF RefreshSucceeded, StoredAfter, TypeOK
  <2>6. /\ access' \in [Pages -> Pair] /\ refresh' \in [Pages -> Pair]
        /\ mode' \in [Pages -> {"closed", "restoring", "guest", "authenticated"}]
        /\ user' \in [Pages -> Users \cup {NoUser}]
        /\ expiredNote' \in [Pages -> BOOLEAN]
        /\ wasIn' \in SUBSET Pages
    <3>1. access' = [access EXCEPT ![p] = flight[p].answer]
          /\ refresh' = [refresh EXCEPT ![p] = flight[p].answer]
      BY <1>6 DEF RefreshSucceeded
    <3>2. \/ UNCHANGED shown
          \/ /\ mode' = [mode EXCEPT ![p] = "authenticated"]
             /\ expiredNote' = [expiredNote EXCEPT ![p] = FALSE]
             /\ wasIn' = wasIn \cup {p}
             /\ UNCHANGED user
      BY <1>6 DEF RefreshSucceeded
    <3> QED BY <2>1, <3>1, <3>2 DEF TypeOK, shown
  <2> QED BY <1>6, <2>2, <2>4, <2>5, <2>6 DEF RefreshSucceeded, TypeOK, server
<1>7. CASE RefreshFailed(p)
  <2>1. flight' \in [Pages -> Flight]
    BY <1>7, NoneTyped DEF RefreshFailed, TypeOK
  <2>2. \A s \in Slots : call[p][s] \in Call
    BY DEF TypeOK
  <2>3. call' \in [Pages -> [Slots -> Call]]
    BY <1>7, <2>2, NoneTyped DEF RefreshFailed, TypeOK
  <2> QED BY <1>7, <2>1, <2>3, ClearTyped DEF RefreshFailed, TypeOK, server
<1> QED BY <1>3, <1>4, <1>5, <1>6, <1>7 DEF FlightStep

(* The rest of a page: the user's gestures, time, and the network.         *)
LEMMA OtherStepTyped ==
  ASSUME TypeOK, Carried,
         \/ \E p \in Pages : Load(p)
         \/ \E p \in Pages, s \in Slots : Send(p, s) \/ CallFails(p, s)
         \/ \E t \in Tokens : AccessLapses(t) \/ ServeOrphan(t)
  PROVE  TypeOK'
<1>1. CASE \E p \in Pages : Load(p)
  BY <1>1, LoadTyped DEF Carried
<1>2. ASSUME NEW p \in Pages, NEW s \in Slots, Send(p, s)
      PROVE  TypeOK'
  <2>1. access[p] \in Pair
    BY DEF TypeOK
  <2> QED BY <1>2, <2>1, SentTyped, OneCall, CallsOnly DEF Send
<1>3. ASSUME NEW p \in Pages, NEW s \in Slots, CallFails(p, s)
      PROVE  TypeOK'
  <2>1. call[p][s] \in Call
    BY DEF TypeOK
  <2>2. [call[p][s] EXCEPT !.st = "done"] \in Call
    BY <2>1, CallFields
  <2>3. call' = [call EXCEPT ![p][s] = IF s = "signOut" THEN [call[p][s] EXCEPT !.st = "done"]
                                                         ELSE NoCall]
    BY <1>3 DEF CallFails, TypeOK
  <2> QED BY <1>3, <2>2, <2>3, NoneTyped, OneCall, CallsOnly DEF CallFails
<1>4. ASSUME NEW t \in Tokens, AccessLapses(t)
      PROVE  TypeOK'
  BY <1>4 DEF AccessLapses, TypeOK, server, shown, memory
<1>5. ASSUME NEW t \in Tokens, ServeOrphan(t)
      PROVE  TypeOK'
  BY <1>5, RotateTyped DEF ServeOrphan, TypeOK, shown, memory
<1> QED BY <1>1, <1>2, <1>3, <1>4, <1>5

(* The steps of a specification of this module.                            *)
LEMMA Cases ==
  ASSUME Next
  PROVE  \/ \E p \in Pages : Load(p)
         \/ \E p \in Pages, s \in Slots : Send(p, s)
         \/ \E p \in Pages, s \in Slots : CallFails(p, s)
         \/ \E p \in Pages, s \in Slots : CallStep(p, s)
         \/ \E p \in Pages : FlightStep(p) \/ RefreshLost(p) \/ RefreshFailsHalfway(p)
         \/ \E t \in Tokens : AccessLapses(t)
         \/ \E t \in Tokens : ServeOrphan(t)
  BY Requests DEF Next, Stay, Faults, Orphans, FirstLoad, Reload, SendSignIn, SendSignOut, SendQuery

(* A call that ends leaves no sign-in answered but the one there was.      *)
LEMMA Ended ==
  ASSUME TypeOK, NEW p \in Pages, NEW s \in Slots, NEW q \in Pages,
         call' = [call EXCEPT ![p][s] = NoCall]
  PROVE  call'[q]["signIn"] \in {call[q]["signIn"], NoCall}
  BY Requests DEF TypeOK

(* A sign-in that is answered after a step was so before it, or the step   *)
(* is the answer.                                                          *)
LEMMA SignInKept ==
  ASSUME TypeOK, Next, NEW q \in Pages, call'[q]["signIn"].st = "done"
  PROVE  \/ call'[q]["signIn"] = call[q]["signIn"]
         \/ \E u \in Users, t \in Tokens : SignInAccepted(q, u, t) /\ call'[q]["signIn"].got = t
<1>0. call[q]["signIn"] \in Call
  BY Requests DEF TypeOK
<1>1. ASSUME NEW p \in Pages, Load(p)
      PROVE  call'[q]["signIn"] = call[q]["signIn"]
  BY <1>1, Requests, SentFields DEF Load, TypeOK
<1>2. ASSUME NEW p \in Pages, NEW s \in Slots, Send(p, s)
      PROVE  call'[q]["signIn"] = call[q]["signIn"]
  BY <1>2, Requests, SentFields DEF Send, TypeOK
<1>3. ASSUME NEW p \in Pages, NEW s \in Slots, CallFails(p, s)
      PROVE  call'[q]["signIn"] = call[q]["signIn"]
  <2>1. call'[q]["signIn"] \in {call[q]["signIn"], NoCall}
    BY <1>3, Requests DEF CallFails, TypeOK
  <2> QED BY <2>1, SentFields
<1>4. ASSUME NEW p \in Pages, NEW s \in Slots, CallStep(p, s)
      PROVE  \/ call'[q]["signIn"] = call[q]["signIn"]
             \/ \E u \in Users, t \in Tokens : SignInAccepted(q, u, t) /\ call'[q]["signIn"].got = t
  <2>1. CASE Serve(p, s)
    BY <2>1, Requests DEF Serve, TypeOK
  <2>2. CASE RetryRefused(p, s) \/ NothingToRefresh(p, s)
    <3>1. call' = [call EXCEPT ![p][s] = NoCall]
      BY <2>2 DEF RetryRefused, NothingToRefresh
    <3> QED BY <3>1, Ended, SentFields
  <2>3. CASE AwaitRefresh(p, s)
    <3>1. call' = [call EXCEPT ![p][s].st = "waiting"]
      BY <2>3 DEF AwaitRefresh
    <3> QED BY <3>1, <1>0, Requests DEF TypeOK, Call
  <2>4. CASE s \in Queries /\ QueryDone(p, s)
    BY <2>4, Ended, SentFields DEF QueryDone
  <2>5. CASE SignInRefused(p)
    <3>1. call' = [call EXCEPT ![p]["signIn"].st = "refused"]
      BY <2>5 DEF SignInRefused
    <3> QED BY <3>1, <1>0, Requests DEF TypeOK, Call
  <2>6. CASE SignedIn(p) \/ SignedOut(p)
    <3>1. PICK x \in {"signIn", "signOut"} : call' = [call EXCEPT ![p][x] = NoCall]
      BY <2>6 DEF SignedIn, SignedOut
    <3>2. call'[q]["signIn"] \in {call[q]["signIn"], NoCall}
      BY <3>1, Ended, Requests
    <3> QED BY <3>2, SentFields
  <2>7. CASE \E u \in Users, t \in Tokens : SignInAccepted(p, u, t)
    <3> PICK u \in Users, t \in Tokens : SignInAccepted(p, u, t)
      BY <2>7
    <3>1. call' = [call EXCEPT ![p]["signIn"] = [call[p]["signIn"] EXCEPT !.st = "done", !.got = t]]
      BY Requests DEF SignInAccepted, TypeOK
    <3>2. p # q => call'[q]["signIn"] = call[q]["signIn"]
      BY <3>1, Requests DEF TypeOK
    <3>3. p = q => call'[q]["signIn"].got = t
      BY <3>1, <1>0, Requests DEF TypeOK, Call
    <3> QED BY <3>2, <3>3
  <2> QED BY <1>4, <2>1, <2>2, <2>3, <2>4, <2>5, <2>6, <2>7 DEF CallStep
<1>5. ASSUME NEW p \in Pages, FlightStep(p) \/ RefreshLost(p) \/ RefreshFailsHalfway(p)
      PROVE  call'[q]["signIn"] = call[q]["signIn"]
  <2>1. CASE RefreshSucceeded(p)
    <3>1. \/ call'[q]["signIn"] = call[q]["signIn"]
          \/ call'[q]["signIn"] = [NoCall EXCEPT !.st = "sent", !.with = flight[p].answer, !.retry = TRUE]
      BY <2>1, Requests DEF RefreshSucceeded, TypeOK
    <3> QED BY <3>1, SentFields
  <2>2. CASE RefreshFailed(p)
    <3>1. call'[q]["signIn"] \in {call[q]["signIn"], NoCall}
      BY <2>2, Requests DEF RefreshFailed, TypeOK
    <3> QED BY <3>1, SentFields
  <2> QED BY <1>5, <2>1, <2>2 DEF FlightStep, ServeRefresh, RefreshLost, RefreshFailsHalfway
<1>6. ASSUME NEW t \in Tokens, AccessLapses(t) \/ ServeOrphan(t)
      PROVE  call'[q]["signIn"] = call[q]["signIn"]
  BY <1>6 DEF AccessLapses, ServeOrphan
<1> QED BY <1>1, <1>2, <1>3, <1>4, <1>5, <1>6, Cases

(* A refresh that is sent after a step was so before it, or carries the    *)
(* token the page, or localStorage, holds.                                 *)
LEMMA FlightKept ==
  ASSUME TypeOK, Next, NEW q \in Pages, flight'[q].st = "sent"
  PROVE  \/ flight'[q] = flight[q]
         \/ flight'[q].token = refresh[q] /\ refresh[q] # NoToken
         \/ flight'[q].token = stored /\ stored # NoToken
<1>0. flight[q] \in Flight
  BY DEF TypeOK
<1>1. ASSUME NEW p \in Pages, Load(p)
      PROVE  \/ flight'[q] = flight[q]
             \/ flight'[q].token = stored /\ stored # NoToken
  <2>1. \/ flight' = [flight EXCEPT ![p] = NoFlight]
        \/ /\ stored # NoToken
           /\ flight' = [flight EXCEPT ![p] = [NoFlight EXCEPT !.st = "sent", !.token = stored]]
    BY <1>1 DEF Load
  <2> QED BY <2>1, SentFields DEF TypeOK
<1>2. ASSUME NEW p \in Pages, NEW s \in Slots, CallStep(p, s)
      PROVE  \/ flight'[q] = flight[q]
             \/ flight'[q].token = refresh[q] /\ refresh[q] # NoToken
  <2>1. CASE AwaitRefresh(p, s)
    <3>1. \/ flight' = flight
          \/ /\ refresh[p] # NoToken
             /\ flight' = [flight EXCEPT ![p] = [NoFlight EXCEPT !.st = "sent", !.token = refresh[p]]]
      BY <2>1 DEF AwaitRefresh
    <3>2. \/ flight'[q] = flight[q]
          \/ /\ refresh[q] # NoToken
             /\ flight'[q] = [NoFlight EXCEPT !.st = "sent", !.token = refresh[q]]
      BY <3>1 DEF TypeOK
    <3> QED BY <3>2, SentFields
  <2> QED BY <1>2, <2>1 DEF CallStep, Serve, RetryRefused, NothingToRefresh, QueryDone,
             SignInRefused, SignedIn, SignInAccepted, SignedOut
<1>3. ASSUME NEW p \in Pages, FlightStep(p) \/ RefreshLost(p) \/ RefreshFailsHalfway(p)
      PROVE  flight'[q] = flight[q]
  <2>1. ASSUME NEW s \in Pair, Answered(p, s)
        PROVE  flight'[q] = flight[q]
    <3>1. flight'[q] = flight[q] \/ flight'[q] = [flight[q] EXCEPT !.st = "answered", !.answer = s]
      BY <2>1 DEF Answered, TypeOK
    <3> QED BY <1>0, <3>1, AnsweredFields
  <2>2. ASSUME flight' = [flight EXCEPT ![p] = NoFlight]
        PROVE  flight'[q] = flight[q]
    BY <2>2, SentFields DEF TypeOK
  <2>3. NoToken \in Pair
    BY DEF Pair
  <2> QED BY <1>3, <2>1, <2>2, <2>3 DEF FlightStep, ServeRefresh, RefreshLost,
             RefreshFailsHalfway, RefreshSucceeded, RefreshFailed
<1>4. ASSUME \/ \E p \in Pages, s \in Slots : Send(p, s) \/ CallFails(p, s)
             \/ \E t \in Tokens : AccessLapses(t) \/ ServeOrphan(t)
      PROVE  flight'[q] = flight[q]
  BY <1>4 DEF Send, CallFails, AccessLapses, ServeOrphan
<1> QED BY <1>1, <1>2, <1>3, <1>4, Cases

LEMMA CarriedStep ==
  ASSUME TypeOK, Carried, Next
  PROVE  Carried'
<1>1. ASSUME NEW q \in Pages, flight'[q].st = "sent"
      PROVE  flight'[q].token \in Tokens
  <2>1. refresh[q] \in Pair /\ stored \in Pair
    BY DEF TypeOK
  <2> QED BY <1>1, <2>1, FlightKept DEF Carried, Pair
<1>2. ASSUME NEW q \in Pages, call'[q]["signIn"].st = "done"
      PROVE  call'[q]["signIn"].got \in Tokens
  BY <1>2, SignInKept DEF Carried
<1> QED BY <1>1, <1>2 DEF Carried

LEMMA TypeStep ==
  ASSUME TypeOK /\ Carried, [Next]_vars
  PROVE  (TypeOK /\ Carried)'
<1>1. CASE Next
  BY <1>1, Cases, CallStepTyped, FlightStepTyped, OtherStepTyped, CarriedStep
<1>2. CASE UNCHANGED vars
  BY <1>2 DEF vars, TypeOK, Carried
<1> QED BY <1>1, <1>2

LEMMA TypeInit == Init => TypeOK /\ Carried
<1>1. NoToken \in Pair
  BY DEF Pair
<1>2. Init => TypeOK
  BY <1>1, NoneTyped DEF Init, TypeOK, Server!Init
<1>3. Init => Carried
  BY Requests DEF Init, Carried, NoFlight, NoCall
<1> QED BY <1>2, <1>3

(* The page's variables keep their types: a retry, a sign-in or a silent   *)
(* refresh never installs a token that was not issued, nor the user of no  *)
(* token.                                                                  *)
THEOREM PageTypeCorrect == Spec => []TypeOK
  BY TypeInit, TypeStep, PTL DEF Spec

(***************************************************************************)
(* One page that is not reloaded                                           *)
(***************************************************************************)
(* The invariant.  What the page holds, or is about to hold, works; but    *)
(* between the server's rotation and the end of the refresh it may hold    *)
(* the token that was rotated, which the end of the refresh overwrites or  *)
(* drops.  A pair a sign-in was answered with is of none of those, so that *)
(* a refresh that goes on beside the sign-in cannot revoke it.             *)
Working(t) == t \in Tokens /\ status[t] = "live"
Issued(t)  == t \in Tokens => status[t] # "absent"

RefreshSound(p) ==
    /\ flight[p].st = "none" => refresh[p] = NoToken \/ Working(refresh[p])
    /\ flight[p].st = "sent" => Working(flight[p].token)
    /\ flight[p].st = "answered" => flight[p].answer = NoToken \/ Working(flight[p].answer)
    /\ Issued(refresh[p]) /\ Issued(stored)

SignInSound(p) ==
    call[p]["signIn"].st = "done" =>
        /\ Working(call[p]["signIn"].got)
        /\ call[p]["signIn"].got # refresh[p]
        /\ flight[p].st = "sent" => call[p]["signIn"].got # flight[p].token
        /\ flight[p].st = "answered" => call[p]["signIn"].got # flight[p].answer

StorageSound(p) ==
    /\ mode[p] # "restoring"
    /\ mode[p] \in {"closed", "guest"} => stored = NoToken
    /\ user[p] # NoUser => stored # NoToken /\ owner[stored] = user[p]

PageInv == \A p \in Pages : RefreshSound(p) /\ SignInSound(p) /\ StorageSound(p)

SessionInv == TypeOK /\ Carried /\ PageInv

(* What a step of the server leaves of the tokens that were issued.        *)
LEMMA ServerKeeps ==
  ASSUME TypeOK
  PROVE  /\ \A u \in Users, t \in Tokens : Server!Open(u, t) =>
               /\ Working(t)' /\ status[t] = "absent"
               /\ \A x \in Tokens : status[x] # "absent" =>
                     status'[x] = status[x] /\ owner'[x] = owner[x]
         /\ \A t, s \in Tokens : Server!Replace(t, s) =>
               /\ Working(s)' /\ status[s] = "absent"
               /\ \A x \in Tokens : status[x] # "absent" =>
                     /\ status'[x] # "absent" /\ owner'[x] = owner[x]
                     /\ x # t => status'[x] = status[x]
         /\ \A t \in Tokens : Server!Lose(t) =>
               \A x \in Tokens : status[x] # "absent" =>
                     /\ status'[x] # "absent" /\ owner'[x] = owner[x]
                     /\ x # t => status'[x] = status[x]
  BY DEF TypeOK, Working, Server!Open, Server!Replace, Server!Lose

(* Where the server does nothing, no sign-in is answered.                  *)
LEMMA QuietSignIn ==
  ASSUME TypeOK, Next, UNCHANGED server, NEW p \in Pages, call'[p]["signIn"].st = "done"
  PROVE  call'[p]["signIn"] = call[p]["signIn"]
<1>1. ASSUME NEW u \in Users, NEW t \in Tokens, SignInAccepted(p, u, t)
      PROVE  FALSE
  BY <1>1 DEF SignInAccepted, Server!Open, server, TypeOK
<1> QED BY <1>1, SignInKept

(* A step that changes calls only.                                         *)
LEMMA CallsOnlyInv ==
  ASSUME SessionInv, Next, NEW p \in Pages,
         UNCHANGED <<server, stored, shown, memory, flight>>
  PROVE  (RefreshSound(p) /\ SignInSound(p) /\ StorageSound(p))'
<1>1. call'[p]["signIn"].st = "done" => call'[p]["signIn"] = call[p]["signIn"]
  BY QuietSignIn DEF SessionInv
<1>2. RefreshSound(p) /\ SignInSound(p) /\ StorageSound(p)
  BY DEF SessionInv, PageInv
<1>3. RefreshSound(p)'
  BY <1>2 DEF RefreshSound, Working, Issued, server, memory
<1>4. SignInSound(p)'
  BY <1>1, <1>2 DEF SignInSound, Working, server, memory
<1>5. StorageSound(p)'
  BY <1>2 DEF StorageSound, server, shown
<1> QED BY <1>3, <1>4, <1>5

(* Ending the session, with no refresh in flight or beside one that was    *)
(* sent.                                                                   *)
LEMMA ClearInv ==
  ASSUME SessionInv, Next, NEW p \in Pages, NEW note, ClearLocalSession(p, note),
         UNCHANGED server,
         flight'[p] \in {flight[p], NoFlight}
  PROVE  (RefreshSound(p) /\ SignInSound(p) /\ StorageSound(p))'
<1>1. call'[p]["signIn"].st = "done" => call'[p]["signIn"] = call[p]["signIn"]
  BY QuietSignIn DEF SessionInv
<1>2. RefreshSound(p) /\ SignInSound(p) /\ StorageSound(p)
  BY DEF SessionInv, PageInv
<1>3. /\ refresh'[p] = NoToken /\ stored' = NoToken /\ user'[p] = NoUser /\ mode'[p] = "guest"
      /\ NoToken \notin Tokens
  BY NoTokenAssumption DEF ClearLocalSession, SessionInv, TypeOK
<1>4. RefreshSound(p)'
  BY <1>2, <1>3, SentFields DEF RefreshSound, Working, Issued, server
<1>5. SignInSound(p)'
  BY <1>1, <1>2, <1>3, SentFields DEF SignInSound, Working, server
<1>6. StorageSound(p)'
  BY <1>3 DEF StorageSound
<1> QED BY <1>4, <1>5, <1>6

LEMMA FirstLoadInv ==
  ASSUME SessionInv, NEW p \in Pages, FirstLoad(p)
  PROVE  (RefreshSound(p) /\ SignInSound(p) /\ StorageSound(p))'
<1>1. stored = NoToken /\ NoToken \notin Tokens
  BY NoTokenAssumption DEF FirstLoad, SessionInv, PageInv, StorageSound
<1>2. /\ call' = [call EXCEPT ![p] = [s \in Slots |-> NoCall]]
      /\ flight' = [flight EXCEPT ![p] = NoFlight]
      /\ refresh' = [refresh EXCEPT ![p] = NoToken]
      /\ stored' = NoToken
      /\ mode' = [mode EXCEPT ![p] = "guest"] /\ user' = [user EXCEPT ![p] = NoUser]
  BY <1>1 DEF FirstLoad, Load
<1>3. /\ call'[p]["signIn"].st = "idle" /\ flight'[p].st = "none" /\ refresh'[p] = NoToken
      /\ mode'[p] = "guest" /\ user'[p] = NoUser
  BY <1>2, SentFields, Requests DEF SessionInv, TypeOK
<1> QED BY <1>1, <1>2, <1>3 DEF RefreshSound, SignInSound, StorageSound, Issued, Working

LEMMA AwaitRefreshInv ==
  ASSUME SessionInv, Next, NEW p \in Pages, NEW s \in Slots, AwaitRefresh(p, s)
  PROVE  (RefreshSound(p) /\ SignInSound(p) /\ StorageSound(p))'
<1>0. RefreshSound(p) /\ SignInSound(p) /\ StorageSound(p)
  BY DEF SessionInv, PageInv
<1>1. \/ flight' = flight
      \/ /\ flight[p].st = "none" /\ refresh[p] # NoToken
         /\ flight' = [flight EXCEPT ![p] = [NoFlight EXCEPT !.st = "sent", !.token = refresh[p]]]
  BY DEF AwaitRefresh, InFlight
<1>2. \/ flight'[p] = flight[p]
      \/ /\ flight[p].st = "none" /\ refresh[p] # NoToken
         /\ flight'[p].st = "sent" /\ flight'[p].token = refresh[p]
  <2>1. \/ flight'[p] = flight[p]
        \/ /\ flight[p].st = "none" /\ refresh[p] # NoToken
           /\ flight'[p] = [NoFlight EXCEPT !.st = "sent", !.token = refresh[p]]
    BY <1>1 DEF SessionInv, TypeOK
  <2> QED BY <2>1, SentFields
<1>3. call'[p]["signIn"].st = "done" => call'[p]["signIn"] = call[p]["signIn"]
  BY QuietSignIn DEF SessionInv, AwaitRefresh
<1>4. UNCHANGED <<status, owner, stored, mode, user, refresh>>
  BY DEF AwaitRefresh, server, shown, memory
<1>5. RefreshSound(p)'
  BY <1>0, <1>2, <1>4 DEF RefreshSound, Working, Issued
<1>6. SignInSound(p)'
  BY <1>0, <1>2, <1>3, <1>4 DEF SignInSound, Working
<1>7. StorageSound(p)'
  BY <1>0, <1>4 DEF StorageSound
<1> QED BY <1>5, <1>6, <1>7

(* The pair replaces whatever the page holds, also while a refresh of an   *)
(* older token is in flight.                                               *)
LEMMA SignedInInv ==
  ASSUME SessionInv, NEW p \in Pages, SignedIn(p)
  PROVE  (RefreshSound(p) /\ SignInSound(p) /\ StorageSound(p))'
<1> DEFINE t == call[p]["signIn"].got
<1>0. RefreshSound(p) /\ SignInSound(p) /\ StorageSound(p)
  BY DEF SessionInv, PageInv
<1>1. t \in Tokens /\ status[t] = "live" /\ t # NoToken
  BY <1>0, NoTokenAssumption DEF SignInSound, Working, SignedIn
<1>2. /\ refresh'[p] = t /\ stored' = t /\ user'[p] = owner[t] /\ mode'[p] = "authenticated"
      /\ call'[p]["signIn"].st = "idle"
      /\ UNCHANGED <<status, owner, flight>>
  BY Requests, SentFields DEF SignedIn, SessionInv, TypeOK, server
<1> HIDE DEF t
<1>3. RefreshSound(p)'
  BY <1>0, <1>1, <1>2 DEF RefreshSound, Working, Issued
<1> QED BY <1>1, <1>2, <1>3 DEF SignInSound, StorageSound

LEMMA SignInAcceptedInv ==
  ASSUME SessionInv, Next, NEW p \in Pages, NEW u \in Users, NEW t \in Tokens,
         SignInAccepted(p, u, t)
  PROVE  (RefreshSound(p) /\ SignInSound(p) /\ StorageSound(p))'
<1>0. RefreshSound(p) /\ SignInSound(p) /\ StorageSound(p)
  BY DEF SessionInv, PageInv
<1>1. Server!Open(u, t) /\ UNCHANGED <<stored, mode, user, refresh, flight>>
  BY DEF SignInAccepted, shown, memory
<1>2. /\ Working(t)' /\ status[t] = "absent"
      /\ \A x \in Tokens : status[x] # "absent" => status'[x] = status[x] /\ owner'[x] = owner[x]
  BY <1>1, ServerKeeps DEF SessionInv
<1>3. call'[p]["signIn"].got = t
  <2>1. call'[p]["signIn"] = [call[p]["signIn"] EXCEPT !.st = "done", !.got = t]
    BY Requests DEF SignInAccepted, SessionInv, TypeOK
  <2>2. call[p]["signIn"] \in Call
    BY Requests DEF SessionInv, TypeOK
  <2> QED BY <2>1, <2>2 DEF Call
<1>4. RefreshSound(p)'
  BY <1>0, <1>1, <1>2 DEF RefreshSound, Working, Issued
<1>5. SignInSound(p)'
  BY <1>0, <1>1, <1>2, <1>3, NoTokenAssumption DEF SignInSound, RefreshSound, Working, Issued
<1>6. StorageSound(p)'
  BY <1>0, <1>1, <1>2 DEF StorageSound, RefreshSound, Issued, SessionInv, TypeOK, Pair
<1> QED BY <1>4, <1>5, <1>6

(* The server answers, fails halfway, or is not heard: the token that was  *)
(* sent may have stopped working, and the page awaits the end.             *)
LEMMA AnsweredInv ==
  ASSUME SessionInv, Next, NEW p \in Pages,
         ServeRefresh(p) \/ RefreshLost(p) \/ RefreshFailsHalfway(p)
  PROVE  (RefreshSound(p) /\ SignInSound(p) /\ StorageSound(p))'
<1>0. RefreshSound(p) /\ SignInSound(p) /\ StorageSound(p)
  BY DEF SessionInv, PageInv
<1>1. flight[p] \in Flight /\ NoToken \in Pair /\ stored \in Pair /\ NoToken \notin Tokens
  BY NoTokenAssumption DEF SessionInv, TypeOK, Pair
<1>2. UNCHANGED <<stored, mode, user, refresh, call>>
  BY DEF ServeRefresh, RefreshLost, RefreshFailsHalfway, shown, memory
<1>3. ASSUME NEW s \in Pair, Answered(p, s)
      PROVE  flight'[p].st = "answered" /\ flight'[p].answer = s
  <2>1. flight'[p] = [flight[p] EXCEPT !.st = "answered", !.answer = s]
    BY <1>3 DEF Answered, SessionInv, TypeOK
  <2> QED BY <1>1, <2>1, AnsweredFields
<1>4. CASE ServeRefresh(p)
  <2> DEFINE t == flight[p].token
  <2>1. flight[p].st = "sent" /\ t \in Tokens /\ status[t] = "live"
    BY <1>0, <1>4 DEF ServeRefresh, RefreshSound, Working
  <2> PICK s \in Pair : Rotate(t, s) /\ Answered(p, s)
    BY <1>4 DEF ServeRefresh
  <2>2. s \in Tokens /\ Server!Replace(t, s)
    BY <2>1 DEF Rotate
  <2>3. flight'[p].st = "answered" /\ flight'[p].answer = s
    BY <1>3
  <2> HIDE DEF t
  <2>4. /\ Working(s)' /\ status[s] = "absent"
        /\ \A x \in Tokens : status[x] # "absent" =>
              /\ status'[x] # "absent" /\ owner'[x] = owner[x]
              /\ x # t => status'[x] = status[x]
    BY <2>1, <2>2, ServerKeeps DEF SessionInv
  <2>5. RefreshSound(p)'
    BY <1>0, <1>2, <2>3, <2>4 DEF RefreshSound, Issued
  <2>6. SignInSound(p)'
    BY <1>0, <1>2, <2>1, <2>3, <2>4 DEF SignInSound, Working, t
  <2>7. StorageSound(p)'
    BY <1>0, <1>1, <1>2, <2>4 DEF StorageSound, RefreshSound, Issued, Pair
  <2> QED BY <2>5, <2>6, <2>7
<1>5. CASE RefreshFailsHalfway(p)
  <2> DEFINE t == flight[p].token
  <2>1. flight[p].st = "sent" /\ t \in Tokens /\ Server!Lose(t)
    BY <1>0, <1>5 DEF RefreshFailsHalfway, RefreshSound, Working
  <2>2. flight'[p].st = "answered" /\ flight'[p].answer = NoToken
    BY <1>1, <1>3, <1>5 DEF RefreshFailsHalfway
  <2> HIDE DEF t
  <2>3. \A x \in Tokens : status[x] # "absent" =>
              /\ status'[x] # "absent" /\ owner'[x] = owner[x]
              /\ x # t => status'[x] = status[x]
    BY <2>1, ServerKeeps DEF SessionInv
  <2>4. RefreshSound(p)'
    BY <1>0, <1>2, <2>2, <2>3 DEF RefreshSound, Issued
  <2>5. SignInSound(p)'
    BY <1>0, <1>1, <1>2, <2>1, <2>2, <2>3 DEF SignInSound, Working, t
  <2>6. StorageSound(p)'
    BY <1>0, <1>1, <1>2, <2>3 DEF StorageSound, RefreshSound, Issued, Pair
  <2> QED BY <2>4, <2>5, <2>6
<1>6. CASE RefreshLost(p)
  <2>1. flight'[p].st = "answered" /\ flight'[p].answer = NoToken
    BY <1>1, <1>3, <1>6 DEF RefreshLost
  <2>2. UNCHANGED <<status, owner>>
    BY <1>6 DEF RefreshLost, server
  <2>3. RefreshSound(p)'
    BY <1>0, <1>2, <2>1, <2>2 DEF RefreshSound, Issued
  <2>4. SignInSound(p)'
    BY <1>0, <1>1, <1>2, <2>1, <2>2 DEF SignInSound, Working
  <2>5. StorageSound(p)'
    BY <1>0, <1>2, <2>2 DEF StorageSound
  <2> QED BY <2>3, <2>4, <2>5
<1> QED BY <1>4, <1>5, <1>6

LEMMA RefreshSucceededInv ==
  ASSUME SessionInv, Next, NEW p \in Pages, RefreshSucceeded(p)
  PROVE  (RefreshSound(p) /\ SignInSound(p) /\ StorageSound(p))'
<1> DEFINE t == flight[p].answer
<1>0. RefreshSound(p) /\ SignInSound(p) /\ StorageSound(p)
  BY DEF SessionInv, PageInv
<1>1. flight[p].st = "answered" /\ Working(t)
  BY <1>0 DEF RefreshSucceeded, RefreshSound
<1>2. /\ flight'[p].st = "none" /\ refresh'[p] = t
      /\ UNCHANGED <<status, owner, stored, mode, user>>
  BY <1>0, SentFields DEF RefreshSucceeded, StoredAfter, StorageSound, SessionInv, TypeOK, server, shown
<1>3. call'[p]["signIn"].st = "done" => call'[p]["signIn"] = call[p]["signIn"]
  BY QuietSignIn DEF SessionInv, RefreshSucceeded
<1>4. call'[p]["signIn"].st = "done" => call[p]["signIn"].got # t
  BY <1>0, <1>1, <1>3 DEF SignInSound
<1> HIDE DEF t
<1>5. RefreshSound(p)'
  BY <1>0, <1>1, <1>2 DEF RefreshSound, Working, Issued
<1>6. SignInSound(p)'
  BY <1>0, <1>2, <1>3, <1>4 DEF SignInSound, Working
<1>7. StorageSound(p)'
  BY <1>0, <1>2 DEF StorageSound
<1> QED BY <1>5, <1>6, <1>7

(* The steps of one page that stays.                                       *)
LEMMA SessionStep ==
  ASSUME NEW p, Pages = {p}, SessionInv, [Stay \/ Faults]_vars
  PROVE  SessionInv'
<1>0. p \in Pages
  OBVIOUS
<1>1. CASE UNCHANGED vars
  BY <1>1 DEF vars, SessionInv, TypeOK, Carried, PageInv, RefreshSound, SignInSound,
              StorageSound, Working, Issued
<1>2. CASE Stay \/ Faults
  <2>1. Next
    BY <1>2 DEF Next
  <2>2. SUFFICES (RefreshSound(p) /\ SignInSound(p) /\ StorageSound(p))'
    <3>1. (TypeOK /\ Carried)'
      BY <2>1, TypeStep DEF SessionInv
    <3> QED BY <3>1 DEF SessionInv, PageInv
  <2>3. CASE FirstLoad(p)
    BY <1>0, <2>3, FirstLoadInv
  <2>4. CASE \E s \in Slots : Send(p, s) \/ CallFails(p, s)
    BY <1>0, <2>1, <2>4, CallsOnlyInv DEF Send, CallFails
  <2>5. CASE \E s \in Slots : CallStep(p, s)
    <3> PICK s \in Slots : CallStep(p, s)
      BY <2>5
    <3>1. CASE Serve(p, s) \/ RetryRefused(p, s) \/ QueryDone(p, s) \/ SignInRefused(p)
      BY <1>0, <2>1, <3>1, CallsOnlyInv DEF Serve, RetryRefused, QueryDone, SignInRefused
    <3>2. CASE AwaitRefresh(p, s)
      BY <1>0, <2>1, <3>2, AwaitRefreshInv
    <3>3. CASE NothingToRefresh(p, s)
      BY <1>0, <2>1, <3>3, ClearInv DEF NothingToRefresh
    <3>4. CASE SignedIn(p)
      BY <1>0, <3>4, SignedInInv
    <3>5. CASE \E u \in Users, t \in Tokens : SignInAccepted(p, u, t)
      BY <1>0, <2>1, <3>5, SignInAcceptedInv
    <3>6. CASE SignedOut(p)
      BY <1>0, <2>1, <3>6, ClearInv DEF SignedOut
    <3> QED BY <3>1, <3>2, <3>3, <3>4, <3>5, <3>6 DEF CallStep
  <2>6. CASE ServeRefresh(p) \/ RefreshLost(p) \/ RefreshFailsHalfway(p)
    BY <1>0, <2>1, <2>6, AnsweredInv
  <2>7. CASE RefreshSucceeded(p)
    BY <1>0, <2>1, <2>7, RefreshSucceededInv
  <2>8. CASE RefreshFailed(p)
    <3>1. flight'[p] = NoFlight
      BY <2>8 DEF RefreshFailed, SessionInv, TypeOK
    <3> QED BY <1>0, <2>1, <2>8, <3>1, ClearInv DEF RefreshFailed
  <2>9. CASE \E t \in Tokens : AccessLapses(t)
    BY <1>0, <2>1, <2>9, CallsOnlyInv DEF AccessLapses
  <2>10. \/ FirstLoad(p)
         \/ \E s \in Slots : Send(p, s) \/ CallFails(p, s)
         \/ \E s \in Slots : CallStep(p, s)
         \/ ServeRefresh(p) \/ RefreshLost(p) \/ RefreshFailsHalfway(p)
         \/ RefreshSucceeded(p) \/ RefreshFailed(p)
         \/ \E t \in Tokens : AccessLapses(t)
    BY <1>2, Requests DEF Stay, Faults, FlightStep, SendSignIn, SendSignOut, SendQuery
  <2> QED BY <2>3, <2>4, <2>5, <2>6, <2>7, <2>8, <2>9, <2>10
<1> QED BY <1>1, <1>2

LEMMA SessionInit == Init => SessionInv
<1> SUFFICES ASSUME Init
             PROVE  SessionInv
  OBVIOUS
<1>1. ASSUME NEW p \in Pages
      PROVE  RefreshSound(p) /\ SignInSound(p) /\ StorageSound(p)
  <2>1. /\ flight[p].st = "none" /\ refresh[p] = NoToken /\ stored = NoToken
        /\ call[p]["signIn"].st = "idle" /\ mode[p] = "closed" /\ user[p] = NoUser
    BY <1>1, Requests, SentFields DEF Init
  <2> QED BY <2>1, NoTokenAssumption DEF RefreshSound, SignInSound, StorageSound, Issued
<1> QED BY <1>1, TypeInit DEF SessionInv, PageInv

(* A page alone in its browser, and not reloaded, keeps SessionInv: its    *)
(* refreshes overlap neither one another nor those of another page.        *)
THEOREM SessionInvariant ==
  ASSUME NEW p, Pages = {p}
  PROVE  StaySpec => []SessionInv
  BY SessionInit, SessionStep, PTL DEF StaySpec

(* Such a page never presents a token that does not work, however its      *)
(* calls, sign-ins and sign-outs overlap and whatever is lost: the reuse   *)
(* detection of the server, which would end every session of the user, is  *)
(* never set off.                                                          *)
THEOREM PresentedWorks ==
  ASSUME NEW p, Pages = {p}
  PROVE  StaySpec => []PresentedTokenWorks
<1>1. SessionInv => PresentedTokenWorks
  BY DEF SessionInv, PageInv, RefreshSound, Working, PresentedTokenWorks
<1> QED BY <1>1, SessionInvariant, PTL

(* And localStorage keeps the session of the user it shows, or nothing,    *)
(* also when a refresh ends after a sign-out or a change of user.          *)
THEOREM StoredMatches ==
  ASSUME NEW p, Pages = {p}
  PROVE  StaySpec => []StoredMatchesShown
<1>1. SessionInv => StoredMatchesShown
  BY DEF SessionInv, PageInv, StorageSound, StoredMatchesShown
<1> QED BY <1>1, SessionInvariant, PTL

=============================================================================
