-------------------------------- MODULE SignIn -------------------------------
(***************************************************************************)
(* The sign-in pages of the web app at the API of Accounts: login-page.tsx,*)
(* register-page.tsx, google-button.tsx, google-identity.ts and            *)
(* use-auth-success.ts, with the theme of theme-context.tsx.               *)
(*                                                                         *)
(* One action is what runs when one answer arrives, or one gesture, up to  *)
(* the next render.  The callbacks of a request are those of the mutation  *)
(* observer: they run only while the page that sent it is mounted.  Other  *)
(* devices, and requests whose page is gone, are the calls of Accounts     *)
(* that no slot of the page holds.                                         *)
(***************************************************************************)
EXTENDS Accounts

VARIABLES
    route,      \* "login", "register" or "home" (any page behind ProtectedRoute)
    form,       \* the mutation of the page's form, if pending
    google,     \* the mutation of its Google button, if pending
    script,     \* the promise of loadGoogleIdentity
    seen,       \* the theme in the closure that the button's effect has made
    theme,      \* the theme of this browser
    user        \* AuthContext's user

pageVars == <<route, form, google, script, seen, theme, user>>
vars     == <<accountVars, pageVars>>

(* A request, and the theme in the closure that awaits its answer          *)
Pending == [req: Reqs, seen: Themes] \cup {Nothing}

Forms == {"login", "register"}

TypeOK ==
    /\ AccountsTypeOK
    /\ route \in Forms \cup {"home"}
    /\ form \in Pending /\ google \in Pending
    /\ script \in {"none", "loading", "ready", "failed"}
    /\ seen \in Themes /\ theme \in Themes
    /\ user \in Ids \cup {Nothing}

Init ==
    /\ AccountsInit
    /\ route = "login" /\ form = Nothing /\ google = Nothing
    /\ script = "loading" /\ seen = "system" /\ theme = "system"
    /\ user = Nothing

Held == {s.req : s \in {form, google} \ {Nothing}}

-----------------------------------------------------------------------------
(* Pages                                                                   *)

(* Mutant: a request reports to its page although the page is gone.        *)
CallbacksSurvive == UNCHANGED <<form, google>>

(* The observers lose their listeners: what was sent goes on, unheard.     *)
Detach == form' = Nothing /\ google' = Nothing

(* The effect of the Google button, with the theme th: the script is asked *)
(* for once; a promise that is rejected stays so.                          *)
Mount(th) ==
    /\ seen' = th
    /\ script' = IF script = "none" THEN "loading" ELSE script

(* The tabs and links between the two forms                                *)
FollowLink ==
    /\ route \in Forms
    /\ route' \in Forms \ {route}
    /\ Detach /\ Mount(theme)
    /\ UNCHANGED <<accountVars, theme, user>>

(* The effect runs again in the same page, which keeps what it shows.      *)
ChangeLanguage ==
    /\ route \in Forms
    /\ seen' = theme
    /\ UNCHANGED <<accountVars, route, form, google, script, theme, user>>

SetTheme(th) ==
    /\ th # theme
    /\ theme' = th
    /\ UNCHANGED <<accountVars, route, form, google, script, seen, user>>

(* The page is loaded anew: the theme is kept in localStorage, the session *)
(* is restored (WebSession), the promise of the script is not there yet.   *)
Reload ==
    /\ script # "loading"
    /\ Detach
    /\ script' = IF route \in Forms THEN "loading" ELSE "none"
    /\ seen' = theme
    /\ UNCHANGED <<accountVars, route, theme, user>>

ScriptLoaded ==
    /\ script = "loading"
    /\ script' = "ready"
    /\ UNCHANGED <<accountVars, route, form, google, seen, theme, user>>

ScriptFailed ==
    /\ script = "loading"
    /\ script' = "failed"
    /\ UNCHANGED <<accountVars, route, form, google, seen, theme, user>>

-----------------------------------------------------------------------------
(* Submitting                                                              *)

SubmitLogin(r, e, p) ==
    /\ route = "login" /\ form = Nothing
    /\ Login(r, e, p)
    /\ form' = [req |-> r, seen |-> theme]
    /\ UNCHANGED <<route, google, script, seen, theme, user>>

SubmitRegister(r, e, p) ==
    /\ route = "register" /\ form = Nothing
    /\ Register(r, e, p)
    /\ form' = [req |-> r, seen |-> theme]
    /\ UNCHANGED <<route, google, script, seen, theme, user>>

(* Google calls back with a credential.  Its button is hidden while the    *)
(* one before is verified, but the form may be pending.                    *)
ChooseGoogle(r) ==
    /\ route \in Forms /\ script = "ready" /\ google = Nothing
    /\ \/ RefuseCredential(r)
       \/ \E g \in GoogleAccounts : LoginWithGoogle(r, g[1], g[2])
    /\ google' = [req |-> r, seen |-> seen]
    /\ UNCHANGED <<route, form, script, seen, theme, user>>

-----------------------------------------------------------------------------
(* Answers                                                                 *)

(* useAuthSuccess: login(session), the theme of the account unless it is   *)
(* the one this closure was made with, and away from the form              *)
AuthSuccess(slot) ==
    /\ user' = call[slot.req].id
    /\ theme' = IF call[slot.req].theme # slot.seen THEN call[slot.req].theme ELSE theme
    /\ route' = "home"
    /\ Detach
    /\ UNCHANGED <<script, seen>>

FormAnswered ==
    /\ form # Nothing /\ Forget(form.req)
    /\ IF Accepted(form.req) THEN AuthSuccess(form)
       ELSE /\ form' = Nothing
            /\ UNCHANGED <<route, google, script, seen, theme, user>>

GoogleAnswered ==
    /\ google # Nothing /\ Forget(google.req)
    /\ IF Accepted(google.req) THEN AuthSuccess(google)
       ELSE /\ google' = Nothing
            /\ UNCHANGED <<route, form, script, seen, theme, user>>

(* logout() or the end of the session, and back to the login page          *)
SignOut ==
    /\ route = "home"
    /\ user' = Nothing /\ route' = "login"
    /\ Mount(theme)
    /\ UNCHANGED <<accountVars, form, google, theme>>

-----------------------------------------------------------------------------
(* The API; a call that no page waits for is forgotten when it is done.    *)
Serve(r) ==
    /\ Handle(r) \/ Fail(r) \/ (r \notin Held /\ Forget(r))
    /\ UNCHANGED pageVars

OtherDevice ==
    /\ \E u \in Ids, th \in Themes : UpdateProfile(u, th)
    /\ UNCHANGED pageVars

Next ==
    \/ FollowLink \/ ChangeLanguage \/ Reload \/ ScriptLoaded \/ ScriptFailed
    \/ FormAnswered \/ GoogleAnswered \/ SignOut \/ OtherDevice
    \/ \E th \in Themes : SetTheme(th)
    \/ \E r \in Reqs : ChooseGoogle(r) \/ Serve(r)
    \/ \E r \in Reqs, e \in Emails, p \in Passwords : SubmitLogin(r, e, p) \/ SubmitRegister(r, e, p)

Spec == Init /\ [][Next]_vars

-----------------------------------------------------------------------------
(* Who is signed in stays signed in until the session ends: an answer that *)
(* comes after another sign-in of the page changes nothing.                *)
SessionStays == [][user # Nothing /\ user' # user => user' = Nothing /\ route' = "login"]_vars

(* Stated in comments, and not so (section 7 of the README)                *)

(* use-auth-success.ts:28: the theme of the account is adopted on sign-in  *)
(* when it differs from what this browser currently has.                   *)
ThemeAdopted ==
    [][\A slot \in {form, google} \ {Nothing} :
          user = Nothing /\ user' # Nothing /\ call'[slot.req] # call[slot.req]
             => theme' = call[slot.req].theme]_vars

(* login.error.google of the translations asks to try again: a form that   *)
(* is opened after the script has failed asks for it again.                *)
GoogleCanBeRetried ==
    [][FollowLink \/ SignOut => script' # "failed"]_vars

=============================================================================
