------------------------------- MODULE Screens ------------------------------
(***************************************************************************)
(* The signed-in pages of the web app over the query cache: which queries  *)
(* a page mounts, what its writes change at the API and what their hooks   *)
(* invalidate, what the forms keep, and another device writing meanwhile.  *)
(*                                                                         *)
(* A behaviour follows one query, and one goal through its life; the other *)
(* queries may hold anything, and other goals stay.  One action is a       *)
(* gesture, or what one answer causes, up to the next render.              *)
(***************************************************************************)
EXTENDS QueryCache, AmountInput

CONSTANTS
    Writes,     \* bound on the writes under way: one slot each
    Gaps,       \* <<kind, key>>: the write changes the query, its hook is silent
    Nothing

Keys  == {"dashboard", "available", "goal", "entries", "budget", "alerts"}
Pages == {"dashboard", "goal", "newGoal", "split", "budget", "exchange"}
Kinds == {"createEntry", "deleteEntry", "createGoal", "updateGoal", "deleteGoal",
          "split", "splitGoal", "budget", "alert"}

ASSUME GapsAssumption == Gaps \subseteq Kinds \X Keys

VARIABLES
    key,        \* the query followed
    route,      \* a page, "login", or "crashed" after a render has thrown
    goal,       \* the life of the goal followed: "unborn", "alive", "deleted"
    listed,     \* the dashboard data held list it
    listing,    \* the dashboard data on their way list it
    rows,       \* its row in the draft of SplitForm, if that is mounted
    form,       \* EntryForm: its amount, the text while that is edited, and
                \* whether the user has typed it, and it has been sent
    write       \* the writes under way

vars == <<key, query, route, goal, listed, listing, rows, form, write>>

Blank == [value |-> Empty, text |-> Nothing, draft |-> "none"]
Write == [kind : Kinds, stage : {"sent", "done"}, heard : BOOLEAN]

ASSUME NothingAssumption == Nothing \notin Write

TypeOK ==
    /\ key \in Keys /\ query \in Query
    /\ route \in Pages \cup {"login", "crashed"}
    /\ goal \in {"unborn", "alive", "deleted"}
    /\ listed \in BOOLEAN /\ listing \in BOOLEAN
    /\ rows \in {"none", "without", "blank", "filled"}
    /\ rows # "none" => route \in {"split", "crashed"}
    /\ form \in [value : Amount \cup NoNumbers, text : Text \cup NoNumbers \cup {Nothing},
                 draft : {"none", "typed", "sent"}]
    /\ form # Blank => route = "goal"
    /\ write \in [Writes -> Write \cup {Nothing}]

-----------------------------------------------------------------------------
(* What a write changes at the API, and what its hook invalidates          *)

(* The answers that are computed from what the write writes                *)
Changes(kind) ==
    CASE kind \in {"createEntry", "deleteEntry", "deleteGoal", "splitGoal"} ->
             {"goal", "entries", "dashboard", "available"}
      [] kind = "updateGoal" -> {"goal", "dashboard", "available"}
      [] kind \in {"createGoal", "split"} -> {"dashboard", "available"}
      [] kind = "budget" -> {"budget", "available"}
      [] kind = "alert" -> {"alerts"}

(* onSuccess of each hook, which runs also when its page is gone.  Of the  *)
(* goals of a split, splitGoal includes the one that is followed.          *)
EntryViews  == {"goal", "entries", "dashboard"}
GoalViews(kind) == {"dashboard"} \cup IF kind = "updateGoal" THEN {"goal"} ELSE {}
SplitViews(kind) == {"dashboard", "available"} \cup IF kind = "splitGoal" THEN {"goal"} ELSE {}
BudgetViews == {"budget", "available"}
AlertViews  == {"alerts"}

(* Mutant: the hook of the entries leaves the dashboard out.               *)
InvalidatesTwo(kind) ==
    CASE kind \in {"createEntry", "deleteEntry"} -> {"goal", "entries"}
      [] kind \in {"createGoal", "updateGoal", "deleteGoal"} -> GoalViews(kind)
      [] kind \in {"split", "splitGoal"} -> SplitViews(kind)
      [] kind = "budget" -> BudgetViews
      [] kind = "alert"  -> AlertViews

Invalidates(kind) ==
    CASE kind \in {"createEntry", "deleteEntry"} -> EntryViews
      [] kind \in {"createGoal", "updateGoal", "deleteGoal"} -> GoalViews(kind)
      [] kind \in {"split", "splitGoal"} -> SplitViews(kind)
      [] kind = "budget" -> BudgetViews
      [] kind = "alert"  -> AlertViews

Told(kind) == key \in Changes(kind) /\ <<kind, key>> \notin Gaps

(* Of these, a write has changed what is followed, and its answer, which   *)
(* tells the page, is to come.                                             *)
Awaited(writes) ==
    \E w \in writes : write[w] # Nothing /\ write[w].stage = "done" /\ Told(write[w].kind)

-----------------------------------------------------------------------------
(* Pages                                                                   *)

(* The queries that page p mounts.  The card of the available balance comes*)
(* with the data of the dashboard, which is as if the user came then.  The *)
(* queries of the rates read nothing that a write of this app changes.     *)
Mounts(p) ==
    CASE p = "dashboard" -> {"dashboard", "available"}
      [] p = "goal"      -> {"goal", "entries"}
      [] p = "split"     -> {"dashboard"}
      [] p = "budget"    -> {"budget"}
      [] p = "exchange"  -> {"alerts"}
      [] OTHER           -> {}

(* The page of k shows its error, if any, in place of its data; only the   *)
(* entries are listed as long as there are any.                            *)
Shows(k) == key = k => HasData /\ (InError => k = "entries")

(* Mutant: a write reports to its form although the form is gone.          *)
StillHeard(kinds) == write

(* The callbacks given to mutate() run only while their form is mounted.   *)
Unheard(kinds) ==
    [w \in Writes |->
       IF write[w] # Nothing /\ write[w].kind \in kinds THEN [write[w] EXCEPT !.heard = FALSE]
       ELSE write[w]]

(* initialAmounts, when SplitForm mounts: a row for each goal listed,      *)
(* prefilled by the suggestion or not                                      *)
Drafted(isListed) == IF isListed THEN {"blank", "filled"} ELSE {"without"}

(* Page p, over the query as q                                             *)
Enter(p, q) ==
    /\ route' = p /\ form' = Blank
    /\ query' \in IF key \in Mounts(p) THEN {Mounted(q, lapsed) : lapsed \in BOOLEAN} ELSE {q}
    /\ rows' \in IF p = "split" /\ key = "dashboard" /\ q.held # "none" THEN Drafted(listed)
                 ELSE {"none"}

Go(p) ==
    /\ route \in Pages \ {p}
    /\ p = "goal" => goal # "unborn"
    /\ Enter(p, query)
    /\ write' = Unheard(Kinds)
    /\ UNCHANGED <<goal, listed, listing>>

(* The page is loaded anew: its writes go on as those of another device.   *)
Reload ==
    /\ route # "login"
    /\ Enter("dashboard", Unused)
    /\ write' = [w \in Writes |-> Nothing]
    /\ listed' = FALSE /\ listing' = FALSE
    /\ UNCHANGED goal

(* By the button, which clears the cache, or because the session has ended *)
SignOut ==
    /\ route \in Pages
    /\ route' = "login" /\ rows' = "none" /\ form' = Blank
    /\ query' \in {Unused, query}
    /\ write' = Unheard(Kinds)
    /\ UNCHANGED <<goal, listed, listing>>

SignIn ==
    /\ route = "login"
    /\ Enter("dashboard", Unused)
    /\ listed' = FALSE /\ listing' = FALSE
    /\ UNCHANGED <<goal, write>>

-----------------------------------------------------------------------------
(* The query                                                               *)

Read ==
    /\ query.fetch = "sent"
    /\ key \in {"goal", "entries"} => goal = "alive"
    /\ query' = [query EXCEPT !.fetch = "good"]
    /\ listing' = (key = "dashboard" /\ goal = "alive")
    /\ UNCHANGED <<route, goal, listed, rows, form, write>>

(* The answer is rendered.  The rows of SplitForm are the goals listed now,*)
(* its draft those at its mount: a row without a draft throws.             *)
Arrive ==
    /\ query.fetch \in {"good", "late"}
    /\ query' = Answered(query)
    /\ listed' = listing /\ listing' = FALSE
    /\ rows' \in IF route = "split" /\ key = "dashboard" /\ rows = "none" THEN Drafted(listing)
                 ELSE {rows}
    /\ route' = IF rows = "without" /\ listing THEN "crashed" ELSE route
    /\ UNCHANGED <<goal, form, write>>

(* After its one retry.  The goal's page shows the error in place of what  *)
(* it had: what was typed, and the forms that wait for answers, are gone.  *)
GoalError ==
    /\ route = "goal"
    /\ form' = Blank /\ write' = Unheard({"createEntry", "deleteEntry"})

Fail ==
    /\ query.fetch # "idle"
    /\ query' = Failed(query)
    /\ IF key = "goal" /\ route = "goal" THEN GoalError ELSE UNCHANGED <<form, write>>
    /\ UNCHANGED <<route, goal, listed, listing, rows>>

FailUnfollowed ==
    /\ key # "goal" /\ GoalError
    /\ UNCHANGED <<query, route, goal, listed, listing, rows>>

(* "Retry" of ErrorState, which is shown until a fetch succeeds, or the    *)
(* network coming back                                                     *)
Refetch ==
    /\ key \in Mounts(route)
    /\ query.fetch = "idle" \/ (InError /\ key # "entries")
    /\ query' = Refetched(query)
    /\ UNCHANGED <<route, goal, listed, listing, rows, form, write>>

(* "Load more" of EntryHistoryList, disabled only by isFetchingNextPage    *)
LoadMore ==
    /\ key = "entries" /\ route = "goal" /\ HasData /\ ~query.more
    /\ query' = FetchedMore(query, Awaited(Writes))
    /\ UNCHANGED <<route, goal, listed, listing, rows, form, write>>

-----------------------------------------------------------------------------
(* The amount of EntryForm, followed with the goal of its page             *)

FormMounted == key = "goal" /\ route = "goal" /\ Shows("goal")

Edit(f) ==
    /\ FormMounted /\ form' = f
    /\ UNCHANGED <<query, route, goal, listed, listing, rows, write>>

Left(f) == IF f.text = Nothing THEN f ELSE [f EXCEPT !.value = Blurred(f.text), !.text = Nothing]

Focus == form.text = Nothing /\ Edit([form EXCEPT !.text = FocusText(form.value)])
Type(text) == form.text # Nothing /\ Edit([form EXCEPT !.text = text, !.draft = "typed"])
Blur == form.text # Nothing /\ Edit(Left(form))

(* onSuccess: setAmount(''), then focus(), whose handler still has the old *)
(* amount; a field that has the focus already keeps its text.              *)
ResetForm(f) ==
    [value |-> Empty, text |-> IF f.text = Nothing THEN FocusText(f.value) ELSE f.text,
     draft |-> IF f.draft = "sent" THEN "none" ELSE f.draft]

-----------------------------------------------------------------------------
(* Writes                                                                  *)

Pending(kind) == \E w \in Writes : write[w] # Nothing /\ write[w].heard /\ write[w].kind = kind

Send(w, kind) ==
    /\ write[w] = Nothing
    /\ kind # "alert" => ~Pending(kind)
    /\ write' = [write EXCEPT ![w] = [kind |-> kind, stage |-> "sent", heard |-> TRUE]]
    /\ UNCHANGED <<query, route, goal, listed, listing, rows>>

(* handleSubmit of EntryForm, with what f has for the amount               *)
AddEntry(w, f) ==
    /\ route = "goal" /\ Shows("goal")
    /\ key = "goal" => IsAmount(f.value)
    /\ form' = [f EXCEPT !.draft = IF @ = "typed" THEN "sent" ELSE @]
    /\ Send(w, "createEntry")

(* The click takes the focus from the field first; Enter leaves it there.  *)
ClickAdd(w)   == AddEntry(w, Left(form))
PressEnter(w) == form.text # Nothing /\ AddEntry(w, form)

FillRow ==
    /\ rows = "blank" /\ listed
    /\ rows' = "filled"
    /\ UNCHANGED <<query, route, goal, listed, listing, form, write>>

(* The other forms and dialogs, each disabled while its own write is       *)
(* pending; the toggles and buttons of the alerts are not.                 *)
EntryDialog    == route = "goal" /\ Shows("goal") /\ Shows("entries")
GoalPageForms  == route = "goal" /\ Shows("goal")
NewGoalForm    == route = "newGoal"
BudgetSettings == route = "budget" /\ Shows("budget")
AlertsList     == route = "exchange" /\ Shows("alerts")

(* computeSplitSummary: some row is filled; whether the goal's is, rows    *)
(* tells.                                                                  *)
SplitTable(filled) == route = "split" /\ (key = "dashboard" => rows \in filled)

Offers(kind) ==
    CASE kind = "deleteEntry" -> EntryDialog
      [] kind \in {"updateGoal", "deleteGoal"} -> GoalPageForms
      [] kind = "createGoal"  -> NewGoalForm
      [] kind = "split"       -> SplitTable({"without", "blank"})
      [] kind = "splitGoal"   -> SplitTable({"filled"})
      [] kind = "budget"      -> BudgetSettings
      [] kind = "alert"       -> AlertsList
      [] OTHER                -> FALSE

Submit(w, kind) == Offers(kind) /\ Send(w, kind) /\ UNCHANGED form

(* The API carries a write out, if what it is about is there.              *)
CarryOut(kind) ==
    /\ kind \in {"createEntry", "deleteEntry", "updateGoal", "deleteGoal", "splitGoal"} => goal = "alive"
    /\ kind = "createGoal" => goal = "unborn"
    /\ goal' = CASE kind = "createGoal" -> "alive" [] kind = "deleteGoal" -> "deleted" [] OTHER -> goal
    /\ UNCHANGED <<route, listed, listing, rows, form>>

Serve(w) ==
    /\ write[w] # Nothing /\ write[w].stage = "sent"
    /\ CarryOut(write[w].kind)
    /\ query' = IF Told(write[w].kind) THEN Overtaken(query) ELSE query
    /\ write' = [write EXCEPT ![w].stage = "done"]

(* Of the writes of another device only these two are steps.               *)
OtherDevice ==
    /\ CarryOut("createGoal") \/ CarryOut("deleteGoal")
    /\ UNCHANGED <<query, write>>

(* The answer: first the hook invalidates, then the form, if it is still   *)
(* mounted, goes on to its next page or is reset.                          *)
Succeeded(w) ==
    LET kind == write[w].kind
        q    == IF key \in Invalidates(kind)
                THEN Invalidated(query, key \in Mounts(route), Awaited(Writes \ {w})) ELSE query
        next == {"createGoal", "deleteGoal", "split", "splitGoal", "budget"}
    IN  /\ write[w] # Nothing /\ write[w].stage = "done"
        /\ UNCHANGED <<goal, listed, listing>>
        /\ IF write[w].heard /\ kind \in next
           THEN /\ Enter(IF kind = "createGoal" THEN "goal" ELSE "dashboard", q)
                /\ write' = [Unheard(Kinds) EXCEPT ![w] = Nothing]
           ELSE /\ query' = q
                /\ form' = IF write[w].heard /\ kind = "createEntry" /\ key = "goal"
                           THEN ResetForm(form) ELSE form
                /\ write' = [write EXCEPT ![w] = Nothing]
                /\ UNCHANGED <<route, rows>>

(* onError shows a message and leaves the form: the write was refused or   *)
(* never came, or it is done and its answer was lost.                      *)
Errored(w) ==
    /\ write[w] # Nothing
    /\ query' = IF Awaited({w}) /\ ~Awaited(Writes \ {w}) THEN Untold(query) ELSE query
    /\ write' = [write EXCEPT ![w] = Nothing]
    /\ UNCHANGED <<route, goal, listed, listing, rows, form>>

-----------------------------------------------------------------------------
Init ==
    /\ key \in Keys
    /\ route = "dashboard"
    /\ query = IF key \in Mounts("dashboard") THEN Mounted(Unused, FALSE) ELSE Unused
    /\ goal \in {"unborn", "alive"}
    /\ listed = FALSE /\ listing = FALSE
    /\ rows = "none" /\ form = Blank
    /\ write = [w \in Writes |-> Nothing]

Next ==
    /\ UNCHANGED key
    /\ \/ \E p \in Pages : Go(p)
       \/ Reload \/ SignOut \/ SignIn
       \/ Read \/ Arrive \/ Fail \/ FailUnfollowed \/ Refetch \/ LoadMore
       \/ Focus \/ Blur \/ FillRow \/ OtherDevice
       \/ \E text \in Texts : Type(text)
       \/ \E w \in Writes, kind \in Kinds : Submit(w, kind)
       \/ \E w \in Writes : ClickAdd(w) \/ PressEnter(w) \/ Serve(w) \/ Succeeded(w) \/ Errored(w)

Spec == Init /\ [][Next]_vars

-----------------------------------------------------------------------------
(* What a write of this page has changed is shown as it was only while the *)
(* answer of that write is to come, while it is fetched anew, or after the *)
(* fetch has failed; where it is not shown it is marked, to be fetched     *)
(* when it is.  Excepted, until the next full fetch, are what "kept" names:*)
(* data whose write lost its answer; those of a first load, or of the fetch*)
(* of a page that is gone, which the hook of the write finds under way and *)
(* does not cancel; and those to which "Load more" adds a page, in place of*)
(* their refetch.  What a hook does not name, the Gaps, is not told at all.*)
LateIsReplaced ==
    query.held = "late" /\ query.fetch = "idle"
      => \/ Awaited(Writes)
         \/ query.stamp = "error"
         \/ query.stamp = "invalid" /\ key \notin Mounts(route)
         \/ query.kept # "no"

(* Passing through the amount field without typing leaves an amount of at  *)
(* most two decimals as it is, whether or not the product it came from was *)
(* exact.                                                                  *)
VisitKeepsAmount ==
    IsAmount(form.value) /\ form.value.places <= 2 => Blurred(FocusText(form.value)) = form.value

(* Stated in docs and comments, and not so (section 7 of the README)       *)

(* phase-08-goals-ui.md:116: the form is reset when an entry is saved, so  *)
(* that the next entry sent is one that has been typed.                    *)
EachEntryIsTyped ==
    [][\A w \in Writes : key = "goal" /\ write[w] = Nothing /\ write'[w] # Nothing
         => write'[w].kind # "createEntry" \/ form.draft # "none"]_vars

(* amount-input.tsx:30: what the form has is what the field shows.         *)
SentIsShown ==
    [][\A w \in Writes : FormMounted /\ write[w] = Nothing /\ write'[w] # Nothing
         => write'[w].kind # "createEntry" \/ form'.text = Nothing \/ Blurred(form'.text) = form'.value]_vars

(* amount-input.tsx:30: the form carries the plain canonical number, which *)
(* a visit to the field leaves as it is.                                   *)
AnyVisitKeepsAmount == IsAmount(form.value) => Blurred(FocusText(form.value)) = form.value

(* use-entry-mutations.ts:7: once the hook of a write has run, no view goes*)
(* on showing what it was before the write.                                *)
HooksReplace == query.kept # "passed"

(* split-form.tsx:27: goals that are no longer there are dropped, and do   *)
(* not crash the page.                                                     *)
SplitFollowsGoals == route # "crashed" /\ (rows = "filled" => listed)

=============================================================================
