-------------------------------- MODULE Reads -------------------------------
(***************************************************************************)
(* What the API answers about goals, entries, the budget and the rate      *)
(* while other requests write: goals.service.ts, dashboard.service.ts,     *)
(* budget.service.ts, exchange-rate.service.ts and listForGoal.            *)
(*                                                                         *)
(* The queries of a Promise.all run on separate connections and are not    *)
(* one snapshot.  They are taken when the last of them answers: each sees  *)
(* one of versions, the states the database was in since they were sent.   *)
(* db holds the rows of one user, by whose id every query is keyed.  The   *)
(* writes are those of SavingsLedger and RateSnapshot, a statement each.   *)
(***************************************************************************)
EXTENDS BudgetMath

CONSTANTS
    GoalIds, EntryIds,  \* numbers; an entry's is its rank in creation
    LastDay,            \* days are 0 .. LastDay
    Quote,              \* VND per JPY on each day, what a snapshot stores
    GoalRows, GoalEdits, Targets, Amounts, EntryDates, Settings,    \* what a client may send
    PageSize,           \* entries in a page
    RecentLimit,        \* RECENT_ENTRIES_LIMIT
    MaxOverlap          \* bound on the writes that meet one request

ASSUME ReadsAssumption ==
    /\ Nothing \notin Int /\ GoalIds \subseteq Nat /\ EntryIds \subseteq Nat
    /\ LastDay \in Nat /\ Quote \in [0 .. LastDay -> Nat \ {0}] /\ Targets \subseteq Nat \ {0}
    /\ Amounts \subseteq Nat /\ EntryDates \subseteq Int
    /\ GoalRows \subseteq [target: Targets, currency: Currencies, deadline: OrNothing(Nat)]
    /\ GoalEdits \subseteq [target: Targets, deadline: OrNothing(Nat)]
    /\ Settings \subseteq [income: Int, expenses: Int, currency: Currencies]
    /\ PageSize \in Nat \ {0} /\ MaxOverlap \in Nat

VARIABLES
    db,     \* the rows: goals, entries, settings, rates by day; and today
    req     \* the request in progress

vars == <<db, req>>

Days == 0 .. LastDay

GoalRow  == [target: Targets, currency: Currencies, deadline: OrNothing(Nat)]
EntryRow == [goal: GoalIds, amount: Amounts, date: EntryDates]
Stored   == {s \in Settings : s.income >= 0 /\ s.expenses >= 0}

TypeOK ==
    /\ db.goals \in [GoalIds -> OrNothing(GoalRow)]
    /\ db.entries \in [EntryIds -> OrNothing(EntryRow)]
    /\ db.settings \in OrNothing(Stored)
    /\ db.rates \in [Days -> OrNothing(Range(Quote))]
    /\ db.today \in Days
    /\ req.pc \in {"idle", "goal", "batch", "page", "done"}

Idle == [pc |-> "idle"]

Init ==
    /\ db = [goals |-> [g \in GoalIds |-> Nothing], entries |-> [e \in EntryIds |-> Nothing],
             settings |-> Nothing, rates |-> [d \in Days |-> Nothing], today |-> 0]
    /\ req = Idle

GoalsOf(d)      == {g \in GoalIds : d.goals[g] # Nothing}
EntriesOf(d, g) == {e \in EntryIds : d.entries[e] # Nothing /\ d.entries[e].goal = g}
Saved(d, g)     == MapThenSumSet(LAMBDA e : d.entries[e].amount, EntriesOf(d, g))

(* orderBy entryDate desc, createdAt desc                                  *)
Ahead(d, a, b) ==
    \/ d.entries[a].date > d.entries[b].date
    \/ d.entries[a].date = d.entries[b].date /\ a > b

Newest(d, E) == CHOOSE s \in SetToSeqs(E) : \A i, j \in DOMAIN s : i < j => Ahead(d, s[i], s[j])

(* Mutant: the first snapshot is taken, not the last.                      *)
FirstRate(d) ==
    LET stored == {x \in Days : d.rates[x] # Nothing}
    IN  IF stored = {} THEN Nothing ELSE d.rates[CHOOSE x \in stored : \A y \in stored : x <= y]

(* getLatestSnapshot: the day of the last rate stored                      *)
LatestDay(d) ==
    LET stored == {x \in Days : d.rates[x] # Nothing}
    IN  IF stored = {} THEN Nothing ELSE CHOOSE x \in stored : \A y \in stored : y <= x

(* its rate *)
LatestRate(d) == IF LatestDay(d) = Nothing THEN Nothing ELSE d.rates[LatestDay(d)]

-----------------------------------------------------------------------------
(* Writes of other requests                                                *)

InFlight == req.pc \in {"goal", "batch", "page"}

(* The database becomes d, which changes the rows of the entries in E.     *)
Write(d, E) ==
    /\ db' = d
    /\ IF InFlight
       THEN /\ req.overlaps < MaxOverlap
            /\ req' = [req EXCEPT !.overlaps = @ + 1, !.versions = @ \cup {d}, !.touched = @ \cup E]
       ELSE UNCHANGED req

(* parseDeadline refuses a day that is past.                               *)
Admits(deadline) == deadline # Nothing => deadline >= db.today

CreateGoal(g, row) ==
    /\ db.goals[g] = Nothing /\ Admits(row.deadline)
    /\ Write([db EXCEPT !.goals[g] = row], {})

(* update: what the client sent takes the place of what the row had.       *)
Edited(g, edit) == [db EXCEPT !.goals[g] = [@ EXCEPT !.target = edit.target, !.deadline = edit.deadline]]

EditGoal(g, edit) ==
    /\ db.goals[g] # Nothing /\ Admits(edit.deadline)
    /\ Write(Edited(g, edit), {})

RemoveGoal(g) ==
    /\ db.goals[g] # Nothing
    /\ Write([db EXCEPT !.goals[g] = Nothing,
                        !.entries = [e \in EntryIds |-> IF e \in EntriesOf(db, g) THEN Nothing
                                                        ELSE db.entries[e]]],
             EntriesOf(db, g))

CreateEntry(e, row) ==
    /\ \A x \in EntryIds : x >= e => db.entries[x] = Nothing
    /\ db.goals[row.goal] # Nothing
    /\ Write([db EXCEPT !.entries[e] = row], {e})

(* update: either may be what it was.                                      *)
UpdateEntry(e, amount, date) ==
    /\ db.entries[e] # Nothing
    /\ Write([db EXCEPT !.entries[e] = [@ EXCEPT !.amount = amount, !.date = date]], {e})

RemoveEntry(e) ==
    /\ db.entries[e] # Nothing
    /\ Write([db EXCEPT !.entries[e] = Nothing], {e})

(* Mutant: any number is an amount.                                        *)
UpsertUnchecked(s) == Write([db EXCEPT !.settings = s], {})

(* upsertSettings: amounts that are negative are refused.  The three       *)
(* expenses are one here.                                                  *)
UpsertSettings(s) ==
    /\ s.income >= 0 /\ s.expenses >= 0
    /\ Write([db EXCEPT !.settings = s], {})

StoreSnapshot ==
    /\ db.rates[db.today] = Nothing
    /\ Write([db EXCEPT !.rates[db.today] = Quote[db.today]], {})

NextDay ==
    /\ db.today < LastDay
    /\ Write([db EXCEPT !.today = @ + 1], {})

-----------------------------------------------------------------------------
(* Requests                                                                *)

(* A batch of queries of a request of this kind; first is what it read     *)
(* before: its goal, or the budget settings.                               *)
Batch(kind, first) ==
    [pc |-> "batch", kind |-> kind, first |-> first, versions |-> {db}, overlaps |-> 0, touched |-> {},
     answer |-> Nothing]

Reply(kind, answer) == [pc |-> "done", kind |-> kind, answer |-> answer, versions |-> {db}]

(* GET /goals is the first half of this one.                               *)
GetDashboard == req.pc = "idle" /\ req' = Batch("dashboard", Nothing) /\ UNCHANGED db

(* getAvailable reads the settings first, and is done if there are none.   *)
GetAvailable ==
    /\ req.pc = "idle"
    /\ req' = IF db.settings = Nothing THEN Reply("unconfigured", [status |-> 200])
              ELSE Batch("available", db.settings)
    /\ UNCHANGED db

(* findOne: the row of the goal, and then what goes with it                *)
FindOne(kind, g) ==
    IF db.goals[g] = Nothing THEN Reply(kind, [status |-> 404])
    ELSE Batch(kind, [id |-> g, row |-> db.goals[g]])

GetGoal(g) == req.pc = "idle" /\ req' = FindOne("goal", g) /\ UNCHANGED db

(* Mutant: the row is what it was before the update.                       *)
UpdateFromOldRow(g, edit) ==
    /\ req.pc = "idle" /\ db.goals[g] # Nothing /\ Admits(edit.deadline)
    /\ db' = Edited(g, edit)
    /\ req' = [FindOne("goal", g) EXCEPT !.versions = {db'}]

(* update writes what the client sent, and then answers as findOne.        *)
UpdateGoal(g, edit) ==
    /\ req.pc = "idle" /\ db.goals[g] # Nothing /\ Admits(edit.deadline)
    /\ db' = Edited(g, edit)
    /\ req' = [Batch("goal", g) EXCEPT !.pc = "goal"]

FindUpdated == req.pc = "goal" /\ req' = FindOne("goal", req.first) /\ UNCHANGED db

(* attachProgress: v names the version that each query saw.                *)
ProgressIn(v, G) ==
    [g \in G |-> Progress(v.goals.goals[g], Saved(v.sums, g), db.today, LatestRate(v.rate))]

Totals(progress) ==
    [c \in {progress[g].currency : g \in DOMAIN progress} |->
        LET G == {g \in DOMAIN progress : progress[g].currency = c}
        IN  [saved  |-> MapThenSumSet(LAMBDA g : progress[g].saved, G),
             target |-> MapThenSumSet(LAMBDA g : progress[g].target, G),
             count  |-> Cardinality(G)]]

FirstN(s, n) == SubSeq(s, 1, IF Len(s) < n THEN Len(s) ELSE n)

(* The rate that findAllForUser reads does not reach the available block:  *)
(* getAvailable reads one of its own.                                      *)
Answers(v) ==
    LET progress == ProgressIn(v, GoalsOf(v.goals))
        asOf     == LatestDay(v.asOf)
        list     == [status |-> 200, progress |-> progress, rate |-> LatestRate(v.rate), asOf |-> asOf,
                     more |-> Nothing]
    IN  CASE req.kind = "dashboard" ->
                [list EXCEPT !.more =
                    [totals |-> Totals(progress),
                     recent |-> FirstN(Newest(v.recent, {e \in EntryIds : v.recent.entries[e] # Nothing}),
                                       RecentLimit)]]
          [] req.kind = "goal" ->
                [list EXCEPT !.progress =
                    [g \in {req.first.id} |->
                        Progress(req.first.row, Saved(v.sums, g), db.today, LatestRate(v.rate))]]
          [] req.kind = "available" ->
                LET block == Available(req.first, progress, LatestRate(v.rate))
                IN  [list EXCEPT !.rate = block.rateUsed, !.more = block,
                                 !.asOf = IF block.rateUnavailable THEN Nothing ELSE asOf]

Queries(kind) == {"goals", "sums", "rate", "asOf"} \cup IF kind = "dashboard" THEN {"recent"} ELSE {}

Answer ==
    /\ req.pc = "batch"
    /\ \E v \in [Queries(req.kind) -> req.versions] :
          req' = [req EXCEPT !.pc = "done", !.answer = Answers(v)]
    /\ UNCHANGED db

(* A response has been sent; nothing else happens until then, so that the  *)
(* properties can look at it.                                              *)
Forget == req.pc = "done" /\ req' = Idle /\ UNCHANGED db

-----------------------------------------------------------------------------
(* The rate (exchange-rate.service.ts, exchange-rate.controller.ts): one   *)
(* query each                                                              *)

GetCurrent ==
    /\ req.pc = "idle"
    /\ req' = Reply("current", IF LatestDay(db) = Nothing THEN [status |-> 404]
                               ELSE [status |-> 200, rate |-> LatestRate(db), asOf |-> LatestDay(db),
                                     isStale |-> LatestDay(db) < db.today - 1])
    /\ UNCHANGED db

(* RateConverterService.convert: to whole units, half up                   *)
ConvertToUnits(x, from, to, fx) ==
    IF from = to THEN 100 * Cents(x, 100)
    ELSE IF from = "JPY" THEN 100 * Cents(x * fx, 100) ELSE 100 * Cents(x, 100 * fx)

ConvertAmount(x, from, to) ==
    /\ req.pc = "idle" /\ x > 0
    /\ req' = Reply("convert",
                    CASE from = to -> [status |-> 200, rate |-> Nothing, asOf |-> Nothing,
                                       converted |-> ConvertToUnits(x, from, to, 1)]
                      [] from # to /\ LatestDay(db) = Nothing -> [status |-> 503]
                      [] OTHER -> [status |-> 200, rate |-> LatestRate(db), asOf |-> LatestDay(db),
                                   converted |-> ConvertToUnits(x, from, to, LatestRate(db))])
    /\ UNCHANGED db

(* capturedOn is a column of dates, and since is compared with it as one:  *)
(* the rate of the day n days back is in.                                  *)
Window(n) == {x \in Days : x >= db.today - n /\ db.rates[x] # Nothing}

(* Mutant: a rate less will do.                                            *)
OneShort(points, n) == Cardinality(points) + 1 >= n

(* coverage, 'full' or 'partial'                                           *)
Covered(points, n) == Cardinality(points) >= n

GetHistory(n) ==
    /\ req.pc = "idle"
    /\ req' = Reply("history", [status |-> 200, days |-> n, points |-> Window(n),
                                full |-> Covered(Window(n), n)])
    /\ UNCHANGED db

-----------------------------------------------------------------------------
(* listForGoal, a page at a time.  touched are the entries written since   *)
(* the first page; cut says that a page started from one of them.          *)

StartPaging(g) ==
    /\ req.pc = "idle" /\ db.goals[g] # Nothing
    /\ req' = [Batch("page", g) EXCEPT !.pc = "page", !.answer =
                  [status |-> 200, loaded |-> <<>>, cursor |-> Nothing, cut |-> FALSE]]
    /\ UNCHANGED db

(* Mutant: the row of the cursor is not skipped.                           *)
FromCursor(all, cursor) ==
    IF cursor = Nothing THEN all
    ELSE IF cursor \notin ToSet(all) THEN <<>>
         ELSE SubSeq(all, CHOOSE i \in DOMAIN all : all[i] = cursor, Len(all))

(* What follows the cursor; nothing does if its row is gone.               *)
AfterCursor(all, cursor) ==
    IF cursor = Nothing THEN all
    ELSE IF cursor \notin ToSet(all) THEN <<>>
         ELSE SubSeq(all, 1 + CHOOSE i \in DOMAIN all : all[i] = cursor, Len(all))

LoadPage ==
    LET seen == req.answer
        rows == AfterCursor(Newest(db, EntriesOf(db, req.first)), seen.cursor)
        page == FirstN(rows, PageSize)
        more == Len(rows) > PageSize
    IN  /\ req.pc = "page"
        /\ req' = IF db.goals[req.first] = Nothing THEN Reply("page", [status |-> 404])
                  ELSE [req EXCEPT !.pc = IF more THEN "page" ELSE "done",
                                   !.answer = [status |-> 200, loaded |-> seen.loaded \o page,
                                               cursor |-> IF more THEN Last(page) ELSE Nothing,
                                               cut |-> seen.cut \/ seen.cursor \in req.touched]]
        /\ UNCHANGED db

-----------------------------------------------------------------------------
Writes ==
    \/ \E g \in GoalIds, row \in GoalRows : CreateGoal(g, row)
    \/ \E g \in GoalIds : RemoveGoal(g) \/ \E edit \in GoalEdits : EditGoal(g, edit)
    \/ \E e \in EntryIds, row \in EntryRow : CreateEntry(e, row)
    \/ \E e \in EntryIds, x \in Amounts, d \in EntryDates : UpdateEntry(e, x, d)
    \/ \E e \in EntryIds : RemoveEntry(e)
    \/ \E s \in Settings : UpsertSettings(s)
    \/ StoreSnapshot \/ NextDay

Requests ==
    \/ GetDashboard \/ GetAvailable \/ FindUpdated \/ Answer \/ LoadPage \/ Forget
    \/ \E g \in GoalIds : GetGoal(g) \/ StartPaging(g)
    \/ \E g \in GoalIds, edit \in GoalEdits : UpdateGoal(g, edit)
    \/ GetCurrent \/ \E n \in 1 .. LastDay : GetHistory(n)
    \/ \E x \in Amounts, from, to \in Currencies : ConvertAmount(x, from, to)

Next ==
    \/ Requests
    \/ /\ req.pc # "done"
       /\ Writes

Spec == Init /\ [][Next]_vars

-----------------------------------------------------------------------------
Answered(kinds) == req.pc = "done" /\ req.kind \in kinds /\ req.answer.status = 200

WithGoals == {"dashboard", "goal", "available"}

(* The figures of a goal agree: paying what is suggested until the         *)
(* deadline reaches the target, a unit less would not; the status, the     *)
(* percentage and the remainder say the same.                              *)
ProgressAgrees(p) ==
    /\ p.status = "completed" <=> p.remaining = 0
    /\ p.status = "completed" => p.percent >= 1000 /\ p.monthly \in {0, Nothing}
    /\ p.status = "on_track" <=> p.months # Nothing /\ p.remaining > 0
    /\ p.status = "on_track" => /\ p.monthly * p.months >= p.remaining
                               /\ (p.monthly - Unit) * p.months < p.remaining

(* goal-math.service.ts: every goal of every answer has figures that agree,*)
(* although its row and its sum may come from different moments.           *)
FiguresAgree ==
    Answered(WithGoals) => \A g \in DOMAIN req.answer.progress : ProgressAgrees(req.answer.progress[g])

(* The lines share out exactly the pool, nearest deadline first: no line   *)
(* gets more than it needs, and none anything while one before it lacks.   *)
SharesOut(counted, lines, pool) ==
    /\ MapThenSumSet(LAMBDA i : lines[i].amount, DOMAIN lines) = pool
    /\ \A i \in DOMAIN lines :
          LET need == counted[lines[i].goal].need
          IN  /\ lines[i].amount \in 0 .. need
              /\ lines[i].covered <=> lines[i].amount = need
    /\ \A i, j \in DOMAIN lines :
          i < j => /\ lines[j].amount > 0 => lines[i].covered
                   /\ lines[i].goal # lines[j].goal
                   /\ counted[lines[i].goal].deadline <= counted[lines[j].goal].deadline

(* Every goal is either counted or excluded for the reason its status      *)
(* gives; what is available is what the pool leaves; a month that does not *)
(* reach is shared out; and if a rate is missing, no figure is given.      *)
AddsUp(settings, progress, b) ==
    /\ DOMAIN b.counted \cap DOMAIN b.excluded = {}
    /\ b.rateUnavailable \/ DOMAIN b.counted \cup DOMAIN b.excluded = DOMAIN progress
    /\ \A g \in DOMAIN b.excluded : b.excluded[g] = progress[g].status
    /\ \A g \in DOMAIN b.counted : progress[g].status = "on_track"
    /\ b.rateUnavailable =>
          /\ Nothing = b.totalNeed /\ Nothing = b.allocation
          /\ \E g \in DOMAIN progress : progress[g].currency # settings.currency
    /\ ~b.rateUnavailable =>
          /\ b.available = Pool(settings) - b.totalNeed
          /\ \/ b.allocation = Nothing /\ b.available >= 0 /\ b.shortfall = 0
             \/ /\ b.shortfall = -b.available /\ b.shortfall > 0
                /\ DOMAIN b.counted = {b.allocation[i].goal : i \in DOMAIN b.allocation}
                /\ SharesOut(b.counted, b.allocation, Pool(settings))

(* budget-math.service.ts: the block of every answer adds up, whichever    *)
(* goals, sums and rate its queries saw; without a rate it has no date.    *)
BudgetAddsUp ==
    Answered({"available"}) =>
        /\ AddsUp(req.first, req.answer.progress, req.answer.more)
        /\ req.answer.more.rateUnavailable => req.answer.asOf = Nothing

(* goals.service.ts:52, :68: the queries of a request are not a snapshot.  *)
(* With one write meanwhile, the progress of a goal is still what it was   *)
(* before or after; only a goal deleted meanwhile may seem to have lost    *)
(* its savings.  An update answers with the row as written or later.       *)
FiguresWereTrue ==
    Answered(WithGoals) =>
        \A g \in DOMAIN req.answer.progress :
            LET p == req.answer.progress[g] IN
            \E d \in req.versions :
                \/ d.goals[g] = Nothing
                \/ /\ p.target = d.goals[g].target /\ p.deadline = d.goals[g].deadline
                   /\ p.saved = Saved(d, g)

(* exchange-rate.service.ts: a rate is shown with the day it was stored    *)
(* on, unless a snapshot was stored between the two queries; the answers   *)
(* that take one query never mix two days.  A history that is called full  *)
(* lacks at most one of the days from the one it starts at until today.    *)
RatesAreDated ==
    /\ Answered(WithGoals \cup {"current", "convert"})
          /\ req.answer.rate # Nothing /\ (\A c, d \in req.versions : c.rates = d.rates)
        => req.answer.rate = db.rates[req.answer.asOf]
    /\ Answered({"history"}) /\ req.answer.full
        => \E gap \in 0 .. req.answer.days : \A n \in (0 .. req.answer.days) \ {gap} :
              db.today - n \in req.answer.points

(* savings-entries.service.ts:131: a reader who loads page after page gets *)
(* every entry that nobody touched meanwhile, and no such entry twice,     *)
(* unless a page started from an entry that was moved or deleted.          *)
PagesComplete ==
    Answered({"page"}) /\ ~req.answer.cut =>
        /\ \A i, j \in DOMAIN req.answer.loaded :
              i # j /\ req.answer.loaded[i] = req.answer.loaded[j] => req.answer.loaded[i] \in req.touched
        /\ EntriesOf(db, req.first) \ req.touched \subseteq ToSet(req.answer.loaded)

(* Stated in plans, and not so (section 7 of the README)                   *)

(* plans/260914-1446-budget-allocation/phase-03-backend-budget-endpoints.md*)
(* :144: income less expenses less the needs is what is available.         *)
IncomeReconciles ==
    Answered({"available"}) /\ ~req.answer.more.rateUnavailable
        => req.answer.more.available = req.first.income - req.first.expenses - req.answer.more.totalNeed

(* exchange-rate.service.ts:88: a history with a gap is not called full.   *)
FullHasNoGap ==
    Answered({"history"}) /\ req.answer.full
        => \A x, y \in req.answer.points : x .. y \subseteq req.answer.points

=============================================================================
