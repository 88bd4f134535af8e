# Okane: specifications

Okane is a savings-goal application for someone who earns in yen and saves towards goals in
yen or dong: a NestJS API over PostgreSQL (`apps/api`) and a React single-page app
(`apps/web`). This directory holds TLA+ modules of the parts of it whose behaviour is more
than a lookup, the TLC configurations that check them, and machine-checked proofs.
Paths below are relative to the repository.

Contents: 1 the system, 2 hazards, 3 modules, 4 runs and bounds, 5 fairness, 6 proofs,
7 where the code does not do what is written about it, 8 what is left out, 9 plan, 10 how to
run.

## 1. The system

| part | state | operations | module |
|---|---|---|---|
| **Refresh tokens**, `apps/api/src/auth/token.service.ts` | table `RefreshToken` (userId, expiresAt, revokedAt) | `issuePair`, `rotate`, `revoke`, `revokeAllForUser` | `TokenService`, `Sessions` |
| **Accounts**, `auth/auth.service.ts`, `google-token.service.ts`, `users/users.service.ts` | table `User` (unique email, unique googleId) | `register`, `login`, `loginWithGoogle` with `resolveGoogleUser`, `linkGoogleId`, `createWithGoogle`; `updateProfile` | `Accounts` |
| **Browser session**, `apps/web/src/lib/api-client.ts`, `contexts/auth-context.tsx` | per page: `accessToken`, `refreshToken`, `refreshInFlight`, `status`, `user`, `sessionExpired`; shared: `localStorage['okane.refresh']` | `request`, `attemptRefresh`/`performRefresh`, boot effect, `login`, `logout`, `clearLocalSession` | `WebSession` |
| **Sign-in pages**, `features/auth/*`, `lib/google-identity.ts`, `contexts/theme-context.tsx` | the pending mutation of each form, the promise of Google's script, the theme, the closures that await an answer | submit, Google's callback, `useAuthSuccess`, links, language, theme, sign-out | `SignIn` over `Accounts` |
| **Goals and entries**, `goals/goals.service.ts`, `savings-entries/*.ts`, `common/currency-conversion.ts` | tables `Goal`, `SavingsEntry` | create, remove a goal; `create`, `createSplit`, `update`, `remove` an entry; `freezeEntryAmount`, `convertAmount` | `SavingsLedger`, `Money` |
| **Goal progress**, `goals/goal-math.service.ts` | none | `computeProgress` | `GoalMath` |
| **Budget**, `budget/*.ts` | table `BudgetSettings` | `upsertSettings`, `getAvailable`, `computeAvailable`, `allocate` | `BudgetMath`, `Reads` |
| **Reads**, `goals.service.ts`, `dashboard.service.ts`, `budget.service.ts`, `exchange-rate.service.ts`, `rate-converter.service.ts`, `listForGoal` | the tables above | dashboard, goal, update of a goal, available balance, current rate, history, conversion, pages of entries | `Reads` |
| **Rate alerts**, `exchange-rate/rate-alerts.service.ts` | table `RateAlert` | `create` (capped), `update`, `remove` | `RateAlerts` |
| **Daily snapshot**, `exchange-rate/rate-snapshot.scheduler.ts`, `rate-alert-evaluator.service.ts`, `rate-provider.client.ts` | table `RateSnapshot` | `runSnapshot` (cron and boot), `evaluate` | `RateSnapshot` |
| **Signed-in pages**, `features/{goals,budget,exchange}`, `lib/query-client.ts`, `components/ui/amount-input.tsx`, `lib/parse-amount.ts` | TanStack Query's cache; the drafts of the forms; the amount field | queries mounted by each page, mutations and what they invalidate, navigation, focus and typing | `Screens`, `QueryCache`, `AmountInput` |
| Framework glue, rendering | | DTO validation, error filter, serializer, i18n, formatting, charts, service worker | not modelled (section 8) |

How they interact:

- The **browser session** calls the API with an access token (15 minutes, stateless) and, on a
  401, presents its refresh token to `POST /auth/refresh`, which **rotates** it. Presenting a
  token that has been rotated away is taken for theft and revokes every session of the user
  (`token.service.ts:78-83`). The client therefore shares one refresh among all concurrent 401s
  (`refreshInFlight`), and boots by refreshing with the token in `localStorage`.
- The **daily snapshot** stores one rate per UTC day and triggers the **alerts** whose threshold
  the rate crossed since the previous snapshot. The stored rate is what **entries** in another
  currency are converted with; the conversion is frozen in the entry.
- **Sign-in** by password or Google ends in `issuePair`. A Google account is found by its id, then
  by its verified email, which links an account that has no Google id yet; a first sign-in that
  loses the race to create looks once more. The page adopts the session, clears the query cache
  and navigates; what else was sent from it goes on unheard.
- **Reads** combine several queries that are not one snapshot, and compute from them: the progress
  of each goal, the totals, and, from the progress of all, what the month leaves and how a month
  that does not reach is shared out.
- The **signed-in pages** show cached answers. Each mutation names the queries it invalidates; what
  no mutation names is shown until it lapses (30 seconds) and the page is entered again.
- All handlers of the API share one process and one database. A handler gives up the event loop
  at every `await`; nothing in the repository uses a lock, and the only transactions are the
  `$transaction([...])` arrays of single statements (`createSplit`).

What makes each part correct:

- *Refresh tokens*: a session has one working token; a replacement never works beside its
  predecessor; a token once stopped never works again; reuse ends every session of that user and
  of nobody else; logout ends its session.
- *Accounts*: a request is let into the account its credentials are for; a Google id, once linked,
  stays; a conflict is answered only where there is one.
- *Browser session*: never sets off the server's reuse detection by itself; keeps the session of
  the user it shows; every call and the silent restore end. *Sign-in pages*: an answer that comes
  late does not replace the session.
- *Ledger*: amount, currency, frozen amount and rate of an entry describe one conversion; the
  entries of a split share one rate; entries stay with a goal of their owner; what is deleted
  stays deleted.
- *Reads*: the figures of an answer agree with each other; those of a goal were true at some moment
  of the request; the budget adds up, and the shares exhaust the pool in order of deadline; a
  reader of pages misses nothing that nobody touched.
- *Alerts*: at most ten a user. *Snapshot*: one row a day, written once; an alert fires once a
  day, exactly when the stored rates crossed its threshold.
- *Signed-in pages*: what a write of this page has changed is fetched anew before it is shown as
  fresh; the amount field keeps the amount that is in it. Neither holds without exceptions, which the
  properties name and section 7 explains.

## 2. Hazards

`PROJECT.json` lists them, each at its line. They are of eight kinds: handlers that read, await
and then act on what they read (rotation, linking a Google account, update of an entry, the cap on
alerts, the daily check); the writes of one handler that are not one transaction (rotation, snapshot
and alerts); queries of one answer that are not one snapshot (dashboard, available balance, pages);
answers that arrive after the state they belong to is gone (refresh and sign-out, two sign-ins,
a fetch that read before a write, or one that takes the place of a refetch); closures and drafts that keep what an earlier render saw (theme,
entry form, split form); several actors sharing one cell (pages and `localStorage`, cron and boot);
rounding at the edge of a column, a unit, a month, a separator or a double, and the ends of a window; and promises everyone waits for.

## 3. Modules

One action is the code between two awaits: a database call and what follows it, or in the
browser what one answer or one gesture causes, up to the next render. The queries of a `Promise.all`
are one action, taken when the last of them answers, that sees any of the states since they were
sent. Each module says in its heading what it abstracts.
A `Mutant:` operator is a slip someone could make in that code; it is not part of any `Next`
and documents which property would notice.

- **TokenService** — the table and its three handlers. `req[r]` is the handler a request runs
  and the await it waits at: `RotateStart`, `RotateFind`, `RotateUpdate` / `RotateRevokeAll`,
  `CreateRow`, `Respond` are `rotate` and `issuePair` from top to bottom; `RevokeStart`,
  `RevokeUpdate` are `revoke`; `Fail` ends a request at any await. A token is its `jti`. The
  history variables record lineage (`parent`, `login`) and how a session was `ended`.
- **Sessions** — the abstract table: a working token is replaced in one step or lost, and a
  token that stopped working can only end everything. `TokenService` implements it with one
  request at a time (`ImplementsSessions`); the map counts a token whose replacement is on its
  way (`Replacing`) as still live, so that the abstract `Replace` happens at `CreateRow` and a
  failure before it is the abstract `Lose`.
- **WebSession** — any number of pages over the server `Sessions`. `call[p][s]` is one
  `request()` and its retry, `flight[p]` the one `fetch` of `/auth/refresh` of a page,
  `orphans` refreshes whose page is gone but which the server may still receive. `Load` is the
  module initialisation and boot effect, `RefreshSucceeded` / `RefreshFailed` run
  `performRefresh`'s continuation with every call that waits on it.
- **Money** — `convertAmount` and the rounding of a `Decimal(18,2)` column, on integers of a
  thousandth.
- **SavingsLedger** — `Begin`, `FindGoals`, `FetchRate`, `Insert` are `create` and `createSplit`
  (a creation is a split with one allocation; the two differ in what their DTOs admit);
  `Update`, `FindEntry`, `FetchRate`, `Write` are `update`. `loose` is a history variable: it
  marks the entries whose last write converted something else than what the row keeps.
- **Accounts** — `call[r]` is a request and the query it waits at: `Register`, `CreateUser` are
  `register`; `Login`; `LoginWithGoogle`, `FindByGoogleId`, `FindByEmail`, `LinkGoogleId`,
  `CreateWithGoogle`, `RetryByGoogleId`, `RetryByEmail` are `resolveGoogleUser` from top to bottom;
  `IssuePair` ends each. The unique columns are `Taken`. `alone` is a history variable: no other
  request was under way at the same time.
- **SignIn** — the two forms and the Google button of one browser over `Accounts`, whose other calls
  are other devices and requests nobody listens to. `Detach` is what unmounting does to the callbacks
  of a mutation; `seen` is the theme in the closure that the button's effect has kept.
- **GoalMath**, **BudgetMath** — `computeProgress` and `computeAvailable` as operators on integers
  of a thousandth, with the rounding of decimal.js; `Allocate` is a fold over the lines in order.
- **Reads** — `db` is the rows of one user; `req` a request and `versions`, the states the database
  was in since its queries were sent. `Answer` lets each query of a `Promise.all` see any of them.
  The writes are the single statements of the other modules, the update of an entry's amount and date
  among them. `Window` and `Covered` are `getHistory`: the rows from the day n days back until today,
  both included, and whether there are n of them. `LoadPage` is `listForGoal` with its cursor, called
  until there is none.
- **QueryCache** — one cached query: what is held, whether it is marked, what is on its way, and whether
  that replaces what is held or adds a page to it (`more`); `Mounted`, `Invalidated`, `FetchedMore`,
  `Answered`, `Failed` are TanStack Query 5 as `query-client.ts` configures it. Of the data it keeps
  whether a write of this page has changed them since they were read ("late"). `kept` is a history
  variable: late data are or will be shown as fresh, because the answer of the write was lost ("untold") or
  because what its hook asked for did not take their place ("passed").
- **AmountInput** — the amount field: focus, typing, blur and `parseFlexibleAmount`. A number that is
  typed is kept exactly by the doubles of the code, the product with a magnitude word is not:
  `Missed` says what doubles make of the texts whose product they miss, and may be any function to
  amounts of more than two decimals.
- **Screens** — every page, form and mutation over them: `Mounts`, `Changes` (what the API computes
  from what a write writes), `Invalidates` (what its hook names), `Go`, `LoadMore`, `Refetch`, `Send`,
  `Serve`, `Succeeded`, `Errored`. A behaviour follows one query and one goal; `Gaps` names the pairs that
  `Changes` has and `Invalidates` lacks: of these the page is not told. Beside them, `LateIsReplaced`
  has the exceptions that it lists, the two of `kept`.
- **RateAlerts** — `CreateCount` and `CreateInsert` are the two halves of `create`.
- **RateSnapshot** — extends RateAlerts: runs of `runSnapshot` (`Check`, `Fetch`, `ReadPrev`,
  `UpsertRead`, `UpsertCreate`, `Evaluate`, `Trigger`, `Finish`) over the alerts their owners
  go on editing. Prisma's `upsert` with an empty update reads and then creates, and loses on the
  unique constraint. `disturbed` marks the days on which the snapshots were not written in turn.
  `skipped` marks the days a later run found captured and left alone although no run had
  finished evaluating them.
- **TokenServiceProofs**, **WebSessionProofs**, **RateAlertsProofs**, **RateSnapshotProofs**,
  **SavingsLedgerProofs**, **SignInProofs** (with those of Accounts), **ReadsProofs** (with those of
  GoalMath), **ScreensProofs** — the theorems (section 6).
- **MC...** — the small sets and symmetries of the runs.

History variables occur in no guard: they cannot change what the code does in the model.

## 4. Runs and bounds

The runs that `PROJECT.json` lists:

| run | shows | bounds |
|---|---|---|
| `TokenServiceSerial` | with one request at a time: one live token a session, reuse and logout end sessions and touch nobody else's, and the table implements `Sessions` | 2 users (reuse must stop at a user), 4 tokens: a login, two rotations and a second session |
| `TokenServiceConcurrent` | what rotation guarantees when requests overlap anywhere: no replacement beside a live predecessor, a late token never rotates, at most one replacement per request in flight | 2 requests, 4 tokens: two rotations of one token, and a rotation of the replacement |
| `WebSessionOnePage` | single flight: a page that is not reloaded never presents a token that does not work, whatever fails or is lost; storage keeps the session of the user shown | 1 page, 2 queries besides sign-in and sign-out, 2 users, 3 tokens |
| `WebSessionLiveness` | every call ends, also behind a refresh; so does the restore | 1 page, 1 user, 3 tokens, reloads and orphans included |
| `WebSessionSilentRefreshThenReload` | violation: a reload after a silent refresh presents a rotated token | |
| `SignIn` | the account that each way of signing in leads to, what becomes of a Google id, which conflicts are answered, and that the session stays | 2 accounts, 2 emails, 2 Google accounts known by one email one after the other, 2 overlapping requests of one browser or of two, 2 themes |
| `SavingsLedgerSerial` | conversions and splits with one request at a time, rates changing at any moment | 1 user, 2 goals in either currency, 2 entries, 2 rates, an amount finer than a column |
| `SavingsLedgerConcurrent` | ownership and deletion under two interleaved requests | 2 users, 2 goals, 1 entry, 2 requests |
| `Reads` | every answer about goals, budget and rate, and every sequence of pages, with a write of another request in between | 2 goals in either currency, one with a deadline that passes and one in the second month, 2 entries of one amount, 2 days with different rates, pages of one entry, 1 write during a request |
| `Screens` | when late data are still shown as fresh (the gaps, and the exceptions of `LateIsReplaced`), and which amounts a visit to the field keeps | each of 6 queries, 1 goal from birth to deletion, 2 writes under way, three kinds of text: both separators with two and with three decimals, and a magnitude word whose product doubles miss |
| `RateAlertsCap` | how far concurrent creations overshoot the cap | cap 2, 3 creations, 5 ids, 2 users |
| `RateSnapshot` | a row is written once; alerts fire once, only for a crossing, and for every crossing, on every day that was not disturbed | 2 runs, 2 days, 1 alert, quotes below, at, above and just below the threshold |

There are more configurations than runs. `TokenServiceLiveness` checks that every request is
answered (`RequestsReturn`); `SignInApiOnly` has three requests to `Accounts`, without the pages, and
shows that `GoogleConflictsAreReal` is a statement about two; the others each print a counterexample of
section 7.

Why the bounds are enough. All hazards here are between two actors: two requests on one row, a
request and a snapshot, a page and its successor, a read and a write; a third repeats what the second
did. Where the number matters it is larger or the theorem covers any: the overshoot of
`RateAlertsCap` has three creations; `SignInProofs`, `SavingsLedgerProofs` and `TokenServiceProofs`
hold for any number of requests, `WebSessionProofs` of calls, `RateSnapshotProofs` of runs and days,
`ReadsProofs` of rows, days, pages and (but for `FiguresWereTrue`) writes, `ScreensProofs` of writes under way.
`GoogleConflictsAreReal` is a statement about two requests: of three, two can link and link again
the account that the third has lost the race to (`SignInApiOnly`). With two writes during one request,
`FiguresWereTrue` no longer holds (row, sum and rate may come from three states); what the code
gives is the mixture of a before and an after. Entries of `Reads` have one amount, so that there an update
moves an entry and creations and removals change a sum; with two amounts the run takes four times as
long and finds the same, and the theorems hold for any.

Ids are used once, and their pool is the bound on the length of a history: four tokens let a chain
be rotated twice while another session exists. `Room`, and `PoolEmpty` in the liveness properties of
`WebSession`, keep the end of the pool from being mistaken for a fault; the real pool, random UUIDs,
does not end. Two days are a previous snapshot and a crossing. A cap of 2 stands for
`MAX_ALERTS_PER_USER` = 10, `PageSize` 1 for 50, `RecentLimit` 1 for 10. Quotes and amounts are chosen
around the points where rounding or a comparison decides.

`CHECK_DEADLOCK FALSE` is set where ids run out: the model then has nothing left to do.

## 5. Fairness

Safety is checked without fairness. `TokenService!FairSpec` has weak fairness of each request's
steps: Node runs the continuation of every await that settles, and Prisma and bcrypt settle
theirs. `WebSession!FairSpec` has it for a page's calls and its refresh (the browser settles every
`fetch`, and the event loop runs the callbacks), and assumes that the user does not go on for
ever reloading a page before it is restored. None is assumed of gestures, expiry or faults; no
strong fairness is used. `SignIn`, `Screens` and `Reads` have no liveness properties: that an answer
comes is what `WebSession` shows of every call, and what they add, a closure or a draft that is
stale, is a matter of safety. Nothing in the scheduler is assumed to be fair: the daily run has no
liveness property because a run that stopped is not made up for (section 7).

## 6. Proofs

`TokenServiceProofs`: for any sets of users, and any finite sets of tokens and of requests in
flight.

- `Invariant`: `Spec => []IInv`. `TypeOK` and the safety properties are not inductive alone.
  That a replacement exists only beside a revoked predecessor needs `RequestsSound`: a request
  about to create a replacement has revoked the token it was given (nothing makes a revoked row
  live). `RequestsSound` needs in turn that a request which waits at a database call knows an
  issued token of its own user, hence `HeldAreIssued`: what a client holds has a row. That a
  token gets at most as many replacements as there are requests needs `RotationBudget`, which
  counts the replacements made together with the requests that may still make one: a request
  enters the second set only while the token is live, when it has no replacement yet.
- `TypeCorrect`, `ReplacementAfterRevocation`, `ReuseIsRefused`, `BoundedRotation` and, for one
  request at a time, `SerialRotation`, follow from `IInv`.
- `UserIsolation`: the action property `RevocationStaysWithinUser`, from the same invariant.
- With one request at a time (`Reqs = {r}`), `SerialInvariant`: a session is the login its tokens
  descend from, of the same user (`Lineage`), and what the request has read is still so
  (`ReadIsCurrent`): the token it is about to revoke is live, and the session for which it is about to
  create a replacement has no live token and has not been ended. Hence `SerialOneLive`
  (`OneLivePerSession`), `SerialReuseEnds` (`ReuseEndsSessions`) and `SerialLogoutEnds`
  (`LogoutEndsSession`), each of which two requests violate (section 7).
- `SerialImplements`: then the table implements `Sessions` (`ImplementsSessions`). Under the mapping
  `Shown` a token whose replacement is on its way is live, so that the update is a stutter, the
  creation replaces it in one step and a failure before the creation loses it.

`WebSessionProofs`: for any number of calls at a time, any users and tokens.

- `PageTypeCorrect`: `Spec => []TypeOK`, any number of pages, reloads included. It needs `Carried`, that
  a refresh is sent with a token and a sign-in answered with a pair.
- For a page that is alone and not reloaded (`Pages = {p}`, `StaySpec`), `SessionInvariant`: what the
  page holds works while no refresh is in flight, what is sent works, and so does what was answered
  (`RefreshSound`). Between the rotation and the end of the refresh the page may hold the token that
  was rotated; single flight sees to it that no other call presents it, and the end of the refresh
  overwrites or drops it, lost answers included. A pair a sign-in was answered with is none of
  those (`SignInSound`), so that a refresh beside it cannot revoke it. `StorageSound` relates
  localStorage to the mode and the user shown.
- Hence `PresentedWorks` (`PresentedTokenWorks`) and `StoredMatches` (`StoredMatchesShown`). Two pages,
  or a reload, violate the first (section 7).

`RateAlertsProofs`: for any users, any finite sets of alerts and of concurrent creations, and
any cap.

- `AlertsTypeCorrect`, and `CapOvershoot`: `AlertCapOvershoot` is not inductive, an insert
  could overshoot from a state with many creations pending. `AlertBudget` counts the user's
  alerts with the creations on their way to it: a creation joins only while the alerts are below
  the cap, and was not pending before. `SerialCap`: with one creation at a time the cap holds.

`RateSnapshotProofs`: for any number of overlapping runs, any days, alerts and users, any thresholds
and any quotes that are not stored as zero.

- `SnapshotInvariant`: the three properties of the alerts are about what is stored, but a run
  triggers what it computed from what it read. `RunReads` says that the earlier rate a run has read is
  still the latest before its day, unless the day was disturbed; `Evaluates`, that the run which
  evaluates an undisturbed day wrote its row, is alone in doing so and starts when nothing has fired;
  `Triggers`, that each crossing is still to be triggered or has fired; `DaySound`, that a day without a
  row has not been evaluated, and that the alerts it watches are there until their owners change them.
  A run that writes a row late changes what comes before the later days: those that have begun are
  disturbed by it, the others have no run yet. `RateBeforeSame` says that the earlier rate depends on
  the rows of earlier days only; it rests on `MaxOf`, that a set of days has a last one.
- `AtMostOnce` (`FiresAtMostOnce`), `FiredCrossed` (`FiredMeansCrossed`), `CrossingsFired`
  (`CrossingsFire`) and `SnapshotTypeCorrect` follow from it; `WrittenOnce` (`SnapshotWrittenOnce`) needs
  the types only.

`SignInProofs`: for any accounts, emails, Google credentials and themes, and any number of requests.

- `AccountsInvariant`: `AccountsInv` is the types and, for each request, `Knows`: what it has read
  that nobody else can have changed since. A row is never removed, its email and password never
  change, so that an account found stays the account of that email. A Google id may change after it
  was read, by a link of another request: `Knows` says nothing of it unless the request is `alone`,
  and then no other request is under way (the last conjunct) and none is about to link (`Signed`).
- `SignedInToRightAccount` (`RightAccount`), `GoogleIdKept` (`GoogleIdStays`), `AccountsTypeCorrect`.
- `GoogleConflictsReal` (`GoogleConflictsAreReal`), for two requests (`Reqs = {p, q}`): 409 is the answer
  of the second look of a request that has lost a race, and `FindsWinner` says that this look finds
  what beat it. From its second query on, nobody is about to link the account that has its Google id
  (`Contested`): with two requests, the other one is the only one that could be, and it would have
  had to find that account without an id. A third request makes this false
  (`SignInApiOnly`).
- `SignInUsesAccounts`: every step of the pages is one of `Accounts` or leaves it alone
  (`Spec => AccountsSpec`), so that the theorems above hold under the pages
  (`PagesReachRightAccount`, `PagesMeetRealConflicts`).
- `SignInInvariant`, `SignInTypeCorrect` (`TypeOK`) and `SessionKept` (`SessionStays`). `SessionKept` rests on
  two facts about a page: a form or a button that waits for an answer is never there on the page that
  a signed-in user sees, and a signed-in user sees no other (`PageInv`).

`SavingsLedgerProofs`: for any users, goals, entries, requests, rates and amounts.

- `LedgerInvariant`: `FrozenIsConversion` is about rows, but an update writes what a request has
  read and computed: the invariant adds `RequestSound`, what each request in flight knows of the goals
  and the entry it is about. Owners and currencies never change, and a deleted row keeps them in the
  model, so that this stays true while others write; that the entry's amount is still the one read
  does not, and `loose` marks where it was not. `ConvertKept` and `ColumnIdempotent`, lemmas on the
  rounding, say that the column keeps what was converted.
- From it every property of the runs: `LedgerTypeCorrect`, `EntriesAlwaysBelong`, `ConversionsFrozen`,
  `DeletionsFinal`, `SplitRateShared`.

`ReadsProofs`: for any goals, entries, settings, amounts, days, quotes and sizes of pages.

- `SuggestionSuffices`, about `GoalMath`: for every remainder and every number of months, the suggested
  amount times the months reaches the target, a unit less does not, and it is zero only if nothing
  remains.
- `ReadsInvariant`: `DbOK` is the rows, that only finitely many goals and entries are stored (the sums
  are folds over them) and that no rate is stored ahead of its day; `BatchOK`, that what the queries of a
  request may see, including all that was written since they were sent, are such states, the present one
  among them.
- Hence `ReadsTypeCorrect` (`TypeOK`); `FiguresOfAnswersAgree` (`FiguresAgree`), however many writes mix
  their rows into one answer; `RatesDated` (`RatesAreDated`), whose last part, that a history called full
  lacks at most one day, is a counting argument for any number of days: the rows are among n + 1 dates
  (`WindowBounded`), since no rate is stored ahead of its day, and n of them leave one (`OneMissing`).
- `BudgetOfAnswersAddsUp` (`BudgetAddsUp`), whichever goals, sums and rate the queries of the answer saw.
  `BlockAddsUp` reduces it to the allocation, `PoolSharedOut`, for a pool below the total need.
  `SortedExists` says that the lines can be put in the order the code sorts them in, since
  it is a total order. Of the fold over them `SharedSoFar` is the invariant: after the first lines, what
  they were given and what is left make up the pool; a line that lacks has emptied it and leaves nothing for
  those behind; and as long as something is left, it is the pool less all the needs so far. At the end nothing
  is left, because the needs exceed the pool.
  `TotalIsSum` and `SavedIsSum` relate the folds over sets to sums along a sequence. Inductions over finite
  sets and over the lines are each done by hand, from a smallest set without the property
  (`SmallestSet`), since the prover cannot instantiate the induction theorems.
- `PagesOfReaderComplete` (`PagesComplete`), for pages of any size and any writes between them. `UpToCursor` is
  what the reader has: of the entries nobody touched, exactly those that are the cursor's or ahead of it, none
  twice. A write keeps that as long as it is to another entry than the cursor's (`StillUpTo`, from `Spares`: a
  write is to no entry but those it is said to touch), and a page carries it on to the last of its rows, or
  to the end (`PageLoaded`). Once the cursor's entry is touched nothing is claimed: the next page is `cut`.
- `ProgressWasTrue` (`FiguresWereTrue`), if at most one write meets a request: `VersionsOK` says that any two
  versions a request may see differ in the rows of goals or in those of entries, never in both for a
  goal that is in each (`Related`; `WritesOK` shows it of each write). The row and the sum of a goal then
  belong to one of them. It does not hold of two writes, and the theorem says so by its assumption.

`ScreensProofs`: for any number of writes under way.

- `LateReplaced` (`LateIsReplaced`), for any query and any `Gaps` that contain what the hooks do not name
  (`GapsAreKnown`; the gaps of this code do, `ScreensGaps` takes them away). `CacheInv`: not only what is
  shown but also what is on its way (`fetch`) is late only while a write whose answer is to come has
  changed it, or `kept` tells why not. When that answer comes the hook marks the query, cancels a fetch
  that replaces data of a page that is there, and sends another. The property says of every late
  answer on screen which of the exceptions it is; that there are such answers is `HooksReplace` of section 7.
- `VisitsKeepAmounts` (`VisitKeepsAmount`): whatever is typed, and whatever the products that doubles miss
  are (`MissedAssumption`), what `blur` reads from the text that `focus` wrote is the amount, if that has at
  most two decimals. It needs that an amount in the form has no trailing zeros, which
  the text would lose (`Normal`); one of more decimals, which the field does accept, is another one after
  the next visit (`AnyVisitKeepsAmount` of section 7). `ScreensTypeCorrect` (`TypeOK`) holds of either.

What trying to prove these showed of the model: two definitions of `GoalMath` and `BudgetMath` had `CASE`
arms that overlapped, in which TLA+ has no order and the code has one; an update of a goal was a request
but not a write that another request can meet (`EditGoal`); that what is no amount is no text was
only true of the constants of the runs (`TypedAssumption`); and `PagesComplete` claimed that no untouched
entry is ever loaded twice, which needs more than two entries to fail: with three, a page that starts from
an entry whose date was changed shows again what the reader already has, although that entry was not
touched. The claim now has the condition `~cut` on both its halves. Orders are stated as a `CHOOSE` of a
sorted sequence (`InOrder`, `Newest`): a sort is opaque to the prover, and both orders are total,
no two entries of a goal being created at once, so that the choice is the one sequence.

Assumptions: the named `ASSUME`s of the modules (the null values are not in the sets, the sets
are finite where they are counted, rates and thresholds are positive). TLC evaluates them in the runs.

Only model-checked: everything temporal under fairness (`RequestsReturn`, `CallsSettle`,
`RestoreSettles`), which the prover does not do. Every invariant and
action property that a passing run checks is also a theorem.

## 7. Where the code does not do what is written about it

The run marked *violation* is one of these. The others have a configuration too: `<module>Stated.cfg`
names what is stated of a module and does not hold. TLC stops at the first that fails; leave one in
to see it fail: `tlc -config <name>.cfg <MC module>`. The properties of the passing runs are stated so
as to show exactly how far these reach.

**Refresh tokens** (`TokenServiceStated`)

- `RotatedOnce`: two overlapping refreshes of one token both get a pair. `rotate` reads
  the row, awaits `bcrypt.compare` and updates it unconditionally (`token.service.ts:94`).
  `SuccessorsBounded` is what remains.
- `ReuseEndsSessions`: a rotation past its check, or a login awaiting its hash, creates a row
  after `revokeAllForUser` has run; it stays valid. Plan 260910 phase-03:162: "Reusing a rotated
  refresh token invalidates every session for that user."
- `LogoutEndsSession`: a rotation that read the row before logout revoked it goes on.
  Phase-07:153: "Logout revokes server-side, so a copied refresh token dies with the session."
- `RotationAllOrNothing`: a failure between `update` and `create` loses the session.
  Phase-03:74: "mark old revoked, issue new pair (same transaction)".

**Browser session** (`WebSessionStated` unless named)

- `WebSessionSilentRefreshThenReload`: `performRefresh` replaces the token in memory only;
  `localStorage` keeps the rotated one (`api-client.ts:130`). The next reload presents it, which is
  reuse: every session of the user ends. Phase-07:130: "Register → dashboard → hard reload → still
  signed in". With `PatientSpec` TLC shows that no impatience of the user is needed.
- `WebSessionReloadDuringRestore`: a reload while the restore is in flight does the same, even
  if no access token ever lapses (`HastySpec`). `WebSessionTwoPages`: so does a second page.
- `SignOutRevokes`: `logout` posts no body while the handler requires `refreshToken`; nothing is
  revoked. Phase-06:239-240: "call POST /api/auth/logout so the server revokes it".
- `GuestHoldsNoTokens`, `TokensMatchUser`: a refresh answered after sign-out, or after
  another user signed in, still calls `setTokens`: a guest holds tokens, or one user's page carries
  another's. `use-auth-success.ts:25`: "A previous user's cached data must never leak into this
  session."
- `SignedInHasUser` (put it in place of the property of `WebSessionSilentRefreshThenReload`): a
  restored session has no user; the refresh answer is a `TokenPair`. `auth.api.ts:4`:
  "register/login/refresh share one shape".
- `ExpiredNoteHadSession`: a refused sign-in, being a 401, says "session expired". Phase-06:116
  takes that branch only if "a refresh token exists".
- `OneRefreshPerLapse`: a 401 of a call sent before the refresh settled starts another one.

**Signing in** (`SignInStated`)

- `ThemeAdopted`: the theme of the account is compared with that of the closure, which the effect of
  the Google button has made before the user changed the theme; it is then not adopted.
  `use-auth-success.ts:28-30`: "adopt it on sign-in when it differs from what this browser currently
  has".
- `GoogleCanBeRetried`: when Google's script fails to load, its rejected promise is kept
  (`google-identity.ts:34`); the message asks to try again, and every form until the page is
  reloaded shows it at once.
- `GoogleIdNeverOverwritten`: two sign-ins with two Google accounts of one email both find the
  account without a Google id, and the second overwrites the first. `auth.service.ts:93`: "A
  different Google account already owns this email — never overwrite."

**Ledger** (`SavingsLedgerUpdateStated`, `SavingsLedgerSplitStated`)

- `AlwaysConsistent`: two overlapping updates leave the amount of one and the conversion of
  the other. `docs/data-model.md:50`: "no fetch-then-check race". And a split converts an amount with
  more decimals than it stores.
- `AmountsPositive`: an update writes zero or a negative amount; a split below half a cent is stored
  as 0.00. Phase-04:42: "entry amount > 0".

**Budget and rate** (`ReadsStated`)

- `IncomeReconciles`: when the fixed expenses exceed the income, what is available is computed from a
  pool of zero (`budget-math.service.ts:91`, `:151`). The comment at `:57` says "income - expenses -
  totalGoalNeed", and plan 260914 phase-03:144 that the figures reconcile.
- `FullHasNoGap`: the window of n days has n + 1 dates, because `capturedOn`, a column of dates, is
  compared with `since` as a date (`exchange-rate.service.ts:79-80`). A history with a day missing in its
  middle therefore has n rows and is called `full` (`:91`). The comment at `:88-90`: "A real gap and
  "history hasn't accumulated yet" look the same from point count alone, which is fine — both mean
  "don't treat this as a complete picture"".

**Alerts and snapshot** (`RateAlertsCapRace`, `RateSnapshotStated`)

- `AlertCap`: concurrent creations exceed the cap.
- `NeverTwice`: two runs that both found no row both evaluate. The scheduler's comment
  (`rate-snapshot.scheduler.ts:14-16`) says "a no-op rather than a duplicate fetch or a duplicate
  alert trigger".
- `StoppedRunsRetried`: a run that fails after the row is written leaves its alerts
  unevaluated, and the next one returns because the row exists. Line 95: "The next scheduled run
  (or bootstrap) retries."
- `disturbed` also covers: the run whose upsert found a row evaluates the rate it fetched itself,
  not the stored one; and a quote just below a threshold is stored as the threshold by
  `toFixed(8)`, so that an alert fires on neither day.

**Signed-in pages** (`ScreensStated` unless named)

- `EachEntryIsTyped`: when an entry is saved the form calls `setAmount('')` and then focuses the
  field, whose handler is still that of the render before: it puts the old amount back into the text,
  and leaving the field, to click the button again, sends it a second time. Phase-08-goals-ui.md:116
  says the form is reset.
- `SentIsShown`: Enter submits the form while the field has the focus, so that the amount of the last
  blur is sent, or none (`amount-input.tsx:30-32`).
- `SplitFollowsGoals`: the draft has the goals that were listed when the form mounted. A goal that
  appears in a refetch has no row and the render throws; a goal that is deleted elsewhere stays in
  the hidden part of the draft, and the whole split is refused with 404. `split-form.tsx:27-28` says
  such goals are "silently dropped rather than crashing".
- `ScreensGaps`: without the gaps `LateIsReplaced` does not hold. No write of an entry or a goal
  invalidates the available balance, which is computed from them; a split does not invalidate the
  entries of its goals; a deleted goal stays in the cache.
- `HooksReplace`: three fetches undo what a hook's `invalidateQueries` asked for. A first load is not
  cancelled, having no data to go back to, nor is the fetch of a query whose page is gone; the success of
  either takes the mark of the invalidation away, although it read before the write. And "Load more"
  (`entry-history-list.tsx:57`), whose button is disabled only while it is itself at work,
  cancels the refetch that the invalidation started and adds a page to those that are held, which are
  then shown as fresh: an entry just saved is missing from the list, or one deleted still in it. The
  comment at `use-entry-mutations.ts:7` says that one write invalidates all views of a goal.
- `AnyVisitKeepsAmount`: an amount of more than two decimals is written back with one separator, and the
  next visit to the field takes that for a thousands separator. Such an amount is typed with both
  separators ("1,234.567"), or is the product of a decimal and a magnitude word that doubles
  miss (`parse-amount.ts:39`): "2.01k" is 2009.9999999999998, and after focus and blur about 2.0e16;
  "4.1tr" is 4099999.9999999995. `amount-input.tsx:30` calls the value "the plain canonical
  number".

Seen while reading, and not modelled: `entry-history-list.tsx:44` labels the amount in the goal's
currency with the other currency; the list shows "no entries" when its first load has failed; the
edit form of a goal always sends the deadline, so that a goal whose deadline is past cannot be renamed
(`goal-detail-page.tsx:80-87` and `parseDeadline`); the edit forms of goal and budget keep the values
they were mounted with.

## 8. What is left out

- bcrypt, the JWT library, Google's verification, Prisma, PostgreSQL and TanStack Query are external:
  modelled by what the code relies on (a signature verifies iff the server made it and it has not
  expired; a statement is atomic; unique and foreign keys hold; a query is fetched, marked and
  cancelled as version 5 does it).
- Names, notes and locales: nothing that is modelled depends on them. The three fixed expenses are one
  number. Dates are whole days.
- The attempts of the provider client: `RateSnapshot!Fetch` is one step that answers or not. They share
  no state with anything, only time passes.
- `Screens` follows the queries of goals, entries, budget and alerts; those of the rates read nothing
  that a write of the app changes. Texts, formatting, charts, field validation, the locale and the
  order of two navigations within one render are left out. Numbers of more than fifteen digits are kept
  exactly in the model, where a double rounds them.
- DTO validation beyond what a handler relies on, the error filter beyond its 409, the decimal
  serializer, configuration, translations, the service worker, the seed script, build and deployment:
  no protocol, or pure text.

## 9. Plan

Done: `TokenService` with `Sessions`; `WebSession`; `Money` and `SavingsLedger`; `RateAlerts`;
`RateSnapshot`; `GoalMath`, `BudgetMath` and `Reads`; `Accounts` and `SignIn`; `QueryCache`,
`AmountInput` and `Screens`.

What would add most now: two goals in `Screens`, for a split of which one goal is gone; and what
remains of `FiguresWereTrue` when several writes meet a request, stated and proved without the
assumption `MaxOverlap <= 1`.

## 10. Running

    tlc -workers 2 -config TokenServiceSerial.cfg MCTokenService
    tlapm TokenServiceProofs.tla
