---------------------------- MODULE RateSnapshot ----------------------------
(***************************************************************************)
(* The daily rate snapshot and the evaluation of the rate alerts           *)
(* (rate-snapshot.scheduler.ts, rate-alert-evaluator.service.ts,           *)
(* rate-provider.client.ts).  runSnapshot is started by the cron and when  *)
(* an instance of the app boots; runs of several instances, or of the cron *)
(* and the boot of one, overlap.  A run is split at its awaits, and can    *)
(* end at any of them: the process stops, or the database fails.           *)
(*                                                                         *)
(* A rate is an integer in tenths of the last decimal the rate column      *)
(* keeps.                                                                  *)
(***************************************************************************)
EXTENDS RateAlerts, FiniteSetsExt

CONSTANTS
    Runs,       \* runs of runSnapshot that may overlap
    LastDay,    \* bound: the days considered are 1 .. LastDay
    Quotes      \* rates the provider may answer, none so small that it is stored as zero

(* The rounding of toFixed(8)                                              *)
Stored(x) == 10 * ((x + 5) \div 10)

ASSUME LastDayAssumption == LastDay \in Nat \ {0}
ASSUME QuotesAssumption  == \A x \in Quotes : x \in Nat /\ Stored(x) # 0

VARIABLES
    today,      \* the UTC date
    snapshot,   \* RateSnapshot.rate by capturedOn, 0 for no row
    run,        \* what each run is doing and has read
    fired,      \* history: how often an alert was triggered on behalf of a day
    watched,    \* history: the active alerts when the row of a day was written
    edited,     \* history: alerts changed or removed since they were created
    settled,    \* history: days some run has evaluated, all its triggers done
    skipped,    \* history: days not settled, and with no run at work, that a run
                \* found captured and left alone
    disturbed   \* history: days whose snapshots were not written in turn, see below

alerts == <<alert, creating>>
vars   == <<alert, creating, today, snapshot, run, fired, watched, edited, settled,
            skipped, disturbed>>

Days == 1 .. LastDay

PCs == {"idle", "check", "fetch", "prev", "upsert", "create", "evaluate", "trigger"}
Run == [pc: PCs, day: 0 .. LastDay, fetched: Nat, prev: Nat, triggered: SUBSET Alerts]
Idle == [pc |-> "idle", day |-> 0, fetched |-> 0, prev |-> 0, triggered |-> {}]

TypeOK ==
    /\ AlertsTypeOK
    /\ today \in Days
    /\ snapshot \in [Days -> Nat]
    /\ run \in [Runs -> Run]
    /\ fired \in [Alerts -> [Days -> Nat]]
    /\ watched \in [Days -> SUBSET Alerts]
    /\ edited \in SUBSET Alerts
    /\ settled \in SUBSET Days
    /\ skipped \in SUBSET Days
    /\ disturbed \in SUBSET Days

Init ==
    /\ AlertsInit
    /\ today = 1
    /\ snapshot = [d \in Days |-> 0]
    /\ run = [r \in Runs |-> Idle]
    /\ fired = [a \in Alerts |-> [d \in Days |-> 0]]
    /\ watched = [d \in Days |-> {}]
    /\ edited = {}
    /\ settled = {}
    /\ skipped = {}
    /\ disturbed = {}

At(r, pc) == run[r].pc = pc
Captured(d) == snapshot[d] # 0

(* The latest rate stored before a day, 0 if there is none. *)
RateBefore(d) ==
    LET earlier == {e \in 1 .. (d - 1) : Captured(e)}
    IN IF earlier = {} THEN 0 ELSE snapshot[Max(earlier)]

(* Operators headed "Mutant" are slips that could be made in the code: the *)
(* one below each would replace.  They are not part of Next; each breaks a *)
(* property that the definition itself satisfies.                          *)

(* Mutants: an alert fires while its condition holds; a rate that lands on *)
(* the threshold does not reach it.                                        *)
Holds(a, prev, new) ==
    /\ prev # 0
    /\ \/ alert[a].direction = "ABOVE" /\ new >= alert[a].threshold
       \/ alert[a].direction = "BELOW" /\ new <= alert[a].threshold
Passes(a, prev, new) ==
    /\ prev # 0
    /\ \/ alert[a].direction = "ABOVE" /\ prev < alert[a].threshold /\ new > alert[a].threshold
       \/ alert[a].direction = "BELOW" /\ prev > alert[a].threshold /\ new < alert[a].threshold

(* evaluate: the transition, never the condition that merely persists *)
Crosses(a, prev, new) ==
    /\ prev # 0
    /\ \/ alert[a].direction = "ABOVE" /\ prev < alert[a].threshold /\ new >= alert[a].threshold
       \/ alert[a].direction = "BELOW" /\ prev > alert[a].threshold /\ new <= alert[a].threshold

-----------------------------------------------------------------------------
history == <<fired, watched, edited, settled, skipped, disturbed>>

(* Mutant: the date of a clock ahead of UTC.                               *)
TodayLocal == today + 1

TodayUtc == today

(* handleCron and onModuleInit *)
Start(r) ==
    /\ At(r, "idle")
    /\ run' = [run EXCEPT ![r] = [Idle EXCEPT !.pc = "check", !.day = TodayUtc]]
    /\ UNCHANGED <<alerts, today, snapshot, history>>

Return(r) == run' = [run EXCEPT ![r] = Idle]

AtWork(d) == \E s \in Runs : run[s].day = d /\ run[s].pc \notin {"idle", "check"}

(* Already captured today: nothing to do. *)
Check(r) ==
    LET d == run[r].day IN
    /\ At(r, "check")
    /\ \/ /\ Captured(d)
          /\ Return(r)
          /\ skipped' = IF d \in settled \/ AtWork(d) THEN skipped ELSE skipped \cup {d}
       \/ /\ ~Captured(d)
          /\ run' = [run EXCEPT ![r].pc = "fetch"]
          /\ UNCHANGED skipped
    /\ UNCHANGED <<alerts, today, snapshot, fired, watched, edited, settled, disturbed>>

(* fetchJpyVnd answers within its three attempts; that it does not is Stop. *)
Fetch(r) ==
    /\ At(r, "fetch")
    /\ \E x \in Quotes : run' = [run EXCEPT ![r] = [@ EXCEPT !.pc = "prev", !.fetched = x]]
    /\ UNCHANGED <<alerts, today, snapshot, history>>

ReadPrev(r) ==
    /\ At(r, "prev")
    /\ run' = [run EXCEPT ![r] = [@ EXCEPT !.pc = "upsert", !.prev = RateBefore(run[r].day)]]
    /\ UNCHANGED <<alerts, today, snapshot, history>>

(* upsert reads, then creates; a row that is there is left as it is        *)
(* (update: {}) and the run goes on, with the rate it fetched itself.      *)
UpsertRead(r) ==
    LET d == run[r].day IN
    /\ At(r, "upsert")
    /\ run' = [run EXCEPT ![r].pc = IF Captured(d) THEN "evaluate" ELSE "create"]
    /\ disturbed' = IF Captured(d) THEN disturbed \cup {d} ELSE disturbed
    /\ UNCHANGED <<alerts, today, snapshot, fired, watched, edited, settled, skipped>>

Active == {a \in Alerts : Present(a) /\ alert[a].active}

(* The days the row of day d disturbs: later days that have begun, which   *)
(* may have been evaluated against an older rate, and the day itself when  *)
(* the column does not keep all of the rate that will be evaluated.        *)
Disturbs(d, fetched) ==
    {e \in Days : d < e /\ e <= today} \cup {e \in {d} : Stored(fetched) # fetched}

(* Mutants: upsert whose update replaces the rate; a unique violation that *)
(* is swallowed, so that the loser goes on.                                *)
NoConflict(d)  == FALSE
LoserGoesOn(r) == [run[r] EXCEPT !.pc = "evaluate"]

Conflict(d) == Captured(d)
Loser(r)    == Idle

(* The unique constraint makes the loser of the race throw. *)
UpsertCreate(r) ==
    LET d == run[r].day IN
    /\ At(r, "create")
    /\ \/ /\ Conflict(d)
          /\ run' = [run EXCEPT ![r] = Loser(r)]
          /\ UNCHANGED <<snapshot, watched, disturbed>>
       \/ /\ ~Conflict(d)
          /\ snapshot' = [snapshot EXCEPT ![d] = Stored(run[r].fetched)]
          /\ watched' = [watched EXCEPT ![d] = Active]
          /\ disturbed' = disturbed \cup Disturbs(d, run[r].fetched)
          /\ run' = [run EXCEPT ![r].pc = "evaluate"]
    /\ UNCHANGED <<alerts, today, fired, edited, settled, skipped>>

(* findMany of the active alerts, and evaluate with the fetched rate *)
Evaluate(r) ==
    /\ At(r, "evaluate")
    /\ run' = [run EXCEPT ![r] = [@ EXCEPT !.pc = "trigger",
            !.triggered = {a \in Active : Crosses(a, run[r].prev, run[r].fetched)}]]
    /\ UNCHANGED <<alerts, today, snapshot, history>>

(* The updates of Promise.all, in any order.  One whose alert was removed  *)
(* meanwhile throws; the others have been sent already.                    *)
Trigger(r, a) ==
    LET d == run[r].day IN
    /\ At(r, "trigger")
    /\ a \in run[r].triggered
    /\ run' = [run EXCEPT ![r].triggered = @ \ {a}]
    /\ IF Present(a)
       THEN /\ alert' = [alert EXCEPT ![a].lastTriggeredRate = Stored(run[r].fetched)]
            /\ fired' = [fired EXCEPT ![a][d] = @ + 1]
       ELSE UNCHANGED <<alert, fired>>
    /\ UNCHANGED <<creating, today, snapshot, watched, edited, settled, skipped, disturbed>>

Finish(r) ==
    /\ At(r, "trigger")
    /\ run[r].triggered = {}
    /\ Return(r)
    /\ settled' = settled \cup {run[r].day}
    /\ UNCHANGED <<alerts, today, snapshot, fired, watched, edited, skipped, disturbed>>

(* The provider does not answer, the database fails, or the process stops. *)
Stop(r) ==
    /\ ~At(r, "idle")
    /\ run' = [run EXCEPT ![r] = Idle]
    /\ UNCHANGED <<alerts, today, snapshot, history>>

NextDay ==
    /\ today < LastDay
    /\ today' = today + 1
    /\ UNCHANGED <<alerts, snapshot, run, history>>

(* The users' requests on their alerts *)
UseAlerts ==
    /\ AlertsNext
    /\ edited' = edited \cup {a \in Alerts : Present(a) /\ alert'[a] # alert[a]}
    /\ UNCHANGED <<today, snapshot, run, fired, watched, settled, skipped, disturbed>>

RunStep(r) ==
    \/ Start(r) \/ Check(r) \/ Fetch(r) \/ ReadPrev(r) \/ UpsertRead(r) \/ UpsertCreate(r)
    \/ Evaluate(r) \/ Finish(r) \/ \E a \in Alerts : Trigger(r, a)

Next ==
    \/ \E r \in Runs : RunStep(r) \/ Stop(r)
    \/ NextDay
    \/ UseAlerts

Spec == Init /\ [][Next]_vars

-----------------------------------------------------------------------------
(* The row of a day, once written, is never written again: another run of  *)
(* the same day, a late one included, does not replace the rate that was   *)
(* served and used for conversions.                                        *)
SnapshotWrittenOnce ==
    [][\A d \in Days : Captured(d) => snapshot'[d] = snapshot[d]]_vars

(* Runs stop anywhere, overlap and last past midnight.  What the next      *)
(* three properties say then holds of every day but the disturbed ones:    *)
(* a run of the day found the row written by another one between its check *)
(* and its upsert, a run of an earlier day wrote its row late, or the rate *)
(* had more decimals than the column.                                      *)
InTurn == Days \ disturbed

(* The stored rates crossed the threshold of an alert on a day.            *)
Reaches(a, x) == IF alert[a].direction = "ABOVE" THEN x >= alert[a].threshold
                                                 ELSE x <= alert[a].threshold
Crossed(a, d) ==
    /\ Captured(d) /\ RateBefore(d) # 0
    /\ ~Reaches(a, RateBefore(d)) /\ Reaches(a, snapshot[d])

(* An alert is triggered at most once for a day: not by the loser of a     *)
(* race to create the row, nor by the run that starts again after a stop.  *)
FiresAtMostOnce == \A a \in Alerts, d \in InTurn : fired[a][d] <= 1

(* An alert that fired for a day did so because the stored rates crossed   *)
(* its threshold between the snapshot before and the one of that day.      *)
FiredMeansCrossed ==
    \A a \in Alerts \ edited, d \in InTurn :
        fired[a][d] > 0 => Crossed(a, d)

(* A run that has evaluated its day has triggered every alert whose        *)
(* threshold the stored rates crossed.                                     *)
CrossingsFire ==
    \A d \in InTurn \cap settled : \A a \in watched[d] \ edited :
        Crossed(a, d) => fired[a][d] > 0

(* What the scheduler's comments promise of every day.  "A no-op rather    *)
(* than a duplicate alert trigger" (line 15):                              *)
NeverTwice == \A a \in Alerts, d \in Days : fired[a][d] <= 1

(* "The next scheduled run (or bootstrap) retries" (line 95): a day that a *)
(* run leaves alone has had its crossings fired.                           *)
StoppedRunsRetried ==
    \A d \in InTurn \cap skipped : \A a \in watched[d] \ edited :
        Crossed(a, d) => fired[a][d] > 0

=============================================================================
