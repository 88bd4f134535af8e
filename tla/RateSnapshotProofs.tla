------------------------- MODULE RateSnapshotProofs -------------------------
(***************************************************************************)
(* Theorems about RateSnapshot, for any number of overlapping runs, of     *)
(* days, alerts and users, and any quotes and thresholds.                  *)
(***************************************************************************)
EXTENDS RateSnapshot, RateAlertsProofs, WellFoundedInduction

(***************************************************************************)
(* The latest captured day                                                 *)
(***************************************************************************)
Below == {ss \in Nat \X Nat : ss[1] < ss[2]}

LEMMA BelowWellFounded == IsWellFoundedOn(Below, Nat)
  BY NatLessThanWellFounded DEF OpToRel, Below

LEMMA LeastOf ==
  ASSUME NEW S \in SUBSET Nat, S # {}
  PROVE  \E x \in S : \A y \in S : x <= y
<1>1. \A x, y \in Nat : x < y => <<x, y>> \in Below
  BY DEF Below
<1>2. PICK x \in S : \A y \in S : ~(<<y, x>> \in Below)
  BY BelowWellFounded, WFMin
<1>3. \A y \in S : ~(y < x)
  BY <1>1, <1>2
<1> QED BY <1>2, <1>3

LEMMA MaxOf ==
  ASSUME NEW n \in Nat, NEW S \in SUBSET (1 .. n), S # {}
  PROVE  Max(S) \in S /\ \A y \in S : y <= Max(S)
<1>1. \A e \in S : n - e \in Nat
  OBVIOUS
<1>2. PICK T : T = {n - e : e \in S}
  OBVIOUS
<1>3. T \in SUBSET Nat /\ T # {}
  BY <1>1, <1>2
<1>4. PICK t \in T : \A u \in T : t <= u
  BY <1>3, LeastOf
<1>5. PICK x \in S : t = n - x
  BY <1>2
<1>6. \A y \in S : n - x <= n - y
  BY <1>2, <1>4, <1>5
<1>7. \A y \in S : x >= y
  BY <1>6
<1>8. Max(S) \in S /\ \A y \in S : Max(S) >= y
  BY <1>7 DEF Max
<1> QED BY <1>8

(* RateBefore is a stored rate or 0, ...                                   *)
LEMMA RateBeforeType ==
  ASSUME NEW d \in Days, snapshot \in [Days -> Nat]
  PROVE  RateBefore(d) \in Nat
<1> DEFINE earlier == {e \in 1 .. (d - 1) : Captured(e)}
<1>1. CASE earlier = {}
  BY <1>1 DEF RateBefore
<1>2. CASE earlier # {}
  <2>1. d - 1 \in Nat /\ earlier \in SUBSET (1 .. (d - 1)) /\ earlier \in SUBSET Days
    BY LastDayAssumption DEF Days
  <2>2. Max(earlier) \in Days
    BY <1>2, <2>1, MaxOf
  <2> QED BY <1>2, <2>2 DEF RateBefore
<1> QED BY <1>1, <1>2

(* ... and depends on the rows of the earlier days only.                   *)
LEMMA RateBeforeSame ==
  ASSUME NEW d \in Days, \A e \in Days : e < d => snapshot'[e] = snapshot[e]
  PROVE  RateBefore(d)' = RateBefore(d)
<1>1. PICK before : before = {e \in 1 .. (d - 1) : Captured(e)}
  OBVIOUS
<1>2. \A e \in 1 .. (d - 1) : e \in Days /\ e < d
  BY LastDayAssumption DEF Days
<1>3. {e \in 1 .. (d - 1) : Captured(e)'} = before
  BY <1>1, <1>2 DEF Captured
<1>4. RateBefore(d)' = IF before = {} THEN 0 ELSE snapshot'[Max(before)]
  BY <1>3 DEF RateBefore
<1>5. RateBefore(d) = IF before = {} THEN 0 ELSE snapshot[Max(before)]
  BY <1>1 DEF RateBefore
<1>6. CASE before = {}
  BY <1>4, <1>5, <1>6
<1>7. CASE before # {}
  <2>1. d - 1 \in Nat /\ before \in SUBSET (1 .. (d - 1))
    BY <1>1, LastDayAssumption DEF Days
  <2>2. Max(before) \in Days /\ Max(before) < d
    BY <1>2, <1>7, <2>1, MaxOf
  <2> QED BY <1>4, <1>5, <1>7, <2>2
<1> QED BY <1>6, <1>7

(***************************************************************************)
(* The invariant                                                           *)
(***************************************************************************)
Evaluating(r) == run[r].pc \in {"evaluate", "trigger"}
Prepared(r)   == run[r].pc \in {"upsert", "create", "evaluate", "trigger"}

(* What a run has read is still so, unless its day was disturbed.          *)
RunReads(r) ==
    LET d == run[r].day IN
    /\ ~At(r, "idle") => d \in Days /\ d <= today
    /\ At(r, "prev") \/ Prepared(r) => run[r].fetched \in Quotes
    /\ Prepared(r) /\ d \notin disturbed => run[r].prev = RateBefore(d)

(* The crossings of an undisturbed day that run r evaluates: each is about *)
(* to be triggered, or was.                                                *)
Triggers(r, d) ==
    \A a \in Alerts \ edited :
        /\ a \in run[r].triggered =>
             Present(a) /\ Crosses(a, run[r].prev, run[r].fetched)
        /\ a \in watched[d] /\ Crosses(a, run[r].prev, run[r].fetched) =>
             a \in run[r].triggered \/ fired[a][d] > 0

(* The run that evaluates an undisturbed day wrote its row and is alone.   *)
Alone(r, d) == \A s \in Runs \ {r} : ~(Evaluating(s) /\ run[s].day = d)
Evaluates(r, d) ==
    /\ snapshot[d] = run[r].fetched
    /\ Alone(r, d)
    /\ At(r, "evaluate") => \A a \in Alerts : fired[a][d] = 0
    /\ At(r, "trigger") => (\A a \in run[r].triggered : fired[a][d] = 0) /\ Triggers(r, d)

RunSound(r) ==
    LET d == run[r].day IN
    /\ RunReads(r)
    /\ Evaluating(r) => Captured(d) /\ (d \notin disturbed => Evaluates(r, d))

(* A day whose row is not written has not been evaluated; the alerts it    *)
(* watches or has fired are still there unless their users changed them.   *)
DaySound(d) ==
    /\ Captured(d) => d <= today
    /\ ~Captured(d) => d \notin settled /\ \A a \in Alerts : fired[a][d] = 0
    /\ \A a \in Alerts \ edited : /\ a \in watched[d] => a \in Active
                                  /\ fired[a][d] > 0 => Present(a)

(* The three properties of a day                                           *)
DayRight(d) ==
    d \notin disturbed =>
        /\ \A a \in Alerts : fired[a][d] <= 1
        /\ \A a \in Alerts \ edited : fired[a][d] > 0 => Crossed(a, d)
        /\ d \in settled => \A a \in watched[d] \ edited : Crossed(a, d) => fired[a][d] > 0

SnapshotInv ==
    /\ TypeOK
    /\ \A r \in Runs : RunSound(r)
    /\ \A d \in Days : DaySound(d) /\ DayRight(d)

(* The alerts no user has changed keep what they are evaluated by.         *)
AlertsKept ==
    /\ edited \subseteq edited'
    /\ \A a \in Alerts \ edited' : Present(a) =>
        /\ alert'[a].row = "present" /\ alert'[a].active = alert[a].active
        /\ alert'[a].direction = alert[a].direction
        /\ alert'[a].threshold = alert[a].threshold

(***************************************************************************)
(* The alerts                                                              *)
(***************************************************************************)
LEMMA AlertFields ==
  ASSUME TypeOK, NEW a \in Alerts, Present(a)
  PROVE  /\ alert[a].direction \in {"ABOVE", "BELOW"}
         /\ alert[a].threshold \in Nat \ {0}
         /\ alert[a].active \in BOOLEAN
<1>1. alert[a] \in AlertRow
  BY DEF TypeOK, AlertsTypeOK
<1>2. alert[a] \in [row: {"present"}, userId: Users, direction: {"ABOVE", "BELOW"},
                    threshold: Thresholds, active: BOOLEAN, lastTriggeredRate: Nat]
  BY <1>1 DEF AlertRow, NoAlert, Deleted, Present
<1> QED BY <1>2, ThresholdsAssumption

(* A crossing of the stored rates is one evaluate would see.               *)
LEMMA CrossedIsCrosses ==
  ASSUME TypeOK, NEW a \in Alerts, Present(a), NEW d \in Days
  PROVE  Crossed(a, d) <=> Captured(d) /\ Crosses(a, RateBefore(d), snapshot[d])
<1>1. RateBefore(d) \in Nat /\ snapshot[d] \in Nat
  BY RateBeforeType DEF TypeOK
<1>2. alert[a].direction \in {"ABOVE", "BELOW"} /\ alert[a].threshold \in Nat
  BY AlertFields
<1>3. CASE alert[a].direction = "ABOVE"
  BY <1>1, <1>2, <1>3 DEF Crossed, Crosses, Reaches
<1>4. CASE alert[a].direction = "BELOW"
  BY <1>1, <1>2, <1>4 DEF Crossed, Crosses, Reaches
<1> QED BY <1>2, <1>3, <1>4

LEMMA CrossesKept ==
  ASSUME AlertsKept, NEW a \in Alerts \ edited', Present(a), NEW prev, NEW new
  PROVE  Crosses(a, prev, new)' = Crosses(a, prev, new)
  BY DEF AlertsKept, Crosses

LEMMA CrossedKept ==
  ASSUME AlertsKept, NEW a \in Alerts \ edited', Present(a), NEW d \in Days,
         snapshot'[d] = snapshot[d], RateBefore(d)' = RateBefore(d)
  PROVE  Crossed(a, d)' = Crossed(a, d)
  BY DEF AlertsKept, Crossed, Reaches, Captured

LEMMA PresentKept ==
  ASSUME AlertsKept, NEW a \in Alerts \ edited', Present(a)
  PROVE  /\ a \in Alerts \ edited /\ Present(a)'
         /\ a \in Active => (a \in Active)'
  BY DEF AlertsKept, Present, Active

(***************************************************************************)
(* What a step that leaves a day or a run alone preserves                  *)
(***************************************************************************)
LEMMA DaySoundKept ==
  ASSUME AlertsKept, NEW d \in Days, DaySound(d), TypeOK, today' \in Nat, today <= today',
         snapshot'[d] = snapshot[d], watched'[d] = watched[d],
         \A a \in Alerts : fired'[a][d] = fired[a][d], d \in settled' => d \in settled
  PROVE  DaySound(d)'
<1>1. Captured(d)' = Captured(d)
  BY DEF Captured
<1>2. (Captured(d) => d <= today)'
  BY <1>1, LastDayAssumption DEF DaySound, TypeOK, Days
<1>3. (~Captured(d) => d \notin settled /\ \A a \in Alerts : fired[a][d] = 0)'
  BY <1>1 DEF DaySound
<1>4. ASSUME NEW a \in Alerts \ edited'
      PROVE  (/\ a \in watched[d] => a \in Active
              /\ fired[a][d] > 0 => Present(a))'
  <2>1. a \in Alerts \ edited /\ fired'[a][d] = fired[a][d]
    BY DEF AlertsKept
  <2>2. a \in watched[d] => a \in Active /\ Present(a)
    BY <2>1 DEF DaySound, Active
  <2>3. fired[a][d] > 0 => Present(a)
    BY <2>1 DEF DaySound
  <2>4. Present(a) => Present(a)' /\ (a \in Active => (a \in Active)')
    BY PresentKept
  <2> QED BY <2>1, <2>2, <2>3, <2>4
<1> QED BY <1>2, <1>3, <1>4 DEF DaySound

LEMMA DayRightKept ==
  ASSUME AlertsKept, TypeOK', NEW d \in Days, DaySound(d), DayRight(d), disturbed \subseteq disturbed',
         snapshot'[d] = snapshot[d], RateBefore(d)' = RateBefore(d), watched'[d] = watched[d],
         \A a \in Alerts : fired'[a][d] = fired[a][d], d \in settled' => d \in settled
  PROVE  DayRight(d)'
<1> SUFFICES ASSUME d \notin disturbed'
             PROVE  (/\ \A a \in Alerts : fired[a][d] <= 1
                     /\ \A a \in Alerts \ edited : fired[a][d] > 0 => Crossed(a, d)
                     /\ d \in settled => \A a \in watched[d] \ edited :
                                            Crossed(a, d) => fired[a][d] > 0)'
  BY DEF DayRight
<1>1. d \notin disturbed
  OBVIOUS
<1>2. (\A a \in Alerts : fired[a][d] <= 1)'
  BY <1>1 DEF DayRight
<1>3. ASSUME NEW a \in Alerts \ edited', fired'[a][d] > 0 PROVE Crossed(a, d)'
  <2>1. a \in Alerts \ edited /\ fired[a][d] > 0
    BY <1>3 DEF AlertsKept
  <2>2. Present(a) /\ Crossed(a, d)
    BY <1>1, <2>1 DEF DaySound, DayRight
  <2> QED BY <2>2, CrossedKept
<1>4. ASSUME d \in settled', NEW a \in watched'[d] \ edited', Crossed(a, d)'
      PROVE  fired'[a][d] > 0
  <2>1. a \in Alerts \ edited /\ a \in watched[d] /\ d \in settled
    BY <1>4 DEF AlertsKept, TypeOK
  <2>2. Present(a)
    BY <2>1 DEF DaySound, Active
  <2>3. Crossed(a, d)
    BY <1>4, <2>1, <2>2, CrossedKept
  <2>4. fired[a][d] > 0
    BY <1>1, <2>1, <2>3 DEF DayRight
  <2> QED BY <2>1, <2>4
<1> QED BY <1>2, <1>3, <1>4

(* Of a day whose row is not written there is nothing to be right about.   *)
LEMMA UncapturedRight ==
  ASSUME TypeOK', NEW d \in Days, DaySound(d)', ~Captured(d)'
  PROVE  DayRight(d)'
<1>1. d \notin settled' /\ \A a \in Alerts : fired'[a][d] = 0
  BY DEF DaySound
<1> QED BY <1>1 DEF DayRight

LEMMA RunSoundKept ==
  ASSUME AlertsKept, TypeOK, TypeOK', NEW r \in Runs, RunSound(r), run'[r] = run[r],
         NEW d, d = run[r].day,
         today <= today', disturbed \subseteq disturbed',
         d \in Days /\ Captured(d) => snapshot'[d] = snapshot[d],
         d \in Days /\ Prepared(r) /\ d \notin disturbed' => RateBefore(d)' = RateBefore(d),
         Evaluating(r) /\ d \notin disturbed' =>
             watched'[d] = watched[d] /\ (\A a \in Alerts : fired'[a][d] = fired[a][d])
             /\ Alone(r, d)',
         Evaluating(r) /\ d \in Days /\ d \notin disturbed' => DaySound(d)
  PROVE  RunSound(r)'
<1>1. RunReads(r)'
  <2>1. d \in Days /\ d <= today => d <= today'
    BY LastDayAssumption DEF TypeOK, Days
  <2>2. (~At(r, "idle") => d \in Days /\ d <= today)'
    BY <2>1 DEF RunSound, RunReads, At
  <2>3. (At(r, "prev") \/ Prepared(r) => run[r].fetched \in Quotes)'
    BY DEF RunSound, RunReads, At, Prepared
  <2>4. (Prepared(r) /\ d \notin disturbed => run[r].prev = RateBefore(d))'
    BY DEF RunSound, RunReads, Prepared, At
  <2> QED BY <2>2, <2>3, <2>4 DEF RunReads
<1>2. ASSUME Evaluating(r)'
      PROVE  Captured(d)' /\ (d \notin disturbed' => Evaluates(r, d)')
  <2>1. Evaluating(r) /\ ~At(r, "idle")
    BY <1>2 DEF Evaluating, At
  <2>2. d \in Days /\ Captured(d) /\ snapshot'[d] = snapshot[d]
    BY <2>1 DEF RunSound, RunReads
  <2>3. Captured(d)'
    BY <2>2 DEF Captured
  <2>4. ASSUME d \notin disturbed' PROVE Evaluates(r, d)'
    <3>1. Evaluates(r, d)
      BY <2>1, <2>4 DEF RunSound
    <3>2. /\ watched'[d] = watched[d] /\ Alone(r, d)'
          /\ \A a \in Alerts : fired'[a][d] = fired[a][d]
      BY <2>1, <2>4
    <3>3. snapshot'[d] = run'[r].fetched
      BY <2>2, <3>1 DEF Evaluates
    <3>4. (At(r, "evaluate") => \A a \in Alerts : fired[a][d] = 0)'
      BY <3>1, <3>2 DEF Evaluates, At
    <3>5. ASSUME At(r, "trigger")'
          PROVE  (\A a \in run[r].triggered : fired[a][d] = 0)' /\ Triggers(r, d)'
      <4>1. (\A a \in run[r].triggered : fired[a][d] = 0) /\ Triggers(r, d)
        BY <3>1, <3>5 DEF Evaluates, At
      <4>2. run[r].triggered \subseteq Alerts
        BY DEF TypeOK, Run
      <4>3. ASSUME NEW a \in Alerts \ edited', a \in run'[r].triggered
            PROVE  Present(a)' /\ Crosses(a, run[r].prev, run[r].fetched)'
        <5>1. a \in Alerts \ edited /\ a \in run[r].triggered
          BY <4>3 DEF AlertsKept
        <5>2. Present(a) /\ Crosses(a, run[r].prev, run[r].fetched)
          BY <4>1, <5>1 DEF Triggers
        <5> QED BY <5>2, CrossesKept, PresentKept DEF Crosses
      <4>4. ASSUME NEW a \in Alerts \ edited', a \in watched'[d],
                   Crosses(a, run[r].prev, run[r].fetched)'
            PROVE  a \in run'[r].triggered \/ fired'[a][d] > 0
        <5>1. a \in Alerts \ edited /\ a \in watched[d] /\ fired'[a][d] = fired[a][d]
          BY <3>2, <4>4 DEF AlertsKept
        <5>2. Present(a)
          BY <2>1, <2>2, <2>4, <5>1 DEF DaySound, Active
        <5>3. Crosses(a, run[r].prev, run[r].fetched)
          BY <4>4, <5>2 DEF Crosses, AlertsKept
        <5> QED BY <4>1, <5>1, <5>3 DEF Triggers
      <4> QED BY <3>2, <4>1, <4>2, <4>3, <4>4 DEF Triggers
    <3> QED BY <3>2, <3>3, <3>4, <3>5 DEF Evaluates
  <2> QED BY <2>3, <2>4
<1> QED BY <1>1, <1>2 DEF RunSound

(* A step of one run that touches no table: what it leaves of the rest.    *)
LEMMA OnlyRun ==
  ASSUME SnapshotInv, TypeOK', NEW r \in Runs, \A s \in Runs \ {r} : run'[s] = run[s],
         UNCHANGED <<alert, today, snapshot, fired, watched, edited, disturbed>>,
         RunSound(r)', Evaluating(r)' => Evaluating(r) /\ run'[r].day = run[r].day
  PROVE  /\ \A s \in Runs : RunSound(s)'
         /\ \A d \in Days : (d \in settled' => d \in settled) => DaySound(d)' /\ DayRight(d)'
<1>1. AlertsKept
  BY DEF AlertsKept, Present
<1>2. \A d \in Days : RateBefore(d)' = RateBefore(d)
  BY RateBeforeSame
<1>3. today \in Nat
  BY LastDayAssumption DEF SnapshotInv, TypeOK, Days
<1>4. ASSUME NEW s \in Runs \ {r} PROVE RunSound(s)'
  <2>1. PICK d : d = run[s].day
    OBVIOUS
  <2>2. ASSUME Evaluating(s), d \notin disturbed PROVE Alone(s, d)'
    <3>1. Alone(s, d)
      BY <2>1, <2>2 DEF SnapshotInv, RunSound, Evaluates
    <3> QED BY <3>1 DEF Alone, Evaluating
  <2>3. RunSound(s) /\ TypeOK /\ (d \in Days => DaySound(d))
    BY DEF SnapshotInv
  <2> QED BY <1>1, <1>2, <1>3, <2>1, <2>2, <2>3, RunSoundKept
<1>5. ASSUME NEW d \in Days, d \in settled' => d \in settled
      PROVE  DaySound(d)' /\ DayRight(d)'
  <2>1. TypeOK /\ DaySound(d) /\ DayRight(d)
    BY DEF SnapshotInv
  <2>2. DaySound(d)'
    BY <1>1, <1>3, <1>5, <2>1, DaySoundKept
  <2>3. DayRight(d)'
    BY <1>1, <1>2, <1>5, <2>1, DayRightKept
  <2> QED BY <2>2, <2>3
<1> QED BY <1>4, <1>5

LEMMA RunType ==
  ASSUME TypeOK, NEW r \in Runs
  PROVE  /\ run[r] \in Run /\ run[r].day \in 0 .. LastDay /\ run[r].fetched \in Nat
         /\ run[r].prev \in Nat /\ run[r].triggered \subseteq Alerts
  BY DEF TypeOK, Run

LEMMA IdleSound ==
  ASSUME NEW r \in Runs, run'[r] = Idle
  PROVE  RunSound(r)' /\ ~Evaluating(r)'
  BY DEF RunSound, RunReads, At, Prepared, Evaluating, Idle

LEMMA IdleType == Idle \in Run
  BY LastDayAssumption DEF Idle, Run, PCs

(* Run r goes on with a new record, or only with a new program counter.    *)
LEMMA RunMoves ==
  ASSUME TypeOK, NEW r \in Runs, NEW new \in Run, run' = [run EXCEPT ![r] = new]
  PROVE  /\ run'[r] = new /\ \A s \in Runs \ {r} : run'[s] = run[s]
         /\ run' \in [Runs -> Run]
  BY DEF TypeOK

LEMMA PcMoves ==
  ASSUME TypeOK, NEW r \in Runs, NEW pc \in PCs, run' = [run EXCEPT ![r].pc = pc]
  PROVE  /\ run'[r].pc = pc /\ run'[r].day = run[r].day /\ run'[r].fetched = run[r].fetched
         /\ run'[r].prev = run[r].prev /\ run'[r].triggered = run[r].triggered
         /\ \A s \in Runs \ {r} : run'[s] = run[s]
         /\ run' \in [Runs -> Run]
<1>1. PICK new : new = [run[r] EXCEPT !.pc = pc]
  OBVIOUS
<1>2. /\ new \in Run /\ new.pc = pc /\ new.day = run[r].day /\ new.fetched = run[r].fetched
      /\ new.prev = run[r].prev /\ new.triggered = run[r].triggered
  BY <1>1, RunType DEF Run
<1>3. run' = [run EXCEPT ![r] = new]
  BY <1>1
<1> QED BY <1>2, <1>3, RunMoves

(***************************************************************************)
(* One lemma per step                                                      *)
(***************************************************************************)
LEMMA StartStep ==
  ASSUME SnapshotInv, NEW r \in Runs, Start(r)
  PROVE  SnapshotInv'
<1>1. PICK new : new = [Idle EXCEPT !.pc = "check", !.day = today]
  OBVIOUS
<1>2. TypeOK /\ today \in Days
  BY DEF SnapshotInv, TypeOK
<1>3. new \in Run /\ new.pc = "check" /\ new.day = today
  <2>1. new = [pc |-> "check", day |-> today, fetched |-> 0, prev |-> 0, triggered |-> {}]
    BY <1>1 DEF Idle
  <2>2. "check" \in PCs /\ today \in 0 .. LastDay
    BY <1>2, LastDayAssumption DEF PCs, Days
  <2> QED BY <2>1, <2>2 DEF Run
<1>4. run' = [run EXCEPT ![r] = new]
  BY <1>1 DEF Start, TodayUtc
<1>5. /\ run'[r] = new /\ \A s \in Runs \ {r} : run'[s] = run[s]
      /\ run' \in [Runs -> Run]
  BY <1>2, <1>3, <1>4, RunMoves
<1>6. UNCHANGED <<alert, creating, today, snapshot, fired, watched, edited, settled,
                  skipped, disturbed>>
  BY DEF Start, alerts, history
<1>7. TypeOK'
  BY <1>2, <1>5, <1>6 DEF TypeOK, AlertsTypeOK
<1>8. RunSound(r)' /\ ~Evaluating(r)'
  BY <1>2, <1>3, <1>5, <1>6, LastDayAssumption
     DEF RunSound, RunReads, At, Prepared, Evaluating, Days
<1> QED BY <1>5, <1>6, <1>7, <1>8, OnlyRun DEF SnapshotInv

(* A run that returns, whatever it was doing.                              *)
LEMMA ReturnStep ==
  ASSUME SnapshotInv, NEW r \in Runs, run' = [run EXCEPT ![r] = Idle], TypeOK',
         UNCHANGED <<alert, today, snapshot, fired, watched, edited, disturbed>>
  PROVE  /\ \A s \in Runs : RunSound(s)'
         /\ \A d \in Days : (d \in settled' => d \in settled) => DaySound(d)' /\ DayRight(d)'
<1>1. run'[r] = Idle /\ \A s \in Runs \ {r} : run'[s] = run[s]
  BY IdleType, RunMoves DEF SnapshotInv
<1> QED BY <1>1, IdleSound, OnlyRun

LEMMA ReturnType ==
  ASSUME TypeOK, NEW r \in Runs, run' = [run EXCEPT ![r] = Idle],
         UNCHANGED <<alert, creating, today, snapshot, fired, watched, edited, disturbed>>,
         settled' \in SUBSET Days, skipped' \in SUBSET Days
  PROVE  TypeOK'
<1>1. run' \in [Runs -> Run]
  BY IdleType, RunMoves
<1> QED BY <1>1 DEF TypeOK, AlertsTypeOK

LEMMA StopStep ==
  ASSUME SnapshotInv, NEW r \in Runs, Stop(r)
  PROVE  SnapshotInv'
<1>1. /\ run' = [run EXCEPT ![r] = Idle]
      /\ UNCHANGED <<alert, creating, today, snapshot, fired, watched, edited, settled,
                     skipped, disturbed>>
  BY DEF Stop, alerts, history
<1>2. TypeOK'
  BY <1>1, ReturnType DEF SnapshotInv, TypeOK
<1> QED BY <1>1, <1>2, ReturnStep DEF SnapshotInv

LEMMA CheckStep ==
  ASSUME SnapshotInv, NEW r \in Runs, Check(r)
  PROVE  SnapshotInv'
<1>1. /\ At(r, "check") /\ TypeOK
      /\ UNCHANGED <<alert, creating, today, snapshot, fired, watched, edited, settled,
                     disturbed>>
  BY DEF Check, alerts, SnapshotInv
<1>2. run[r].day \in Days /\ run[r].day <= today
  BY <1>1 DEF SnapshotInv, RunSound, RunReads, At
<1>3. CASE run' = [run EXCEPT ![r] = Idle]
  <2>1. skipped' \in SUBSET Days
    BY <1>1, <1>2 DEF Check, TypeOK
  <2>2. TypeOK'
    BY <1>1, <1>3, <2>1, ReturnType DEF TypeOK
  <2> QED BY <1>1, <1>3, <2>2, ReturnStep DEF SnapshotInv
<1>4. CASE run' = [run EXCEPT ![r].pc = "fetch"] /\ UNCHANGED skipped
  <2>1. /\ run'[r].pc = "fetch" /\ run'[r].day = run[r].day /\ run' \in [Runs -> Run]
        /\ \A s \in Runs \ {r} : run'[s] = run[s]
    BY <1>1, <1>4, PcMoves DEF PCs
  <2>2. TypeOK'
    BY <1>1, <1>4, <2>1 DEF TypeOK, AlertsTypeOK
  <2>3. RunSound(r)' /\ ~Evaluating(r)'
    BY <1>1, <1>2, <2>1 DEF RunSound, RunReads, At, Prepared, Evaluating
  <2> QED BY <1>1, <1>4, <2>1, <2>2, <2>3, OnlyRun DEF SnapshotInv
<1> QED BY <1>3, <1>4 DEF Check, Return

LEMMA FetchStep ==
  ASSUME SnapshotInv, NEW r \in Runs, Fetch(r)
  PROVE  SnapshotInv'
<1>1. /\ At(r, "fetch") /\ TypeOK
      /\ UNCHANGED <<alert, creating, today, snapshot, fired, watched, edited, settled,
                     skipped, disturbed>>
  BY DEF Fetch, alerts, history, SnapshotInv
<1>2. PICK x \in Quotes : run' = [run EXCEPT ![r] = [run[r] EXCEPT !.pc = "prev", !.fetched = x]]
  BY DEF Fetch, TypeOK, SnapshotInv
<1>3. PICK new : new = [run[r] EXCEPT !.pc = "prev", !.fetched = x]
  OBVIOUS
<1>4. new \in Run /\ new.pc = "prev" /\ new.day = run[r].day /\ new.fetched = x
  <2>1. "prev" \in PCs /\ x \in Nat
    BY QuotesAssumption DEF PCs
  <2> QED BY <1>1, <1>3, <2>1, RunType DEF Run
<1>5. /\ run'[r] = new /\ \A s \in Runs \ {r} : run'[s] = run[s]
      /\ run' \in [Runs -> Run]
  BY <1>1, <1>2, <1>3, <1>4, RunMoves
<1>6. TypeOK'
  BY <1>1, <1>5 DEF TypeOK, AlertsTypeOK
<1>7. run[r].day \in Days /\ run[r].day <= today
  BY <1>1 DEF SnapshotInv, RunSound, RunReads, At
<1>8. RunSound(r)' /\ ~Evaluating(r)'
  BY <1>1, <1>4, <1>5, <1>7 DEF RunSound, RunReads, At, Prepared, Evaluating
<1> QED BY <1>1, <1>5, <1>6, <1>8, OnlyRun DEF SnapshotInv

LEMMA ReadPrevStep ==
  ASSUME SnapshotInv, NEW r \in Runs, ReadPrev(r)
  PROVE  SnapshotInv'
<1>1. /\ At(r, "prev") /\ TypeOK
      /\ UNCHANGED <<alert, creating, today, snapshot, fired, watched, edited, settled,
                     skipped, disturbed>>
  BY DEF ReadPrev, alerts, history, SnapshotInv
<1>2. PICK d : d = run[r].day
  OBVIOUS
<1>3. d \in Days /\ d <= today /\ run[r].fetched \in Quotes
  BY <1>1, <1>2 DEF SnapshotInv, RunSound, RunReads, At
<1>4. PICK prev : prev = RateBefore(d)
  OBVIOUS
<1>5. PICK new : new = [run[r] EXCEPT !.pc = "upsert", !.prev = prev]
  OBVIOUS
<1>6. run' = [run EXCEPT ![r] = new]
  BY <1>1, <1>2, <1>4, <1>5 DEF ReadPrev, TypeOK
<1>7. /\ new \in Run /\ new.pc = "upsert" /\ new.day = d /\ new.prev = prev
      /\ new.fetched = run[r].fetched
  <2>1. "upsert" \in PCs /\ prev \in Nat
    BY <1>1, <1>3, <1>4, RateBeforeType DEF PCs, TypeOK
  <2> QED BY <1>1, <1>2, <1>5, <2>1, RunType DEF Run
<1>8. /\ run'[r] = new /\ \A s \in Runs \ {r} : run'[s] = run[s]
      /\ run' \in [Runs -> Run]
  BY <1>1, <1>6, <1>7, RunMoves
<1>9. TypeOK'
  BY <1>1, <1>8 DEF TypeOK, AlertsTypeOK
<1>10. RateBefore(d)' = prev
  BY <1>1, <1>3, <1>4, RateBeforeSame
<1>11. RunSound(r)' /\ ~Evaluating(r)'
  BY <1>1, <1>3, <1>7, <1>8, <1>10 DEF RunSound, RunReads, At, Prepared, Evaluating
<1> QED BY <1>1, <1>8, <1>9, <1>11, OnlyRun DEF SnapshotInv

LEMMA EvaluateStep ==
  ASSUME SnapshotInv, NEW r \in Runs, Evaluate(r)
  PROVE  SnapshotInv'
<1>1. /\ At(r, "evaluate") /\ Evaluating(r) /\ TypeOK
      /\ UNCHANGED <<alert, creating, today, snapshot, fired, watched, edited, settled,
                     skipped, disturbed>>
  BY DEF Evaluate, alerts, history, SnapshotInv, At, Evaluating
<1>2. PICK d : d = run[r].day
  OBVIOUS
<1>3. RunSound(r) /\ d \in Days /\ d <= today /\ run[r].fetched \in Quotes /\ Captured(d)
  BY <1>1, <1>2 DEF SnapshotInv, RunSound, RunReads, At, Prepared
<1>4. PICK T : T = {a \in Active : Crosses(a, run[r].prev, run[r].fetched)}
  OBVIOUS
<1>5. PICK new : new = [run[r] EXCEPT !.pc = "trigger", !.triggered = T]
  OBVIOUS
<1>6. run' = [run EXCEPT ![r] = new]
  BY <1>1, <1>4, <1>5 DEF Evaluate, TypeOK
<1>7. /\ new \in Run /\ new.pc = "trigger" /\ new.day = d /\ new.triggered = T
      /\ new.fetched = run[r].fetched /\ new.prev = run[r].prev
  <2>1. "trigger" \in PCs /\ T \in SUBSET Alerts
    BY <1>4 DEF PCs, Active
  <2> QED BY <1>1, <1>2, <1>5, <2>1, RunType DEF Run
<1>8. /\ run'[r] = new /\ \A s \in Runs \ {r} : run'[s] = run[s]
      /\ run' \in [Runs -> Run]
  BY <1>1, <1>6, <1>7, RunMoves
<1>9. TypeOK'
  BY <1>1, <1>8 DEF TypeOK, AlertsTypeOK
<1>10. RateBefore(d)' = RateBefore(d)
  BY <1>1, <1>3, RateBeforeSame
<1>11. RunReads(r)'
  BY <1>1, <1>2, <1>3, <1>7, <1>8, <1>10 DEF RunSound, RunReads, At, Prepared
<1>12. ASSUME d \notin disturbed
       PROVE  Evaluates(r, d)'
  <2>1. Evaluates(r, d)
    BY <1>1, <1>2, <1>3, <1>12 DEF RunSound
  <2>2. snapshot'[d] = run'[r].fetched /\ Alone(r, d)'
    BY <1>1, <1>7, <1>8, <2>1 DEF Evaluates, Alone, Evaluating
  <2>3. ~At(r, "evaluate")' /\ \A a \in Alerts : fired'[a][d] = 0
    BY <1>1, <1>7, <1>8, <2>1 DEF Evaluates, At
  <2>4. T \subseteq Alerts
    BY <1>4 DEF Active
  <2>5. ASSUME NEW a \in Alerts \ edited
        PROVE  /\ a \in T => Present(a)' /\ Crosses(a, run[r].prev, run[r].fetched)'
               /\ a \in watched[d] /\ Crosses(a, run[r].prev, run[r].fetched)' => a \in T
    <3>1. Crosses(a, run[r].prev, run[r].fetched)' = Crosses(a, run[r].prev, run[r].fetched)
      BY <1>1, <1>7, <1>8 DEF Crosses
    <3>2. a \in T => Present(a)' /\ Crosses(a, run[r].prev, run[r].fetched)
      BY <1>1, <1>4 DEF Active, Present
    <3>3. a \in watched[d] => a \in Active
      BY <1>3 DEF SnapshotInv, DaySound
    <3> QED BY <1>4, <3>1, <3>2, <3>3
  <2>6. Triggers(r, d)'
    BY <1>1, <1>7, <1>8, <2>5 DEF Triggers
  <2> QED BY <1>7, <1>8, <2>2, <2>3, <2>4, <2>6 DEF Evaluates
<1>13. RunSound(r)'
  BY <1>1, <1>3, <1>7, <1>8, <1>11, <1>12 DEF RunSound, Captured
<1> QED BY <1>1, <1>2, <1>7, <1>8, <1>9, <1>13, OnlyRun DEF SnapshotInv

LEMMA FinishStep ==
  ASSUME SnapshotInv, NEW r \in Runs, Finish(r)
  PROVE  SnapshotInv'
<1>1. PICK d : d = run[r].day
  OBVIOUS
<1>2. /\ At(r, "trigger") /\ Evaluating(r) /\ TypeOK /\ run[r].triggered = {}
      /\ run' = [run EXCEPT ![r] = Idle] /\ settled' = settled \cup {d}
      /\ UNCHANGED <<alert, creating, today, snapshot, fired, watched, edited, skipped,
                     disturbed>>
  BY <1>1 DEF Finish, Return, alerts, SnapshotInv, At, Evaluating
<1>3. RunSound(r) /\ d \in Days /\ Captured(d) /\ DaySound(d) /\ DayRight(d)
  BY <1>1, <1>2 DEF SnapshotInv, RunSound, RunReads, At
<1>4. TypeOK'
  <2>1. settled' \in SUBSET Days /\ skipped' \in SUBSET Days
    BY <1>2, <1>3 DEF TypeOK
  <2> QED BY <1>2, <2>1, ReturnType
<1>5. /\ \A s \in Runs : RunSound(s)'
      /\ \A e \in Days \ {d} : DaySound(e)' /\ DayRight(e)'
  BY <1>2, <1>4, ReturnStep
<1>6. DaySound(d)'
  BY <1>2, <1>3 DEF DaySound, Captured, Active, Present
<1>7. RateBefore(d)' = RateBefore(d)
  BY <1>2, <1>3, RateBeforeSame
<1>8. \A a \in Alerts : Crossed(a, d)' = Crossed(a, d)
  BY <1>2, <1>7 DEF Crossed, Captured, Reaches
<1>9. ASSUME d \notin disturbed, NEW a \in watched[d] \ edited, Crossed(a, d)
      PROVE  fired[a][d] > 0
  <2>1. a \in Alerts \ edited /\ Present(a)
    BY <1>2, <1>3, <1>9 DEF TypeOK, DaySound, Active
  <2>2. Crosses(a, RateBefore(d), snapshot[d])
    BY <1>2, <1>3, <1>9, <2>1, CrossedIsCrosses
  <2>3. Evaluates(r, d) /\ run[r].prev = RateBefore(d)
    BY <1>1, <1>2, <1>3, <1>9 DEF RunSound, RunReads, Prepared, Evaluating
  <2>4. Triggers(r, d) /\ snapshot[d] = run[r].fetched
    BY <1>2, <2>3 DEF Evaluates
  <2> QED BY <1>2, <1>9, <2>1, <2>2, <2>3, <2>4 DEF Triggers
<1>10. DayRight(d)'
  <2>1. watched[d] \subseteq Alerts
    BY <1>2, <1>3 DEF TypeOK
  <2> QED BY <1>2, <1>3, <1>8, <1>9, <2>1 DEF DayRight
<1> QED BY <1>4, <1>5, <1>6, <1>10 DEF SnapshotInv

(* The day and the alerts of others may move on beside the runs.           *)
LEMMA RunsKept ==
  ASSUME SnapshotInv, TypeOK', AlertsKept, today' \in Nat, today <= today',
         UNCHANGED <<snapshot, run, fired, watched, settled, disturbed>>
  PROVE  SnapshotInv'
<1>1. TypeOK /\ \A d \in Days : RateBefore(d)' = RateBefore(d)
  BY RateBeforeSame DEF SnapshotInv
<1>2. ASSUME NEW r \in Runs PROVE RunSound(r)'
  <2>1. PICK d : d = run[r].day
    OBVIOUS
  <2>2. ASSUME Evaluating(r), d \notin disturbed PROVE Alone(r, d)'
    BY <2>1, <2>2 DEF SnapshotInv, RunSound, Evaluates, Alone, Evaluating
  <2>3. RunSound(r) /\ (d \in Days => DaySound(d))
    BY DEF SnapshotInv
  <2> QED BY <1>1, <2>1, <2>2, <2>3, RunSoundKept
<1>3. ASSUME NEW d \in Days PROVE DaySound(d)' /\ DayRight(d)'
  <2>1. DaySound(d) /\ DayRight(d)
    BY DEF SnapshotInv
  <2> QED BY <1>1, <2>1, DaySoundKept, DayRightKept
<1> QED BY <1>2, <1>3 DEF SnapshotInv

LEMMA NextDayStep ==
  ASSUME SnapshotInv, NextDay
  PROVE  SnapshotInv'
<1>1. /\ TypeOK /\ today < LastDay /\ today' = today + 1
      /\ UNCHANGED <<alert, creating, snapshot, run, fired, watched, edited, settled,
                     skipped, disturbed>>
  BY DEF NextDay, alerts, history, SnapshotInv
<1>2. today' \in Days /\ today' \in Nat /\ today <= today'
  BY <1>1, LastDayAssumption DEF TypeOK, Days
<1>3. TypeOK'
  BY <1>1, <1>2 DEF TypeOK, AlertsTypeOK
<1>4. AlertsKept
  BY <1>1 DEF AlertsKept, Present
<1> QED BY <1>1, <1>2, <1>3, <1>4, RunsKept

LEMMA UseAlertsStep ==
  ASSUME SnapshotInv, UseAlerts
  PROVE  SnapshotInv'
<1>1. /\ TypeOK /\ AlertsNext
      /\ edited' = edited \cup {a \in Alerts : Present(a) /\ alert'[a] # alert[a]}
      /\ UNCHANGED <<today, snapshot, run, fired, watched, settled, skipped, disturbed>>
  BY DEF UseAlerts, SnapshotInv
<1>2. AlertsTypeOK'
  BY <1>1, AlertsTypeStep DEF TypeOK
<1>3. TypeOK'
  BY <1>1, <1>2 DEF TypeOK
<1>4. AlertsKept
  BY <1>1 DEF AlertsKept, Present
<1>5. today \in Nat
  BY <1>1, LastDayAssumption DEF TypeOK, Days
<1> QED BY <1>1, <1>3, <1>4, <1>5, RunsKept

(* A run that finds the row of another one disturbs the day, ...           *)
LEMMA UpsertReadStep ==
  ASSUME SnapshotInv, NEW r \in Runs, UpsertRead(r)
  PROVE  SnapshotInv'
<1>1. PICK d : d = run[r].day
  OBVIOUS
<1>2. /\ At(r, "upsert") /\ TypeOK
      /\ UNCHANGED <<alert, creating, today, snapshot, fired, watched, edited, settled,
                     skipped>>
      /\ run' = [run EXCEPT ![r].pc = IF Captured(d) THEN "evaluate" ELSE "create"]
      /\ disturbed' = IF Captured(d) THEN disturbed \cup {d} ELSE disturbed
  BY <1>1 DEF UpsertRead, alerts, SnapshotInv
<1>3. RunSound(r) /\ d \in Days /\ d <= today /\ run[r].fetched \in Quotes
      /\ (d \notin disturbed => run[r].prev = RateBefore(d)) /\ ~Evaluating(r)
  BY <1>1, <1>2 DEF SnapshotInv, RunSound, RunReads, At, Prepared, Evaluating
<1>4. PICK pc \in PCs : pc = IF Captured(d) THEN "evaluate" ELSE "create"
  BY DEF PCs
<1>5. /\ run'[r].pc = pc /\ run'[r].day = d /\ run'[r].fetched = run[r].fetched
      /\ run'[r].prev = run[r].prev
      /\ \A s \in Runs \ {r} : run'[s] = run[s]
      /\ run' \in [Runs -> Run]
  BY <1>1, <1>2, <1>4, PcMoves
<1>6. TypeOK'
  BY <1>2, <1>3, <1>5 DEF TypeOK, AlertsTypeOK
<1>7. AlertsKept
  BY <1>2 DEF AlertsKept, Present
<1>8. \A e \in Days : RateBefore(e)' = RateBefore(e)
  BY <1>2, RateBeforeSame
<1>9. today \in Nat
  BY <1>2, LastDayAssumption DEF TypeOK, Days
<1>10. RunSound(r)'
  <2>1. RunReads(r)'
    BY <1>2, <1>3, <1>4, <1>5, <1>8 DEF RunReads, At, Prepared
  <2>2. Evaluating(r)' => Captured(d)' /\ d \in disturbed'
    BY <1>2, <1>4, <1>5 DEF Evaluating, Captured
  <2> QED BY <1>5, <2>1, <2>2 DEF RunSound
<1>11. ASSUME NEW s \in Runs \ {r} PROVE RunSound(s)'
  <2>1. PICK e : e = run[s].day
    OBVIOUS
  <2>2. ASSUME Evaluating(s), e \notin disturbed' PROVE Alone(s, e)'
    <3>1. e \notin disturbed /\ RunSound(s) /\ Captured(e)
      BY <1>2, <2>1, <2>2 DEF SnapshotInv, RunSound
    <3>2. Alone(s, e)
      BY <2>1, <2>2, <3>1 DEF RunSound, Evaluates
    <3>3. e # d
      BY <1>2, <2>2, <3>1
    <3> QED BY <1>5, <3>2, <3>3 DEF Alone, Evaluating
  <2>3. RunSound(s) /\ (e \in Days => DaySound(e)) /\ run'[s] = run[s]
    BY <1>5 DEF SnapshotInv
  <2>4. today <= today' /\ disturbed \subseteq disturbed'
    BY <1>2, <1>9
  <2> QED BY <1>2, <1>6, <1>7, <1>8, <2>1, <2>2, <2>3, <2>4, RunSoundKept
<1>12. ASSUME NEW e \in Days PROVE DaySound(e)' /\ DayRight(e)'
  <2>1. DaySound(e) /\ DayRight(e) /\ today <= today' /\ disturbed \subseteq disturbed'
    BY <1>2, <1>9 DEF SnapshotInv
  <2> QED BY <1>2, <1>6, <1>7, <1>8, <1>9, <2>1, DaySoundKept, DayRightKept
<1> QED BY <1>6, <1>10, <1>11, <1>12 DEF SnapshotInv

(* ... and one that writes it disturbs the later days that have begun.     *)
LEMMA UpsertCreateStep ==
  ASSUME SnapshotInv, NEW r \in Runs, UpsertCreate(r)
  PROVE  SnapshotInv'
<1>1. PICK d : d = run[r].day
  OBVIOUS
<1>2. /\ At(r, "create") /\ TypeOK
      /\ UNCHANGED <<alert, creating, today, fired, edited, settled, skipped>>
  BY DEF UpsertCreate, alerts, SnapshotInv
<1>3. RunSound(r) /\ d \in Days /\ d <= today /\ run[r].fetched \in Quotes
      /\ (d \notin disturbed => run[r].prev = RateBefore(d)) /\ ~Evaluating(r)
  BY <1>1, <1>2 DEF SnapshotInv, RunSound, RunReads, At, Prepared, Evaluating
<1>4. CASE run' = [run EXCEPT ![r] = Idle] /\ UNCHANGED <<snapshot, watched, disturbed>>
  <2>1. TypeOK'
    BY <1>2, <1>4, ReturnType DEF TypeOK
  <2> QED BY <1>2, <1>4, <2>1, ReturnStep DEF SnapshotInv
<1>5. CASE /\ ~Captured(d)
           /\ snapshot' = [snapshot EXCEPT ![d] = Stored(run[r].fetched)]
           /\ watched' = [watched EXCEPT ![d] = Active]
           /\ disturbed' = disturbed \cup Disturbs(d, run[r].fetched)
           /\ run' = [run EXCEPT ![r].pc = "evaluate"]
  <2>1. /\ run'[r].pc = "evaluate" /\ run'[r].day = d /\ run'[r].fetched = run[r].fetched
        /\ run'[r].prev = run[r].prev
        /\ \A s \in Runs \ {r} : run'[s] = run[s]
        /\ run' \in [Runs -> Run]
    BY <1>1, <1>2, <1>5, PcMoves DEF PCs
  <2>2. Stored(run[r].fetched) \in Nat \ {0}
    <3>1. run[r].fetched \in Nat /\ Stored(run[r].fetched) # 0
      BY <1>3, QuotesAssumption
    <3> QED BY <3>1 DEF Stored
  <2>3. /\ snapshot'[d] = Stored(run[r].fetched) /\ watched'[d] = Active
        /\ \A e \in Days \ {d} : snapshot'[e] = snapshot[e] /\ watched'[e] = watched[e]
        /\ snapshot' \in [Days -> Nat] /\ watched' \in [Days -> SUBSET Alerts]
    BY <1>2, <1>3, <1>5, <2>2 DEF TypeOK, Active
  <2>4. /\ Captured(d)'
        /\ \A e \in Days \ {d} : Captured(e)' = Captured(e)
    BY <2>2, <2>3 DEF Captured
  <2>5. /\ disturbed \subseteq disturbed' /\ disturbed' \in SUBSET Days
        /\ d \notin disturbed' => snapshot'[d] = run[r].fetched
        /\ \A e \in Days : e <= today /\ e \notin disturbed' => ~(d < e)
    BY <1>2, <1>3, <1>5, <2>3 DEF Disturbs, TypeOK
  <2>6. TypeOK'
    BY <1>2, <2>1, <2>3, <2>5 DEF TypeOK, AlertsTypeOK
  <2>7. AlertsKept
    BY <1>2 DEF AlertsKept, Present
  <2>8. today \in Nat /\ Days \subseteq Nat
    BY <1>2, LastDayAssumption DEF TypeOK, Days
  <2>9. \A e \in Days : ~(d < e) => RateBefore(e)' = RateBefore(e)
    <3> SUFFICES ASSUME NEW e \in Days, ~(d < e) PROVE RateBefore(e)' = RateBefore(e)
      OBVIOUS
    <3>1. \A f \in Days : f < e => f # d
      BY <1>3, <2>8
    <3> QED BY <2>3, <3>1, RateBeforeSame
  <2>10. DaySound(d) /\ d \notin settled /\ \A a \in Alerts : fired[a][d] = 0
    BY <1>3, <1>5 DEF SnapshotInv, DaySound
  <2>11. RunSound(r)'
    <3>1. RunReads(r)'
      BY <1>2, <1>3, <2>1, <2>5, <2>8, <2>9 DEF RunReads, At, Prepared
    <3>2. ASSUME d \notin disturbed' PROVE Evaluates(r, d)'
      <4>1. Alone(r, d)'
        <5> SUFFICES ASSUME NEW s \in Runs \ {r}, Evaluating(s), run[s].day = d PROVE FALSE
          BY <2>1 DEF Alone, Evaluating
        <5> QED BY <1>5 DEF SnapshotInv, RunSound
      <4>2. ~At(r, "trigger")'
        BY <2>1 DEF At
      <4> QED BY <1>2, <2>1, <2>5, <2>10, <3>2, <4>1, <4>2 DEF Evaluates
    <3> QED BY <2>1, <2>4, <3>1, <3>2 DEF RunSound
  <2>12. ASSUME NEW s \in Runs \ {r} PROVE RunSound(s)'
    <3>1. PICK e : e = run[s].day
      OBVIOUS
    <3>2. RunSound(s) /\ (e \in Days => DaySound(e)) /\ run'[s] = run[s]
      BY <2>1 DEF SnapshotInv
    <3>3. Prepared(s) \/ Evaluating(s) => e \in Days /\ e <= today
      BY <3>1, <3>2 DEF RunSound, RunReads, Prepared, Evaluating, At
    <3>4. e \in Days /\ Captured(e) => snapshot'[e] = snapshot[e]
      BY <1>5, <2>3
    <3>5. ASSUME Evaluating(s), e \notin disturbed'
          PROVE  watched'[e] = watched[e] /\ Alone(s, e)'
      <4>1. e \in Days \ {d} /\ Alone(s, e)
        BY <1>5, <2>5, <3>1, <3>2, <3>3, <3>5
           DEF RunSound, Evaluates
      <4> QED BY <2>1, <2>3, <4>1 DEF Alone, Evaluating
    <3>6. Prepared(s) /\ e \notin disturbed' => RateBefore(e)' = RateBefore(e)
      BY <2>5, <2>9, <3>3
    <3>7. today <= today' /\ TypeOK /\ disturbed \subseteq disturbed'
      BY <1>2, <2>5, <2>8
    <3> QED BY <1>2, <2>6, <2>7, <3>1, <3>2, <3>3, <3>4, <3>5, <3>6, <3>7, RunSoundKept
  <2>13. DaySound(d)'
    BY <1>2, <1>3, <2>3, <2>4, <2>10 DEF DaySound, Active, Present
  <2>14. DayRight(d)'
    BY <1>2, <2>10 DEF DayRight
  <2>15. ASSUME NEW e \in Days \ {d} PROVE DaySound(e)' /\ DayRight(e)'
    <3>1. DaySound(e) /\ DayRight(e) /\ snapshot'[e] = snapshot[e] /\ watched'[e] = watched[e]
      BY <2>3 DEF SnapshotInv
    <3>2. DaySound(e)'
      BY <1>2, <2>7, <2>8, <3>1, DaySoundKept
    <3>3. ASSUME Captured(e), e \notin disturbed' PROVE DayRight(e)'
      <4>1. e <= today
        BY <3>1, <3>3 DEF DaySound
      <4>2. RateBefore(e)' = RateBefore(e)
        BY <2>5, <2>9, <3>3, <4>1
      <4> QED BY <1>2, <2>5, <2>6, <2>7, <3>1, <4>2, DayRightKept
    <3>4. ~Captured(e) => DayRight(e)'
      BY <2>4, <2>6, <3>2, UncapturedRight
    <3>5. e \in disturbed' => DayRight(e)'
      BY DEF DayRight
    <3> QED BY <3>2, <3>3, <3>4, <3>5
  <2> QED BY <2>6, <2>11, <2>12, <2>13, <2>14, <2>15 DEF SnapshotInv
<1> QED BY <1>1, <1>4, <1>5 DEF UpsertCreate, Loser, Conflict

LEMMA TriggerStep ==
  ASSUME SnapshotInv, NEW r \in Runs, NEW a \in Alerts, Trigger(r, a)
  PROVE  SnapshotInv'
<1>1. PICK d : d = run[r].day
  OBVIOUS
<1>2. /\ At(r, "trigger") /\ Evaluating(r) /\ TypeOK /\ a \in run[r].triggered
      /\ UNCHANGED <<creating, today, snapshot, watched, edited, settled, skipped, disturbed>>
  BY DEF Trigger, SnapshotInv, At, Evaluating
<1>3. RunSound(r) /\ d \in Days /\ d <= today /\ Captured(d)
  BY <1>1, <1>2 DEF SnapshotInv, RunSound, RunReads, At
<1>4. PICK T : T = run[r].triggered \ {a}
  OBVIOUS
<1>5. PICK new : new = [run[r] EXCEPT !.triggered = T]
  OBVIOUS
<1>6. run' = [run EXCEPT ![r] = new]
  BY <1>2, <1>4, <1>5 DEF Trigger, TypeOK
<1>7. /\ new \in Run /\ new.pc = "trigger" /\ new.day = d /\ new.triggered = T
      /\ new.fetched = run[r].fetched /\ new.prev = run[r].prev
  <2>1. T \in SUBSET Alerts
    BY <1>2, <1>4, RunType
  <2> QED BY <1>1, <1>2, <1>5, <2>1, RunType DEF Run, At
<1>8. /\ run'[r] = new /\ \A s \in Runs \ {r} : run'[s] = run[s]
      /\ run' \in [Runs -> Run]
  BY <1>2, <1>6, <1>7, RunMoves
(* What is written: the rate in the alert's row, and the history of it.    *)
<1>9. /\ alert' \in [Alerts -> AlertRow] /\ AlertsKept
      /\ \A b \in Alerts : Present(b)' = Present(b)
  <2>1. CASE Present(a) /\ alert' = [alert EXCEPT ![a].lastTriggeredRate = Stored(run[r].fetched)]
    <3>1. PICK row : row = [alert[a] EXCEPT !.lastTriggeredRate = Stored(run[r].fetched)]
      OBVIOUS
    <3>2. alert[a] \in [row: {"present"}, userId: Users, direction: {"ABOVE", "BELOW"},
                        threshold: Thresholds, active: BOOLEAN, lastTriggeredRate: Nat]
      BY <1>2, <2>1 DEF TypeOK, AlertsTypeOK, AlertRow, NoAlert, Deleted, Present
    <3>3. Stored(run[r].fetched) \in Nat
      BY <1>2, RunType DEF Stored
    <3>4. /\ row \in AlertRow /\ row.row = "present" /\ row.active = alert[a].active
          /\ row.direction = alert[a].direction /\ row.threshold = alert[a].threshold
      BY <3>1, <3>2, <3>3 DEF AlertRow
    <3>5. /\ alert'[a] = row /\ \A b \in Alerts \ {a} : alert'[b] = alert[b]
          /\ alert' \in [Alerts -> AlertRow]
      BY <1>2, <2>1, <3>1, <3>4 DEF TypeOK, AlertsTypeOK
    <3> QED BY <1>2, <2>1, <3>4, <3>5 DEF AlertsKept, Present
  <2>2. CASE ~Present(a) /\ UNCHANGED alert
    BY <1>2, <2>2 DEF AlertsKept, Present, TypeOK, AlertsTypeOK
  <2> QED BY <2>1, <2>2 DEF Trigger
<1>10. /\ fired' \in [Alerts -> [Days -> Nat]]
       /\ \A b \in Alerts, e \in Days : ~(b = a /\ e = d) => fired'[b][e] = fired[b][e]
       /\ Present(a) => fired'[a][d] = fired[a][d] + 1
       /\ ~Present(a) => fired'[a][d] = fired[a][d]
  <2>1. fired \in [Alerts -> [Days -> Nat]]
    BY <1>2 DEF TypeOK
  <2>2. CASE Present(a) /\ fired' = [fired EXCEPT ![a][d] = fired[a][d] + 1]
    BY <1>3, <2>1, <2>2
  <2>3. CASE ~Present(a) /\ UNCHANGED fired
    BY <2>1, <2>3
  <2> QED BY <1>1, <1>2, <1>3, <2>1, <2>2, <2>3 DEF Trigger
<1>11. TypeOK'
  BY <1>2, <1>8, <1>9, <1>10 DEF TypeOK, AlertsTypeOK
<1>12. today \in Nat /\ today <= today' /\ disturbed \subseteq disturbed'
  BY <1>2, LastDayAssumption DEF TypeOK, Days
<1>13. \A e \in Days : RateBefore(e)' = RateBefore(e)
  BY <1>2, RateBeforeSame
<1>14. ASSUME d \notin disturbed
       PROVE  /\ Evaluates(r, d) /\ Triggers(r, d) /\ run[r].prev = RateBefore(d)
              /\ snapshot[d] = run[r].fetched /\ fired[a][d] = 0
              /\ a \notin edited => Present(a) /\ Crosses(a, run[r].prev, run[r].fetched)
  <2>1. Evaluates(r, d) /\ run[r].prev = RateBefore(d)
    BY <1>1, <1>2, <1>3, <1>14 DEF RunSound, RunReads, Evaluating, Prepared
  <2> QED BY <1>2, <2>1 DEF Evaluates, Triggers
<1>15. RunSound(r)'
  <2>1. RunReads(r)'
    BY <1>1, <1>2, <1>3, <1>7, <1>8, <1>13 DEF RunSound, RunReads, At, Prepared
  <2>2. ASSUME d \notin disturbed PROVE Evaluates(r, d)'
    <3>1. snapshot'[d] = run'[r].fetched /\ Alone(r, d)' /\ ~At(r, "evaluate")'
      BY <1>2, <1>7, <1>8, <1>14, <2>2 DEF Evaluates, Alone, Evaluating, At
    <3>2. \A b \in T : b \in Alerts /\ fired'[b][d] = 0
      <4> SUFFICES ASSUME NEW b \in T PROVE b \in Alerts /\ fired'[b][d] = 0
        OBVIOUS
      <4>1. b \in run[r].triggered /\ b # a /\ b \in Alerts
        BY <1>2, <1>4, RunType
      <4>2. fired[b][d] = 0
        BY <1>2, <1>14, <2>2, <4>1 DEF Evaluates
      <4> QED BY <1>3, <1>10, <4>1, <4>2
    <3>3. ASSUME NEW b \in Alerts \ edited, b \in T
          PROVE  Present(b)' /\ Crosses(b, run[r].prev, run[r].fetched)'
      <4>1. Present(b) /\ Crosses(b, run[r].prev, run[r].fetched)
        BY <1>4, <1>14, <2>2, <3>3 DEF Triggers
      <4> QED BY <1>2, <1>7, <1>8, <1>9, <4>1 DEF AlertsKept, Crosses
    <3>4. ASSUME NEW b \in Alerts \ edited, b \in watched[d],
                 Crosses(b, run[r].prev, run[r].fetched)'
          PROVE  b \in T \/ fired'[b][d] > 0
      <4>1. Present(b)
        BY <1>3, <3>4 DEF SnapshotInv, DaySound, Active
      <4>2. Crosses(b, run[r].prev, run[r].fetched)
        BY <1>2, <1>7, <1>8, <1>9, <3>4, <4>1 DEF AlertsKept, Crosses
      <4>3. b \in run[r].triggered \/ fired[b][d] > 0
        BY <1>14, <2>2, <3>4, <4>2 DEF Triggers
      <4>4. CASE b = a
        BY <1>10, <1>14, <2>2, <4>1, <4>4
      <4>5. CASE b # a
        BY <1>3, <1>4, <1>10, <4>3, <4>5
      <4> QED BY <4>4, <4>5
    <3>5. Triggers(r, d)'
      BY <1>2, <1>7, <1>8, <3>3, <3>4 DEF Triggers
    <3> QED BY <1>7, <1>8, <3>1, <3>2, <3>5 DEF Evaluates
  <2> QED BY <1>2, <1>3, <1>7, <1>8, <2>1, <2>2 DEF RunSound, Captured
<1>16. ASSUME NEW s \in Runs \ {r} PROVE RunSound(s)'
  <2>1. PICK e : e = run[s].day
    OBVIOUS
  <2>2. RunSound(s) /\ (e \in Days => DaySound(e)) /\ run'[s] = run[s]
    BY <1>8 DEF SnapshotInv
  <2>3. ASSUME Evaluating(s), e \notin disturbed
        PROVE  Alone(s, e)' /\ \A b \in Alerts : fired'[b][e] = fired[b][e]
    <3>1. e \in Days /\ Alone(s, e)
      BY <2>1, <2>2, <2>3 DEF RunSound, RunReads, Evaluates, Evaluating, At
    <3>2. e # d
      BY <1>1, <1>2, <3>1 DEF Alone
    <3> QED BY <1>7, <1>8, <1>10, <3>1, <3>2 DEF Alone, Evaluating
  <2> QED BY <1>2, <1>9, <1>11, <1>12, <1>13, <2>1, <2>2, <2>3, RunSoundKept
<1>17. ASSUME NEW e \in Days \ {d} PROVE DaySound(e)' /\ DayRight(e)'
  <2>1. DaySound(e) /\ DayRight(e) /\ \A b \in Alerts : fired'[b][e] = fired[b][e]
    BY <1>10 DEF SnapshotInv
  <2> QED BY <1>2, <1>9, <1>11, <1>12, <1>13, <2>1, DaySoundKept, DayRightKept
<1>18. DaySound(d)'
  <2>1. Captured(d)' /\ (Captured(d) => d <= today)'
    BY <1>2, <1>3 DEF Captured
  <2>2. ASSUME NEW b \in Alerts \ edited
        PROVE  /\ b \in watched[d] => (b \in Active)'
               /\ fired'[b][d] > 0 => Present(b)'
    <3>1. /\ b \in watched[d] => b \in Active
          /\ fired[b][d] > 0 => Present(b)
      BY <1>3 DEF SnapshotInv, DaySound
    <3>2. Present(b) => Present(b)' /\ (b \in Active => (b \in Active)')
      BY <1>2, <1>9, PresentKept
    <3>3. fired'[b][d] > 0 => Present(b)
      BY <1>3, <1>10, <3>1
    <3>4. b \in Active => Present(b)
      BY DEF Active
    <3> QED BY <3>1, <3>2, <3>3, <3>4
  <2> QED BY <1>2, <2>1, <2>2 DEF DaySound
<1>19. DayRight(d)'
  <2> SUFFICES ASSUME d \notin disturbed
               PROVE  (/\ \A b \in Alerts : fired[b][d] <= 1
                       /\ \A b \in Alerts \ edited : fired[b][d] > 0 => Crossed(b, d)
                       /\ d \in settled => \A b \in watched[d] \ edited :
                                              Crossed(b, d) => fired[b][d] > 0)'
    BY <1>2 DEF DayRight
  <2>1. DayRight(d) /\ DaySound(d) /\ watched[d] \subseteq Alerts
    BY <1>2, <1>3 DEF SnapshotInv, TypeOK
  <2>2. ASSUME NEW b \in Alerts PROVE fired'[b][d] <= 1
    <3>1. fired[b][d] <= 1
      BY <2>1 DEF DayRight
    <3> QED BY <1>3, <1>10, <1>14, <3>1
  <2>3. \A b \in Alerts \ edited : Present(b) => Crossed(b, d)' = Crossed(b, d)
    BY <1>2, <1>3, <1>9, <1>13, CrossedKept
  <2>4. ASSUME NEW b \in Alerts \ edited, fired'[b][d] > 0 PROVE Crossed(b, d)'
    <3>1. CASE b = a
      <4>1. Crossed(a, d)
        BY <1>2, <1>3, <1>14, <3>1, CrossedIsCrosses
      <4> QED BY <1>14, <2>3, <3>1, <4>1
    <3>2. CASE b # a
      <4>1. Crossed(b, d) /\ Present(b)
        BY <1>3, <1>10, <2>1, <2>4, <3>2 DEF DayRight, DaySound
      <4> QED BY <2>3, <4>1
    <3> QED BY <3>1, <3>2
  <2>5. ASSUME d \in settled, NEW b \in watched[d] \ edited, Crossed(b, d)'
        PROVE  fired'[b][d] > 0
    <3>1. b \in Alerts \ edited /\ Present(b)
      BY <2>1 DEF DaySound, Active
    <3>2. fired[b][d] > 0
      BY <2>1, <2>3, <2>5, <3>1 DEF DayRight
    <3>3. fired[b][d] \in Nat /\ fired[a][d] \in Nat
      BY <1>2, <1>3, <3>1 DEF TypeOK
    <3> QED BY <1>3, <1>10, <3>1, <3>2, <3>3
  <2> QED BY <1>2, <2>2, <2>4, <2>5
<1> QED BY <1>11, <1>15, <1>16, <1>17, <1>18, <1>19 DEF SnapshotInv

(***************************************************************************)
(* The theorems                                                            *)
(***************************************************************************)
LEMMA SnapshotInit == Init => SnapshotInv
<1> SUFFICES ASSUME Init PROVE SnapshotInv
  OBVIOUS
<1>1. AlertsTypeOK
  BY AlertsInitInv DEF Init, AlertsInv
<1>2. TypeOK
  BY <1>1, IdleType, LastDayAssumption DEF Init, TypeOK, Days
<1>3. \A r \in Runs : RunSound(r)
  BY DEF Init, RunSound, RunReads, At, Prepared, Evaluating, Idle
<1>4. \A d \in Days : DaySound(d) /\ DayRight(d)
  BY DEF Init, DaySound, DayRight, Captured
<1> QED BY <1>2, <1>3, <1>4 DEF SnapshotInv

LEMMA SnapshotStep ==
  ASSUME SnapshotInv, [Next]_vars
  PROVE  SnapshotInv'
<1>1. ASSUME NEW r \in Runs, RunStep(r) PROVE SnapshotInv'
  BY <1>1, StartStep, CheckStep, FetchStep, ReadPrevStep, UpsertReadStep, UpsertCreateStep,
     EvaluateStep, FinishStep, TriggerStep DEF RunStep
<1>2. ASSUME NEW r \in Runs, Stop(r) PROVE SnapshotInv'
  BY <1>2, StopStep
<1>3. CASE UNCHANGED vars
  <2>1. UNCHANGED <<alert, creating, today, snapshot, run, fired, watched, edited, settled,
                    skipped, disturbed>>
    BY <1>3 DEF vars
  <2>2. TypeOK'
    BY <2>1 DEF SnapshotInv, TypeOK, AlertsTypeOK
  <2>3. AlertsKept
    BY <2>1 DEF AlertsKept, Present
  <2>4. today \in Nat
    BY LastDayAssumption DEF SnapshotInv, TypeOK, Days
  <2> QED BY <2>1, <2>2, <2>3, <2>4, RunsKept
<1> QED BY <1>1, <1>2, <1>3, NextDayStep, UseAlertsStep DEF Next

THEOREM SnapshotInvariant == Spec => []SnapshotInv
<1>1. SnapshotInv /\ [Next]_vars => SnapshotInv'
  BY SnapshotStep
<1> QED BY <1>1, SnapshotInit, PTL DEF Spec

(* The runs, the rows and the histories keep their types.                  *)
THEOREM SnapshotTypeCorrect == Spec => []TypeOK
<1>1. SnapshotInv => TypeOK
  BY DEF SnapshotInv
<1> QED BY <1>1, SnapshotInvariant, PTL

(* However runs overlap, stop and start again, an alert is triggered at    *)
(* most once for a day that was not disturbed.                             *)
THEOREM AtMostOnce == Spec => []FiresAtMostOnce
<1>1. SnapshotInv => FiresAtMostOnce
  BY DEF SnapshotInv, DayRight, FiresAtMostOnce, InTurn
<1> QED BY <1>1, SnapshotInvariant, PTL

(* An alert triggered for such a day is one whose threshold the stored     *)
(* rates crossed.                                                          *)
THEOREM FiredCrossed == Spec => []FiredMeansCrossed
<1>1. SnapshotInv => FiredMeansCrossed
  BY DEF SnapshotInv, DayRight, FiredMeansCrossed, InTurn
<1> QED BY <1>1, SnapshotInvariant, PTL

(* Once a run has evaluated such a day, every crossing has been triggered. *)
THEOREM CrossingsFired == Spec => []CrossingsFire
<1>1. SnapshotInv => CrossingsFire
  <2> SUFFICES ASSUME SnapshotInv, NEW d \in InTurn \cap settled,
                      NEW a \in watched[d] \ edited, Crossed(a, d)
               PROVE  fired[a][d] > 0
    BY DEF CrossingsFire
  <2>1. d \in Days /\ d \notin disturbed /\ d \in settled /\ DayRight(d)
    BY DEF SnapshotInv, InTurn
  <2> QED BY <2>1 DEF DayRight
<1> QED BY <1>1, SnapshotInvariant, PTL

(* The row of a day is written once: the step that writes it finds none.   *)
THEOREM WrittenOnce == Spec => SnapshotWrittenOnce
<1> DEFINE Kept == \A d \in Days : Captured(d) => snapshot'[d] = snapshot[d]
<1>1. TypeOK /\ [Next]_vars => [Kept]_vars
  <2> SUFFICES ASSUME TypeOK, Next, NEW d \in Days, Captured(d)
               PROVE  snapshot'[d] = snapshot[d]
    OBVIOUS
  <2>1. ASSUME NEW r \in Runs, UpsertCreate(r) PROVE snapshot'[d] = snapshot[d]
    BY <2>1 DEF UpsertCreate, Conflict, TypeOK
  <2>2. ASSUME NEW r \in Runs, RunStep(r), ~UpsertCreate(r) PROVE UNCHANGED snapshot
    BY <2>2 DEF RunStep, Start, Check, Fetch, ReadPrev, UpsertRead, Evaluate, Finish, Trigger
  <2>3. ASSUME NEW r \in Runs, Stop(r) PROVE UNCHANGED snapshot
    BY <2>3 DEF Stop
  <2>4. ASSUME NextDay \/ UseAlerts PROVE UNCHANGED snapshot
    BY <2>4 DEF NextDay, UseAlerts
  <2> QED BY <2>1, <2>2, <2>3, <2>4 DEF Next
<1> QED BY <1>1, SnapshotTypeCorrect, PTL DEF Spec, SnapshotWrittenOnce

=============================================================================
