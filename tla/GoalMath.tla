------------------------------ MODULE GoalMath ------------------------------
(***************************************************************************)
(* The progress of a goal (apps/api/src/goals/goal-math.service.ts).       *)
(* Amounts are in thousandths, as in Money; a date is a number of days, so *)
(* that stripTime is the identity on it.                                   *)
(***************************************************************************)
EXTENDS Money

CONSTANT Nothing    \* null

Unit == 1000        \* one yen, one dong

OrNothing(S) == S \cup {Nothing}
AtLeast0(x)  == IF x > 0 THEN x ELSE 0

(* toDecimalPlaces(0, ROUND_UP) of n / d, for n >= 0 and d > 0             *)
UpToUnit(n, d) == Unit * ((n + Unit * d - 1) \div (Unit * d))

(* A month has 30.44 days; a deadline within the month leaves one month.   *)
MonthsRemaining(deadline, today) ==
    IF deadline = Nothing \/ deadline < today THEN Nothing
    ELSE IF deadline = today THEN 1
         ELSE ((deadline - today) * 100 + 3043) \div 3044

DeadlineStatus(saved, target, deadline, today) ==
    IF saved >= target /\ target > 0 THEN "completed"
    ELSE IF deadline = Nothing THEN "no_deadline"
    ELSE IF deadline < today THEN "overdue" ELSE "on_track"

(* Mutant: the suggested amount is rounded to the nearest unit.            *)
NearestMonthly(remaining, months) ==
    IF months = Nothing THEN Nothing
    ELSE Unit * ((2 * remaining + Unit * months) \div (2 * Unit * months))

SuggestedMonthly(remaining, months) ==
    IF months = Nothing THEN Nothing ELSE UpToUnit(remaining, months)

(* The percentage is in tenths, half up.                                   *)
Percent(saved, target) == (2000 * saved + target) \div (2 * target)

(* computeProgress, for a goal with a positive target                      *)
Progress(goal, saved, today, rate) ==
    LET remaining == AtLeast0(goal.target - saved)
        months    == MonthsRemaining(goal.deadline, today)
    IN  [saved |-> saved, target |-> goal.target, currency |-> goal.currency,
         percent |-> Percent(saved, goal.target), remaining |-> remaining,
         remainingInOther |-> IF rate = Nothing THEN Nothing
                              ELSE Convert(remaining, goal.currency, rate),
         rateUsed |-> rate, months |-> months,
         monthly |-> SuggestedMonthly(remaining, months),
         status |-> DeadlineStatus(saved, goal.target, goal.deadline, today),
         deadline |-> goal.deadline]

=============================================================================
