----------------------------- MODULE BudgetMath -----------------------------
(***************************************************************************)
(* What is left of a month's income after fixed expenses and what the      *)
(* goals ask for, and how a month that does not reach is shared out        *)
(* (apps/api/src/budget/budget-math.service.ts).  goals maps the id of a   *)
(* goal to its progress; ids are numbers, in the order of localeCompare.   *)
(***************************************************************************)
EXTENDS GoalMath, SequencesExt

(* toDecimalPlaces(0, ROUND_DOWN); an overspent month leaves nothing.      *)
Pool(settings) == Unit * (AtLeast0(settings.income - settings.expenses) \div Unit)

(* Mutant: the deadline is looked at before completion.                    *)
DeadlineFirstReason(p) ==
    IF p.monthly = Nothing THEN IF p.status = "no_deadline" THEN "no_deadline" ELSE "overdue"
    ELSE IF p.monthly = 0 THEN "completed" ELSE "counted"

(* Why a goal asks for nothing.  A goal completed after its deadline has   *)
(* no monthly amount either: completion is looked at first.                *)
Reason(p) ==
    IF p.status = "completed" THEN "completed"
    ELSE IF p.monthly = Nothing THEN IF p.status = "overdue" THEN "overdue" ELSE "no_deadline"
    ELSE IF p.monthly = 0 THEN "completed" ELSE "counted"

Counted(goals) == {g \in DOMAIN goals : Reason(goals[g]) = "counted"}

(* What goal p asks for, in the currency of the budget, rounded up         *)
Need(p, currency, rate) ==
    UpToUnit(IF p.currency = currency THEN p.monthly ELSE Convert(p.monthly, p.currency, rate), 1)

(* Nearest deadline, then smallest need, then id: a total order.  A goal   *)
(* that is counted has a deadline.                                         *)
Before(lines, a, b) ==
    \/ lines[a].deadline < lines[b].deadline
    \/ /\ lines[a].deadline = lines[b].deadline
       /\ \/ lines[a].need < lines[b].need
          \/ lines[a].need = lines[b].need /\ a < b

(* sorted: the goals of the lines in that order                            *)
InOrder(lines) ==
    CHOOSE s \in SetToSeqs(DOMAIN lines) : \A i, j \in DOMAIN s : i < j => Before(lines, s[i], s[j])

(* Mutant: the pool is not reduced by what a line was given.               *)
GenerousAllocate(pool, lines) ==
    [i \in 1 .. Cardinality(DOMAIN lines) |->
        LET g == InOrder(lines)[i]
            give == IF lines[g].need < pool THEN lines[g].need ELSE pool
        IN  [goal |-> g, amount |-> give, covered |-> give = lines[g].need]]

(* A line takes what it needs of what is left.                             *)
Give(lines, acc, g) ==
    LET give == IF lines[g].need < acc.left THEN lines[g].need ELSE acc.left
    IN  [left |-> acc.left - give,
         out  |-> Append(acc.out, [goal |-> g, amount |-> give, covered |-> give = lines[g].need])]

(* allocate: every line in order takes what it needs while the pool lasts. *)
Allocate(pool, lines) ==
    FoldLeft(LAMBDA acc, g : Give(lines, acc, g), [left |-> pool, out |-> <<>>], InOrder(lines)).out

Total(lines) == MapThenSumSet(LAMBDA g : lines[g].need, DOMAIN lines)

(* computeAvailable; configured is added by BudgetService.getAvailable.    *)
Available(settings, goals, rate) ==
    LET counted == Counted(goals)
        noRate  == rate = Nothing /\ \E g \in counted : goals[g].currency # settings.currency
        lines   == [g \in IF noRate THEN {} ELSE counted |->
                       [need |-> Need(goals[g], settings.currency, rate),
                        deadline |-> goals[g].deadline]]
        left    == Pool(settings) - Total(lines)
        Unless(x) == IF noRate THEN Nothing ELSE x
    IN  [configured |-> TRUE, rateUnavailable |-> noRate, rateUsed |-> Unless(rate),
         totalNeed |-> Unless(Total(lines)), available |-> Unless(left),
         shortfall |-> Unless(AtLeast0(-left)), counted |-> lines,
         excluded |-> [g \in DOMAIN goals \ counted |-> Reason(goals[g])],
         allocation |-> IF noRate \/ left >= 0 THEN Nothing
                        ELSE Allocate(Pool(settings), lines)]

=============================================================================
