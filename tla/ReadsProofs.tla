----------------------------- MODULE ReadsProofs -----------------------------
(***************************************************************************)
(* Theorems about Reads, and the lemmas about its arithmetic that they     *)
(* need, for every number of goals, entries, days and amounts and for      *)
(* pages of any size: the figures of a goal (GoalMath), sums over finite   *)
(* sets, the sharing of the pool in the order of the deadlines             *)
(* (BudgetMath), the database, the requests, the pages.                    *)
(***************************************************************************)
EXTENDS Reads, FiniteSetTheorems, SequenceTheorems, WellFoundedInduction, TLAPS

(***************************************************************************)
(* The arithmetic of a goal                                                *)
(***************************************************************************)
LEMMA Division ==
  ASSUME NEW a \in Int, NEW d \in Nat \ {0}
  PROVE  /\ a \div d \in Int
         /\ d * (a \div d) <= a
         /\ a < d * (a \div d) + d
  OBVIOUS

(* Rounding up to the unit never falls short, and by less than one unit.   *)
LEMMA UpToUnitBounds ==
  ASSUME NEW n \in Nat, NEW d \in Nat \ {0}
  PROVE  /\ UpToUnit(n, d) \in Int
         /\ UpToUnit(n, d) * d >= n
         /\ UpToUnit(n, d) * d < n + Unit * d
<1> DEFINE q == (n + Unit * d - 1) \div (Unit * d)
<1>1. Unit * d \in Nat \ {0} /\ n + Unit * d - 1 \in Int
  BY DEF Unit
<1>2. /\ q \in Int
      /\ (Unit * d) * q <= n + Unit * d - 1
      /\ n + Unit * d - 1 < (Unit * d) * q + Unit * d
  BY <1>1, Division
<1>3. UpToUnit(n, d) = Unit * q
  BY DEF UpToUnit
<1> HIDE DEF q
<1>4. Unit * q * d = (Unit * d) * q /\ Unit * q \in Int
  BY <1>2 DEF Unit
<1> QED BY <1>1, <1>2, <1>3, <1>4

LEMMA MonthsLeft ==
  ASSUME NEW deadline \in Int, NEW today \in Int, deadline >= today, Nothing \notin Int
  PROVE  MonthsRemaining(deadline, today) \in Nat \ {0}
<1>1. ((deadline - today) * 100 + 3043) \div 3044 \in Int
  OBVIOUS
<1>2. deadline # today => ((deadline - today) * 100 + 3043) \div 3044 >= 1
  OBVIOUS
<1> QED BY <1>1, <1>2 DEF MonthsRemaining

(* What computeProgress suggests, put aside in each of the months that are *)
(* left, reaches the target, and a unit less each month would not: the     *)
(* amount is rounded up, never to nearest.  It is zero only when nothing   *)
(* is left to save.                                                        *)
THEOREM SuggestionSuffices ==
  ASSUME NEW goal, NEW saved \in Int, NEW today \in Int, NEW rate,
         goal.target \in Nat \ {0}, goal.deadline \in Int, goal.deadline >= today,
         Nothing \notin Int
  PROVE  LET p == Progress(goal, saved, today, rate) IN
         /\ p.months \in Nat \ {0}
         /\ saved + p.monthly * p.months >= goal.target
         /\ p.remaining > 0 => (p.monthly - Unit) * p.months < p.remaining
         /\ p.monthly = 0 <=> p.remaining = 0
<1> DEFINE p == Progress(goal, saved, today, rate)
           n == AtLeast0(goal.target - saved)
           d == MonthsRemaining(goal.deadline, today)
           u == UpToUnit(n, d)
<1>1. n \in Nat /\ n >= goal.target - saved
  BY DEF AtLeast0
<1>2. d \in Nat \ {0} /\ d # Nothing
  BY MonthsLeft
<1>3. p.months = d /\ p.remaining = n /\ p.monthly = u
  BY <1>2 DEF Progress, SuggestedMonthly
<1>4. u \in Int /\ u * d >= n /\ u * d < n + Unit * d
  <2> HIDE DEF n, d
  <2> QED BY <1>1, <1>2, UpToUnitBounds
<1>5. u = 0 <=> n = 0
  <2>1. u = Unit * ((n + Unit * d - 1) \div (Unit * d))
    BY DEF UpToUnit
  <2> HIDE DEF n, d, u
  <2>2. n = 0 => u = 0
    <3> SUFFICES ASSUME n = 0 PROVE u = 0
      OBVIOUS
    <3> DEFINE q == (n + Unit * d - 1) \div (Unit * d)
    <3>1. Unit * d \in Nat \ {0} /\ n + Unit * d - 1 = Unit * d - 1 /\ Unit * d - 1 \in Int
      BY <1>1, <1>2 DEF Unit
    <3>2. /\ q \in Int /\ (Unit * d) * q <= Unit * d - 1
          /\ Unit * d - 1 < (Unit * d) * q + Unit * d
      BY <3>1, Division
    <3> HIDE DEF q
    <3>3. q = 0
      <4>1. ~(q >= 1)
        <5> SUFFICES ASSUME q >= 1 PROVE FALSE
          OBVIOUS
        <5>1. (Unit * d) * q >= Unit * d
          BY <3>1, <3>2
        <5> QED BY <3>1, <3>2, <5>1
      <4>2. ~(q <= -1)
        <5> SUFFICES ASSUME q <= -1 PROVE FALSE
          OBVIOUS
        <5>1. (Unit * d) * q <= -(Unit * d)
          BY <3>1, <3>2
        <5> QED BY <3>1, <3>2, <5>1
      <4> QED BY <3>2, <4>1, <4>2
    <3> QED BY <2>1, <3>3 DEF q, Unit
  <2>3. u = 0 => n = 0
    BY <1>1, <1>2, <1>4
  <2> QED BY <2>2, <2>3
<1>6. (u - Unit) * d = u * d - Unit * d
  <2> HIDE DEF u, d
  <2> QED BY <1>2, <1>4 DEF Unit
<1> HIDE DEF p, n, d, u
<1>7. u * d \in Int /\ Unit * d \in Int
  BY <1>2, <1>4 DEF Unit
<1>8. /\ d \in Nat \ {0} /\ saved + u * d >= goal.target
      /\ n > 0 => (u - Unit) * d < n
  BY <1>1, <1>2, <1>4, <1>6, <1>7
<1> QED BY <1>3, <1>5, <1>8 DEF p

(* Whatever has been saved, and whenever it is asked: the figures agree.   *)
LEMMA FiguresOfGoal ==
  ASSUME NEW goal \in GoalRow, NEW saved \in Int, NEW today \in Nat, NEW rate
  PROVE  ProgressAgrees(Progress(goal, saved, today, rate))
<1> DEFINE p == Progress(goal, saved, today, rate)
           n == AtLeast0(goal.target - saved)
           d == MonthsRemaining(goal.deadline, today)
<1> SUFFICES ProgressAgrees(p)
  OBVIOUS
<1>1. Nothing \notin Int /\ goal.target \in Nat \ {0} /\ goal.deadline \in Nat \cup {Nothing}
  BY ReadsAssumption DEF GoalRow, OrNothing
<1>2. /\ p.months = d /\ p.remaining = n /\ p.monthly = SuggestedMonthly(n, d)
      /\ p.percent = Percent(saved, goal.target)
      /\ p.status = DeadlineStatus(saved, goal.target, goal.deadline, today)
  BY DEF Progress
<1>3. n \in Nat /\ (n = 0 <=> saved >= goal.target)
  BY <1>1 DEF AtLeast0
<1>4. saved >= goal.target => Percent(saved, goal.target) >= 1000
  <2> SUFFICES ASSUME saved >= goal.target PROVE Percent(saved, goal.target) >= 1000
    OBVIOUS
  <2> DEFINE a == 2000 * saved + goal.target
             b == 2 * goal.target
             q == a \div b
  <2>1. a \in Int /\ b \in Nat \ {0} /\ a >= 1000 * b
    BY <1>1
  <2>2. q \in Int /\ a < b * q + b
    <3> HIDE DEF a, b
    <3> QED BY <2>1, Division
  <2>3. Percent(saved, goal.target) = q
    BY DEF Percent
  <2> HIDE DEF a, b, q
  <2>4. ~(q <= 999)
    <3> SUFFICES ASSUME q <= 999 PROVE FALSE
      OBVIOUS
    <3>1. b * q <= b * 999
      BY <2>1, <2>2
    <3> QED BY <2>1, <2>2, <3>1
  <2> QED BY <2>2, <2>3, <2>4
<1>5. CASE goal.deadline = Nothing \/ goal.deadline < today
  <2>1. d = Nothing /\ SuggestedMonthly(n, d) = Nothing
    BY <1>5 DEF MonthsRemaining, SuggestedMonthly
  <2> DEFINE status == DeadlineStatus(saved, goal.target, goal.deadline, today)
  <2>2. /\ saved >= goal.target => status = "completed"
        /\ ~(saved >= goal.target) => status \in {"no_deadline", "overdue"}
    BY <1>1, <1>5 DEF DeadlineStatus
  <2>3. p.status = status /\ p.months = Nothing /\ p.monthly = Nothing /\ p.remaining = n
        /\ p.percent = Percent(saved, goal.target)
    BY <1>2, <2>1
  <2> HIDE DEF p, n, d, status
  <2>4. CASE saved >= goal.target
    BY <1>3, <1>4, <2>2, <2>3, <2>4 DEF ProgressAgrees
  <2>5. CASE ~(saved >= goal.target)
    BY <1>3, <2>2, <2>3, <2>5 DEF ProgressAgrees
  <2> QED BY <2>4, <2>5
<1>6. CASE goal.deadline \in Nat /\ goal.deadline >= today
  <2>1. DeadlineStatus(saved, goal.target, goal.deadline, today)
          = IF saved >= goal.target THEN "completed" ELSE "on_track"
    BY <1>1, <1>6 DEF DeadlineStatus
  <2>2. /\ p.months \in Nat \ {0}
        /\ saved + p.monthly * p.months >= goal.target
        /\ p.remaining > 0 => (p.monthly - Unit) * p.months < p.remaining
        /\ p.monthly = 0 <=> p.remaining = 0
    BY <1>1, <1>6, SuggestionSuffices
  <2>3. saved < goal.target => n = goal.target - saved
    BY <1>1 DEF AtLeast0, GoalRow
  <2>4. d # Nothing => SuggestedMonthly(n, d) = UpToUnit(n, d)
    BY DEF SuggestedMonthly
  <2> HIDE DEF p, n, d
  <2>5. p.monthly \in Int
    BY <1>1, <1>2, <1>3, <2>2, <2>4, UpToUnitBounds
  <2>6. p.monthly * p.months \in Int
    BY <2>2, <2>5
  <2>7. n > 0 => p.monthly * p.months >= n
    BY <1>1, <1>3, <2>2, <2>3, <2>6
  <2> QED BY <1>1, <1>2, <1>3, <1>4, <2>1, <2>2, <2>7 DEF ProgressAgrees
<1> QED BY <1>1, <1>5, <1>6

(***************************************************************************)
(* Of some subsets of a finite set, one has none of the others within it.  *)
(***************************************************************************)
LEMMA SmallestSet ==
  ASSUME NEW S, IsFiniteSet(S), NEW T, T \subseteq SUBSET S, T # {}
  PROVE  \E s \in T : \A t \in T : t \subseteq s => t = s
<1>1. T \subseteq FiniteSubsetsOf(S)
  BY FS_Subset DEF FiniteSubsetsOf
<1>2. PICK s \in T : \A t \in T : ~(<<t, s>> \in StrictSubsetOrdering(S))
  BY <1>1, FS_StrictSubsetOrderingWellFounded, WFMin
<1>3. ASSUME NEW t \in T, t \subseteq s, t # s PROVE <<t, s>> \in StrictSubsetOrdering(S)
  <2>1. <<t, s>> \in (SUBSET S) \X (SUBSET S) /\ <<t, s>>[1] = t /\ <<t, s>>[2] = s
    OBVIOUS
  <2> QED BY <1>3, <2>1 DEF StrictSubsetOrdering
<1>4. \A t \in T : t \subseteq s => t = s
  BY <1>2, <1>3
<1> QED BY <1>4

(***************************************************************************)
(* Sorting                                                                 *)
(***************************************************************************)
Linear(Below, S) ==
    /\ \A a, b \in S : a = b \/ a \in Below[b] \/ b \in Below[a]
    /\ \A a, b, c \in S : a \in Below[b] /\ b \in Below[c] => a \in Below[c]

Sorts(Below, S, s) ==
    /\ s \in SetToSeqs(S)
    /\ \A i, j \in DOMAIN s : i < j => s[i] \in Below[s[j]]

LEMMA HasLast ==
  ASSUME NEW Below, NEW S, IsFiniteSet(S), Linear(Below, S), S # {}
  PROVE  \E m \in S : \A x \in S \ {m} : x \in Below[m]
<1> DEFINE Lacks(t) == t # {} /\ ~\E m \in t : \A x \in t \ {m} : x \in Below[m]
           T == {t \in SUBSET S : Lacks(t)}
<1>1. T \subseteq SUBSET S
  OBVIOUS
<1>2. ASSUME NEW t \in T, \A u \in T : u \subseteq t => u = t PROVE FALSE
  <2>1. t \in SUBSET S /\ Lacks(t)
    OBVIOUS
  <2>2. PICK y : y \in t
    BY <2>1
  <2> DEFINE u == t \ {y}
  <2>3. u \in SUBSET S /\ u \subseteq t /\ u # t
    BY <2>1, <2>2
  <2>4. ~Lacks(u)
    BY <1>2, <2>3
  <2>5. u # {}
    BY <2>1, <2>2
  <2>6. PICK m \in u : \A x \in u \ {m} : x \in Below[m]
    BY <2>4, <2>5
  <2>7. m \in S /\ y \in S /\ m # y
    BY <2>1, <2>2, <2>3, <2>6
  <2>8. CASE y \in Below[m]
    BY <2>1, <2>6, <2>8
  <2>9. CASE m \in Below[y]
    <3>1. ASSUME NEW x \in t \ {y} PROVE x \in Below[y]
      BY <2>1, <2>2, <2>6, <2>9 DEF Linear
    <3> QED BY <2>1, <2>2, <3>1
  <2> QED BY <2>7, <2>8, <2>9 DEF Linear
<1> HIDE DEF T
<1>3. T = {}
  BY <1>1, <1>2, SmallestSet
<1> QED BY <1>3 DEF T

LEMMA SetToSeqsIs ==
  ASSUME NEW S, NEW s
  PROVE  s \in SetToSeqs(S) <=> /\ s \in [1 .. Cardinality(S) -> S]
                                /\ \A i, j \in 1 .. Cardinality(S) : i # j => s[i] # s[j]
BY DEF SetToSeqs

LEMMA SortedExists ==
  ASSUME NEW Below, NEW S, IsFiniteSet(S), Linear(Below, S)
  PROVE  \E s : Sorts(Below, S, s)
<1> DEFINE T == {t \in SUBSET S : ~\E s : Sorts(Below, t, s)}
<1>1. T \subseteq SUBSET S
  OBVIOUS
<1>2. ASSUME NEW t \in T, \A u \in T : u \subseteq t => u = t PROVE FALSE
  <2>1. t \in SUBSET S /\ IsFiniteSet(t) /\ ~\E s : Sorts(Below, t, s)
    BY FS_Subset
  <2> HIDE DEF T
  <2>2. CASE t = {}
    <3>1. Cardinality(t) = 0
      BY <2>2, FS_EmptySet
    <3> DEFINE none == [i \in 1 .. 0 |-> i]
    <3>2. none \in [1 .. 0 -> t] /\ DOMAIN none = {} /\ \A i, j \in 1 .. 0 : i = j
      OBVIOUS
    <3> HIDE DEF none
    <3>3. none \in SetToSeqs(t)
      BY <3>1, <3>2, SetToSeqsIs
    <3>4. Sorts(Below, t, none)
      BY <3>2, <3>3 DEF Sorts
    <3> QED BY <2>1, <3>4
  <2>3. CASE t # {}
    <3>1. Linear(Below, t)
      BY <2>1 DEF Linear
    <3>2. PICK m \in t : \A x \in t \ {m} : x \in Below[m]
      BY <2>1, <2>3, <3>1, HasLast
    <3> DEFINE u == t \ {m}
               n == Cardinality(u)
    <3>3. u \in SUBSET S /\ u \subseteq t /\ u # t
      BY <2>1
    <3>4. \E s : Sorts(Below, u, s)
      <4>1. u \notin T
        BY <1>2, <3>3
      <4> HIDE DEF u
      <4> QED BY <3>3, <4>1 DEF T
    <3>5. PICK s : Sorts(Below, u, s)
      BY <3>4
    <3>6. n \in Nat /\ Cardinality(t) = n + 1
      <4>1. IsFiniteSet(u) /\ Cardinality(u) = Cardinality(t) - 1
        BY <2>1, FS_RemoveElement
      <4>2. Cardinality(t) \in Nat /\ Cardinality(u) \in Nat
        BY <2>1, <4>1, FS_CardinalityType
      <4> QED BY <4>1, <4>2
    <3>7. s \in [1 .. n -> u] /\ (\A i, j \in 1 .. n : i # j => s[i] # s[j])
          /\ \A i, j \in 1 .. n : i < j => s[i] \in Below[s[j]]
      BY <3>5, SetToSeqsIs DEF Sorts
    <3> HIDE DEF n
    <3> DEFINE w == [i \in 1 .. n + 1 |-> IF i <= n THEN s[i] ELSE m]
    <3>8. /\ w \in [1 .. n + 1 -> t]
          /\ \A i \in 1 .. n : w[i] = s[i] /\ s[i] \in u
          /\ w[n + 1] = m
          /\ \A i \in 1 .. n + 1 : i \in 1 .. n \/ i = n + 1
      BY <3>6, <3>7
    <3> HIDE DEF w
    <3>9. \A i, j \in 1 .. n + 1 : i # j => w[i] # w[j]
      BY <3>7, <3>8
    <3>10. \A i, j \in 1 .. n + 1 : i < j => w[i] \in Below[w[j]]
      <4>1. ASSUME NEW i \in 1 .. n + 1, NEW j \in 1 .. n + 1, i < j PROVE w[i] \in Below[w[j]]
        <5>1. i \in 1 .. n
          BY <3>6, <3>8, <4>1
        <5>2. CASE j \in 1 .. n
          BY <3>7, <3>8, <4>1, <5>1, <5>2
        <5>3. CASE j = n + 1
          BY <3>2, <3>8, <5>1, <5>3
        <5> QED BY <3>8, <5>2, <5>3
      <4> QED BY <4>1
    <3>11. Sorts(Below, t, w)
      BY <3>6, <3>8, <3>9, <3>10, SetToSeqsIs DEF Sorts
    <3> QED BY <2>1, <3>11
  <2> QED BY <2>2, <2>3
<1> HIDE DEF T
<1>3. T = {}
  BY <1>1, <1>2, SmallestSet
<1>4. S \notin T
  BY <1>3
<1> QED BY <1>4 DEF T

(* A sequence without repetitions, as long as the set is large, has all of *)
(* its elements.                                                           *)
LEMMA SeqCovers ==
  ASSUME NEW S, IsFiniteSet(S), NEW s \in SetToSeqs(S)
  PROVE  \A x \in S : \E i \in 1 .. Cardinality(S) : s[i] = x
<1> DEFINE n == Cardinality(S)
<1>1. n \in Nat
  BY FS_CardinalityType
<1>2. IsFiniteSet(1 .. n) /\ Cardinality(1 .. n) = n
  BY <1>1, FS_Interval
<1>3. s \in Injection(1 .. n, S)
  BY SetToSeqsIs DEF Injection, IsInjective
<1> HIDE DEF n
<1>4. s \in Surjection(1 .. n, S)
  BY <1>2, <1>3, FS_Injection DEF n
<1> QED BY <1>4 DEF Surjection, n

(***************************************************************************)
(* Folds.  f folds step over each subset of S, from base: pick says which  *)
(* element of a set is taken last.                                         *)
(***************************************************************************)
Picks(pick, S) == \A s \in SUBSET S : s # {} => pick[s] \in s

Without(pick, s) == s \ {pick[s]}

FoldStep(pick, step, base, f, s) == IF s = {} THEN base ELSE step[pick[s]][f[Without(pick, s)]]

IsFold(pick, step, base, f, S) == f = [s \in SUBSET S |-> FoldStep(pick, step, base, f, s)]

LEMMA WithoutSmaller ==
  ASSUME NEW S, NEW pick, Picks(pick, S), NEW s \in SUBSET S, s # {}
  PROVE  /\ pick[s] \in s /\ Without(pick, s) \in SUBSET S
         /\ Without(pick, s) \subseteq s /\ Without(pick, s) # s
<1>1. pick[s] \in s
  BY DEF Picks
<1> QED BY <1>1 DEF Without

LEMMA FoldsAgree ==
  ASSUME NEW S, IsFiniteSet(S), NEW pick, Picks(pick, S), NEW step, NEW base,
         NEW A, NEW B, NEW f, NEW g, IsFold(pick, step, base, f, A), IsFold(pick, step, base, g, B),
         NEW s \in SUBSET S, s \subseteq A, s \subseteq B
  PROVE  f[s] = g[s]
<1> DEFINE T == {t \in SUBSET S : t \subseteq A /\ t \subseteq B /\ f[t] # g[t]}
<1>1. T \subseteq SUBSET S
  OBVIOUS
<1>2. ASSUME NEW t \in T, \A u \in T : u \subseteq t => u = t PROVE FALSE
  <2>1. t \in SUBSET S /\ t \in SUBSET A /\ t \in SUBSET B /\ f[t] # g[t]
    OBVIOUS
  <2>2. f[t] = FoldStep(pick, step, base, f, t) /\ g[t] = FoldStep(pick, step, base, g, t)
    BY <2>1 DEF IsFold
  <2>3. t # {}
    BY <2>1, <2>2 DEF FoldStep
  <2> DEFINE r == Without(pick, t)
  <2>4. r \in SUBSET S /\ r \in SUBSET A /\ r \in SUBSET B /\ r \subseteq t /\ r # t
    BY <2>1, <2>3, WithoutSmaller
  <2>5. f[r] = g[r]
    BY <1>2, <2>4
  <2> QED BY <2>1, <2>2, <2>3, <2>5 DEF FoldStep
<1> HIDE DEF T
<1>3. T = {}
  BY <1>1, <1>2, SmallestSet
<1> QED BY <1>3 DEF T

LEMMA FoldExists ==
  ASSUME NEW S, IsFiniteSet(S), NEW pick, Picks(pick, S), NEW step, NEW base
  PROVE  \E f : IsFold(pick, step, base, f, S)
<1> DEFINE Fold(f, t) == IsFold(pick, step, base, f, t)
           Step(f, t) == FoldStep(pick, step, base, f, t)
           Rest(t) == Without(pick, t)
           T == {t \in SUBSET S : ~\E f : Fold(f, t)}
<1>1. T \subseteq SUBSET S
  OBVIOUS
<1>2. ASSUME NEW t \in T, \A u \in T : u \subseteq t => u = t PROVE FALSE
  <2> DEFINE part(u) == CHOOSE f : Fold(f, u)
             inner(u) == IF u = {} THEN base ELSE step[pick[u]][part(Rest(u))[Rest(u)]]
             whole == [u \in SUBSET t |-> inner(u)]
  <2>0. t \in SUBSET S /\ ~\E f : Fold(f, t)
    OBVIOUS
  <2>1. \A u \in SUBSET t : u # t => Fold(part(u), u)
    <3>1. ASSUME NEW u \in SUBSET t, u # t PROVE Fold(part(u), u)
      <4>1. u \in SUBSET S /\ u \notin T
        BY <1>2, <3>1
      <4>2. \E f : Fold(f, u)
        BY <4>1
      <4> QED BY <4>2
    <3> QED BY <3>1
  <2>2. \A u \in SUBSET t : whole[u] = inner(u)
    OBVIOUS
  <2>3. \A u \in SUBSET t : u # {} => Rest(u) \in SUBSET t /\ Rest(u) # t /\ Rest(u) \in SUBSET S
                                       /\ Rest(u) \subseteq u /\ Rest(u) # u
    <3>1. ASSUME NEW u \in SUBSET t, u # {}
          PROVE  Rest(u) \in SUBSET t /\ Rest(u) # t /\ Rest(u) \in SUBSET S
                 /\ Rest(u) \subseteq u /\ Rest(u) # u
      <4>1. u \in SUBSET S
        BY <2>0
      <4>2. Rest(u) \in SUBSET S /\ Rest(u) \subseteq u /\ Rest(u) # u
        BY <3>1, <4>1, WithoutSmaller
      <4> QED BY <4>2
    <3> QED BY <3>1
  <2> HIDE DEF T, part, Fold, Rest
  <2>4. ASSUME NEW u \in SUBSET t PROVE inner(u) = Step(whole, u)
    <3>1. CASE u = {}
      BY <3>1 DEF FoldStep
    <3>2. CASE u # {}
      <4> DEFINE r == Rest(u)
      <4>1. r \in SUBSET t /\ r # t
        BY <2>3, <3>2
      <4>2. Fold(part(r), r)
        BY <2>1, <4>1
      <4>3. whole[r] = inner(r)
        BY <2>2, <4>1
      <4>4. part(r)[r] = Step(part(r), r)
        BY <4>2 DEF Fold, IsFold
      <4>5. Step(part(r), r) = inner(r)
        <5>1. CASE r = {}
          BY <5>1 DEF FoldStep
        <5>2. CASE r # {}
          <6> DEFINE q == Rest(r)
          <6>1. q \in SUBSET r /\ q \in SUBSET t /\ q # t /\ q \in SUBSET S
            BY <2>3, <4>1, <5>2
          <6>2. Fold(part(q), q)
            BY <2>1, <6>1
          <6>3. part(q)[q] = part(r)[q]
            BY <4>2, <6>1, <6>2, FoldsAgree DEF Fold
          <6> QED BY <5>2, <6>3 DEF FoldStep, Rest
        <5> QED BY <5>1, <5>2
      <4>6. part(r)[r] = whole[r]
        BY <4>3, <4>4, <4>5
      <4> QED BY <3>2, <4>6 DEF FoldStep, Rest
    <3> QED BY <3>1, <3>2
  <2>5. whole = [u \in SUBSET t |-> Step(whole, u)]
    <3> HIDE DEF inner, Step
    <3>1. whole = [u \in SUBSET t |-> inner(u)]
      OBVIOUS
    <3> HIDE DEF whole
    <3> QED BY <2>4, <3>1
  <2>6. Fold(whole, t)
    BY <2>5 DEF Fold, IsFold
  <2> QED BY <2>0, <2>6
<1> HIDE DEF T
<1>3. T = {}
  BY <1>1, <1>2, SmallestSet
<1>4. S \notin T
  BY <1>3
<1> QED BY <1>4 DEF T

(***************************************************************************)
(* Sums                                                                    *)
(***************************************************************************)
Taken(s) == CHOOSE x \in s : TRUE
Rest(s)  == s \ {Taken(s)}

SumStep(a, f, s) == IF s = {} THEN 0 ELSE a[Taken(s)] + f[Rest(s)]
Sums(a, f, S)    == f = [s \in SUBSET S |-> SumStep(a, f, s)]
Sum(a, S)        == (CHOOSE f : Sums(a, f, S))[S]

Summands(a, S) == IsFiniteSet(S) /\ \A x \in S : a[x] \in Int

LEMMA RestSmaller == ASSUME NEW s, s # {} PROVE Taken(s) \in s /\ Rest(s) \subseteq s /\ Rest(s) # s
<1>1. Taken(s) \in s
  BY DEF Taken
<1> QED BY <1>1 DEF Rest

LEMMA SumsAgree ==
  ASSUME NEW a, NEW A, NEW B, IsFiniteSet(A), NEW f, NEW g, Sums(a, f, A), Sums(a, g, B),
         NEW s \in SUBSET A, s \subseteq B
  PROVE  f[s] = g[s]
<1> DEFINE T == {t \in SUBSET A : t \subseteq B /\ f[t] # g[t]}
<1>1. T \subseteq SUBSET A
  OBVIOUS
<1>2. ASSUME NEW t \in T, \A u \in T : u \subseteq t => u = t PROVE FALSE
  <2>1. t \in SUBSET A /\ t \in SUBSET B /\ f[t] # g[t]
    OBVIOUS
  <2>2. f[t] = SumStep(a, f, t) /\ g[t] = SumStep(a, g, t)
    BY <2>1 DEF Sums
  <2>3. t # {}
    BY <2>1, <2>2 DEF SumStep
  <2>4. Rest(t) \in SUBSET A /\ Rest(t) \in SUBSET B /\ Rest(t) \subseteq t /\ Rest(t) # t
    BY <2>1, <2>3, RestSmaller
  <2>5. f[Rest(t)] = g[Rest(t)]
    BY <1>2, <2>4
  <2> QED BY <2>1, <2>2, <2>3, <2>5 DEF SumStep
<1> HIDE DEF T
<1>3. T = {}
  BY <1>1, <1>2, SmallestSet
<1> QED BY <1>3 DEF T

LEMMA SumsExist ==
  ASSUME NEW a, NEW S, Summands(a, S)
  PROVE  \E f \in [SUBSET S -> Int] : Sums(a, f, S)
<1> DEFINE pick == [s \in SUBSET S |-> Taken(s)]
           step == [x \in S |-> [n \in Int |-> a[x] + n]]
<1>1. \A s \in SUBSET S : pick[s] = Taken(s) /\ Without(pick, s) = Rest(s)
  BY DEF Without, Rest
<1>2a. \A x \in S : \A n \in Int : step[x][n] = a[x] + n
  OBVIOUS
<1> HIDE DEF pick, step
<1>2b. \A x \in S : a[x] \in Int
  BY DEF Summands
<1>2. \A x \in S : \A n \in Int : step[x][n] = a[x] + n /\ a[x] + n \in Int
  BY <1>2a, <1>2b
<1>3. Picks(pick, S)
  BY <1>1, RestSmaller DEF Picks
<1>4. PICK f : IsFold(pick, step, 0, f, S)
  BY <1>3, FoldExists DEF Summands
<1>5. \A s \in SUBSET S : f[s] = IF s = {} THEN 0 ELSE step[Taken(s)][f[Rest(s)]]
  BY <1>1, <1>4 DEF IsFold, FoldStep
<1> DEFINE T == {t \in SUBSET S : f[t] \notin Int}
<1>6. ASSUME NEW t \in T, \A u \in T : u \subseteq t => u = t PROVE FALSE
  <2>0. t \in SUBSET S /\ f[t] \notin Int
    OBVIOUS
  <2> HIDE DEF T
  <2>1. t \in SUBSET S /\ f[t] \notin Int /\ t # {}
    BY <2>0, <1>5
  <2>2. Rest(t) \in SUBSET S /\ Rest(t) \subseteq t /\ Rest(t) # t /\ Taken(t) \in S
    BY <2>1, RestSmaller
  <2>3. f[Rest(t)] \in Int
    BY <1>6, <2>2 DEF T
  <2>4. f[t] = step[Taken(t)][f[Rest(t)]]
    BY <1>5, <2>1
  <2> QED BY <1>2, <2>1, <2>2, <2>3, <2>4
<1>7. T \subseteq SUBSET S
  OBVIOUS
<1> HIDE DEF T
<1>8. T = {}
  BY <1>6, <1>7, SmallestSet DEF Summands
<1>9. \A s \in SUBSET S : f[s] \in Int
  BY <1>8 DEF T
<1>10. ASSUME NEW s \in SUBSET S PROVE f[s] = SumStep(a, f, s)
  <2>1. CASE s = {}
    BY <1>5, <2>1 DEF SumStep
  <2>2. CASE s # {}
    <3>1. Taken(s) \in S /\ Rest(s) \in SUBSET S
      BY <2>2, RestSmaller
    <3>2. f[s] = step[Taken(s)][f[Rest(s)]]
      BY <1>5, <2>2
    <3> QED BY <1>2, <1>9, <2>2, <3>1, <3>2 DEF SumStep
  <2> QED BY <2>1, <2>2
<1>11. f = [s \in SUBSET S |-> f[s]]
  BY <1>4 DEF IsFold
<1>12. f = [s \in SUBSET S |-> SumStep(a, f, s)]
  BY <1>10, <1>11
<1>13. f \in [SUBSET S -> Int]
  BY <1>9, <1>11
<1> QED BY <1>12, <1>13 DEF Sums

LEMMA SumIs ==
  ASSUME NEW a, NEW S, Summands(a, S), NEW A, S \subseteq A, NEW f, Sums(a, f, A)
  PROVE  Sum(a, S) = f[S]
<1> DEFINE g == CHOOSE h : Sums(a, h, S)
<1>1. Sums(a, g, S)
  BY SumsExist
<1>2. Sum(a, S) = g[S]
  BY DEF Sum
<1> HIDE DEF g
<1>3. IsFiniteSet(S) /\ S \in SUBSET S
  BY DEF Summands
<1>4. g[S] = f[S]
  BY <1>1, <1>3, SumsAgree
<1> QED BY <1>2, <1>4

LEMMA SumSame ==
  ASSUME NEW a, NEW b, NEW S, Summands(a, S), \A x \in S : a[x] = b[x]
  PROVE  Sum(a, S) = Sum(b, S)
<1>1. PICK f : Sums(a, f, S)
  BY SumsExist
<1>2. \A s \in SUBSET S : SumStep(a, f, s) = SumStep(b, f, s)
  BY RestSmaller DEF SumStep
<1>3. Sums(b, f, S)
  BY <1>1, <1>2 DEF Sums
<1>4. Summands(b, S)
  BY DEF Summands
<1> QED BY <1>1, <1>3, <1>4, SumIs

LEMMA SumUnfolds ==
  ASSUME NEW a, NEW S, Summands(a, S)
  PROVE  /\ Sum(a, S) \in Int
         /\ S = {} => Sum(a, S) = 0
         /\ S # {} => Taken(S) \in S /\ Sum(a, S) = a[Taken(S)] + Sum(a, Rest(S))
<1>1. PICK f \in [SUBSET S -> Int] : Sums(a, f, S)
  BY SumsExist
<1>2. Sum(a, S) = f[S] /\ f[S] = SumStep(a, f, S) /\ f[S] \in Int
  BY <1>1, SumIs DEF Sums
<1>3. ASSUME S # {} PROVE Taken(S) \in S /\ Sum(a, Rest(S)) = f[Rest(S)]
  <2>1. Taken(S) \in S /\ Rest(S) \subseteq S
    BY <1>3, RestSmaller
  <2>2. Summands(a, Rest(S))
    BY <2>1, FS_Subset DEF Summands
  <2> QED BY <1>1, <2>1, <2>2, SumIs
<1> QED BY <1>2, <1>3 DEF SumStep

(* Any element may be taken first.                                         *)
LEMMA SumWithout ==
  ASSUME NEW a, NEW S, Summands(a, S), NEW x \in S
  PROVE  Sum(a, S) = a[x] + Sum(a, S \ {x})
<1> DEFINE T == {t \in SUBSET S : \E y \in t : Sum(a, t) # a[y] + Sum(a, t \ {y})}
<1>1. T \subseteq SUBSET S
  OBVIOUS
<1>2. ASSUME NEW t \in T, \A u \in T : u \subseteq t => u = t PROVE FALSE
  <2>1. t \in SUBSET S
    OBVIOUS
  <2>2. PICK y \in t : Sum(a, t) # a[y] + Sum(a, t \ {y})
    OBVIOUS
  <2> DEFINE z == Taken(t)
  <2>3. \A u \in SUBSET S : Summands(a, u)
    BY FS_Subset DEF Summands
  <2>4. z \in t /\ Sum(a, t) = a[z] + Sum(a, t \ {z})
    BY <2>1, <2>2, <2>3, SumUnfolds DEF Rest
  <2> HIDE DEF z, T
  <2>5. y # z
    BY <2>2, <2>4
  <2>6. \A u \in SUBSET t : u # t => \A w \in u : Sum(a, u) = a[w] + Sum(a, u \ {w})
    BY <1>2, <2>1 DEF T
  <2>7. Sum(a, t \ {z}) = a[y] + Sum(a, (t \ {z}) \ {y})
    BY <2>2, <2>4, <2>5, <2>6
  <2>8. Sum(a, t \ {y}) = a[z] + Sum(a, (t \ {y}) \ {z})
    BY <2>2, <2>4, <2>5, <2>6
  <2>9. (t \ {z}) \ {y} = (t \ {y}) \ {z}
    OBVIOUS
  <2> DEFINE rest == Sum(a, (t \ {y}) \ {z})
  <2>10. rest \in Int /\ a[y] \in Int /\ a[z] \in Int
    <3>1. Summands(a, (t \ {y}) \ {z})
      BY <2>1, <2>3
    <3> QED BY <2>1, <2>2, <2>4, <3>1, SumUnfolds DEF Summands
  <2> HIDE DEF rest
  <2>11. Sum(a, t) = a[z] + (a[y] + rest) /\ Sum(a, t \ {y}) = a[z] + rest
    BY <2>4, <2>7, <2>8, <2>9 DEF rest
  <2> QED BY <2>2, <2>10, <2>11
<1> HIDE DEF T
<1>3. T = {}
  BY <1>1, <1>2, SmallestSet DEF Summands
<1>4. S \notin T
  BY <1>3
<1> QED BY <1>4 DEF T

LEMMA SumInNat ==
  ASSUME NEW a, NEW S, IsFiniteSet(S), \A x \in S : a[x] \in Nat
  PROVE  Sum(a, S) \in Nat
<1> DEFINE T == {t \in SUBSET S : Sum(a, t) \notin Nat}
<1>1. ASSUME NEW t \in T, \A u \in T : u \subseteq t => u = t PROVE FALSE
  <2>1. t \in SUBSET S /\ Sum(a, t) \notin Nat
    OBVIOUS
  <2>2. Summands(a, t)
    BY <2>1, FS_Subset DEF Summands
  <2>3. t # {}
    BY <2>1, <2>2, SumUnfolds
  <2>4. Taken(t) \in t /\ Sum(a, t) = a[Taken(t)] + Sum(a, Rest(t))
    BY <2>2, <2>3, SumUnfolds
  <2>5. Rest(t) \in SUBSET S /\ Rest(t) \subseteq t /\ Rest(t) # t
    BY <2>1, <2>3, RestSmaller
  <2>6. Sum(a, Rest(t)) \in Nat
    BY <1>1, <2>5
  <2> QED BY <2>1, <2>4, <2>6
<1>2. T \subseteq SUBSET S
  OBVIOUS
<1> HIDE DEF T
<1>3. T = {}
  BY <1>1, <1>2, SmallestSet
<1>4. S \notin T
  BY <1>3
<1> QED BY <1>4 DEF T

(* The sums of the modules                                                 *)
LEMMA SavedIsSum ==
  ASSUME NEW d, NEW g, NEW a, Summands(a, EntriesOf(d, g)),
         \A e \in EntriesOf(d, g) : a[e] = d.entries[e].amount
  PROVE  Saved(d, g) = Sum(a, EntriesOf(d, g))
<1> DEFINE S == EntriesOf(d, g)
           Other(f) == f = [s \in SUBSET S |-> IF s = {} THEN 0
                                ELSE d.entries[CHOOSE x \in s : TRUE].amount + f[s \ {CHOOSE x \in s : TRUE}]]
           h == CHOOSE f : Other(f)
<1>1. Saved(d, g) = h[S]
  BY DEF Saved, MapThenSumSet, MapThenFoldSet
<1>2. PICK f : Sums(a, f, S)
  BY SumsExist
<1>3. ASSUME NEW k PROVE Other(k) <=> Sums(a, k, S)
  <2>1. \A s \in SUBSET S : SumStep(a, k, s) = IF s = {} THEN 0
                                ELSE d.entries[CHOOSE x \in s : TRUE].amount + k[s \ {CHOOSE x \in s : TRUE}]
    BY RestSmaller DEF SumStep, Taken, Rest
  <2> QED BY <2>1 DEF Sums
<1>4. Other(h)
  <2>1. Other(f)
    BY <1>2, <1>3
  <2> QED BY <2>1
<1>5. Sums(a, h, S)
  BY <1>3, <1>4
<1> QED BY <1>1, <1>5, SumIs

LEMMA SavedInNat ==
  ASSUME NEW d, NEW g, IsFiniteSet(EntriesOf(d, g)),
         \A e \in EntriesOf(d, g) : d.entries[e].amount \in Nat
  PROVE  Saved(d, g) \in Nat
<1> DEFINE S == EntriesOf(d, g)
           a == [e \in S |-> d.entries[e].amount]
<1>1. IsFiniteSet(S) /\ \A e \in S : a[e] = d.entries[e].amount /\ a[e] \in Nat
  OBVIOUS
<1> HIDE DEF a
<1>2. Summands(a, S)
  BY <1>1 DEF Summands
<1>3. Saved(d, g) = Sum(a, S)
  BY <1>1, <1>2, SavedIsSum
<1> QED BY <1>1, <1>3, SumInNat

LEMMA CentsInNat == ASSUME NEW n \in Nat, NEW d \in Nat \ {0} PROVE Cents(n, d) \in Nat
<1> DEFINE a == 2 * n + 10 * d
           b == 20 * d
           q == a \div b
<1>1. a \in Nat /\ b \in Nat \ {0}
  OBVIOUS
<1>2. Cents(n, d) = 10 * q
  BY DEF Cents
<1> HIDE DEF a, b
<1>3. q \in Int /\ a < b * q + b
  BY <1>1, Division
<1> HIDE DEF q
<1>4. ~(q <= -1)
  <2> SUFFICES ASSUME q <= -1 PROVE FALSE
    OBVIOUS
  <2>1. b * q <= -b
    BY <1>1, <1>3
  <2> QED BY <1>1, <1>3, <2>1
<1> QED BY <1>2, <1>3, <1>4

LEMMA UpToUnitInNat == ASSUME NEW n \in Nat PROVE UpToUnit(n, 1) \in Nat
<1>1. UpToUnit(n, 1) \in Int /\ UpToUnit(n, 1) * 1 >= n
  BY UpToUnitBounds
<1> QED BY <1>1

LEMMA PoolInNat == ASSUME NEW s \in Stored PROVE Pool(s) \in Nat
<1> DEFINE a == AtLeast0(s.income - s.expenses)
           q == a \div Unit
<1>1. s.income \in Int /\ s.expenses \in Int
  BY ReadsAssumption DEF Stored
<1>2. a \in Nat
  BY <1>1 DEF AtLeast0
<1>3. Pool(s) = Unit * q
  BY DEF Pool
<1> HIDE DEF a
<1>4. q \in Int /\ a < Unit * q + Unit
  BY <1>2, Division DEF Unit
<1> QED BY <1>2, <1>3, <1>4 DEF Unit

(* Rates are positive; the need of a goal is a number of units.            *)
LEMMA NeedInNat ==
  ASSUME NEW p, NEW currency, NEW rate, p.monthly \in Nat,
         p.currency # currency => rate \in Nat \ {0}
  PROVE  Need(p, currency, rate) \in Nat
<1>1. CASE p.currency = currency
  BY <1>1, UpToUnitInNat DEF Need
<1>2. CASE p.currency # currency
  <2> DEFINE x == Convert(p.monthly, p.currency, rate)
  <2>1. rate \in Nat \ {0} /\ p.monthly * rate \in Nat
    BY <1>2
  <2>2. Cents(p.monthly * rate, 1) \in Nat /\ Cents(p.monthly, rate) \in Nat
    BY <2>1, CentsInNat
  <2>3. x \in Nat
    BY <2>2 DEF Convert, Column
  <2>4. Need(p, currency, rate) = UpToUnit(x, 1)
    BY <1>2 DEF Need
  <2> HIDE DEF x
  <2> QED BY <2>3, <2>4, UpToUnitInNat
<1> QED BY <1>1, <1>2

(* A goal that asks for nothing is excluded for what its status says: it   *)
(* is on track exactly if it is counted.                                   *)
LEMMA ReasonOfGoal ==
  ASSUME NEW goal \in GoalRow, NEW saved \in Int, NEW today \in Nat, NEW rate
  PROVE  LET p == Progress(goal, saved, today, rate) IN
         /\ Reason(p) = "counted" => p.status = "on_track" /\ p.monthly \in Nat /\ p.deadline \in Nat
         /\ Reason(p) # "counted" => Reason(p) = p.status
<1> DEFINE p == Progress(goal, saved, today, rate)
           n == AtLeast0(goal.target - saved)
           d == MonthsRemaining(goal.deadline, today)
<1>1. Nothing \notin Int /\ goal.target \in Nat \ {0} /\ goal.deadline \in Nat \cup {Nothing}
  BY ReadsAssumption DEF GoalRow, OrNothing
<1>2. /\ p.months = d /\ p.remaining = n /\ p.monthly = SuggestedMonthly(n, d) /\ p.deadline = goal.deadline
      /\ p.status = DeadlineStatus(saved, goal.target, goal.deadline, today)
  BY DEF Progress
<1>3. n \in Nat /\ (n = 0 <=> saved >= goal.target)
  BY <1>1 DEF AtLeast0
<1>4. CASE saved >= goal.target
  <2>1. p.status = "completed"
    BY <1>1, <1>2, <1>4 DEF DeadlineStatus
  <2> HIDE DEF p
  <2> QED BY <2>1 DEF Reason, p
<1>5. CASE ~(saved >= goal.target) /\ (goal.deadline = Nothing \/ goal.deadline < today)
  <2>1. d = Nothing /\ SuggestedMonthly(n, d) = Nothing
    BY <1>5 DEF MonthsRemaining, SuggestedMonthly
  <2>2. p.monthly = Nothing /\ p.status = IF goal.deadline = Nothing THEN "no_deadline" ELSE "overdue"
    BY <1>1, <1>2, <1>5, <2>1 DEF DeadlineStatus
  <2>3. Reason(p) = p.status /\ Reason(p) # "counted"
    <3> HIDE DEF p
    <3> QED BY <2>2 DEF Reason
  <2> QED BY <2>3
<1>6. CASE ~(saved >= goal.target) /\ goal.deadline \in Nat /\ goal.deadline >= today
  <2>1. p.status = "on_track"
    BY <1>1, <1>2, <1>6 DEF DeadlineStatus
  <2>2. d \in Nat \ {0} /\ n \in Nat \ {0}
    <3>1. goal.deadline \in Int /\ today \in Int
      BY <1>6
    <3>2. d \in Nat \ {0}
      BY <1>1, <1>6, <3>1, MonthsLeft
    <3>3. n # 0
      BY <1>3, <1>6
    <3> HIDE DEF n, d
    <3> QED BY <1>3, <3>2, <3>3
  <2>3. SuggestedMonthly(n, d) = UpToUnit(n, d)
    BY <1>1, <2>2 DEF SuggestedMonthly
  <2> HIDE DEF n, d
  <2>4. UpToUnit(n, d) \in Int /\ UpToUnit(n, d) * d >= n
    BY <2>2, UpToUnitBounds
  <2> DEFINE u == UpToUnit(n, d)
  <2>5. u \in Nat /\ u # 0
    <3> HIDE DEF u
    <3>1. u \in Int /\ u * d >= n
      BY <2>4 DEF u
    <3>2. ~(u <= 0)
      <4> SUFFICES ASSUME u <= 0 PROVE FALSE
        OBVIOUS
      <4>1. u * d <= 0
        BY <2>2, <3>1
      <4> QED BY <2>2, <3>1, <4>1
    <3> QED BY <3>1, <3>2
  <2>6. p.monthly = u /\ p.monthly \in Nat /\ p.monthly # 0 /\ p.monthly # Nothing
    BY <1>1, <1>2, <2>3, <2>5
  <2>7. Reason(p) = "counted"
    <3> HIDE DEF p, u
    <3> QED BY <2>1, <2>6 DEF Reason
  <2> HIDE DEF p, u
  <2>8. p.status = "on_track" /\ p.monthly \in Nat /\ p.deadline \in Nat /\ Reason(p) = "counted"
    BY <1>2, <1>6, <2>1, <2>6, <2>7
  <2> QED BY <2>8 DEF p
<1> QED BY <1>1, <1>4, <1>5, <1>6

(***************************************************************************)
(* The lines of a budget and how they share the pool                       *)
(***************************************************************************)
Lines(lines) ==
    /\ IsFiniteSet(DOMAIN lines) /\ DOMAIN lines \subseteq Nat
    /\ \A g \in DOMAIN lines : lines[g].need \in Nat /\ lines[g].deadline \in Nat

Needs(lines)  == [g \in DOMAIN lines |-> lines[g].need]
Nearer(lines) == [g \in DOMAIN lines |-> {x \in DOMAIN lines : Before(lines, x, g)}]

LEMMA TotalIsSum ==
  ASSUME NEW lines, Lines(lines)
  PROVE  Total(lines) = Sum(Needs(lines), DOMAIN lines) /\ Summands(Needs(lines), DOMAIN lines)
<1> DEFINE S == DOMAIN lines
           a == Needs(lines)
           Other(f) == f = [s \in SUBSET S |-> IF s = {} THEN 0
                                ELSE lines[CHOOSE x \in s : TRUE].need + f[s \ {CHOOSE x \in s : TRUE}]]
           h == CHOOSE f : Other(f)
<1>1. Summands(a, S) /\ \A g \in S : a[g] = lines[g].need
  BY DEF Lines, Needs, Summands
<1>2. Total(lines) = h[S]
  BY DEF Total, MapThenSumSet, MapThenFoldSet
<1> HIDE DEF a
<1>3. PICK f : Sums(a, f, S)
  BY <1>1, SumsExist
<1>4. ASSUME NEW k PROVE Other(k) <=> Sums(a, k, S)
  <2>1. \A s \in SUBSET S : SumStep(a, k, s) = IF s = {} THEN 0
                                ELSE lines[CHOOSE x \in s : TRUE].need + k[s \ {CHOOSE x \in s : TRUE}]
    BY <1>1, RestSmaller DEF SumStep, Taken, Rest
  <2> QED BY <2>1 DEF Sums
<1>5. Other(h)
  <2> HIDE DEF Other
  <2>1. Other(f)
    BY <1>3, <1>4
  <2> QED BY <2>1
<1>6. Sums(a, h, S)
  BY <1>4, <1>5
<1> QED BY <1>1, <1>2, <1>6, SumIs DEF a

LEMMA LinesLinear == ASSUME NEW lines, Lines(lines) PROVE Linear(Nearer(lines), DOMAIN lines)
<1> DEFINE D == DOMAIN lines
<1>1. \A g \in D : g \in Nat /\ lines[g].need \in Nat /\ lines[g].deadline \in Nat
  BY DEF Lines
<1>2. \A a, b \in D : a \in Nearer(lines)[b] <=> Before(lines, a, b)
  BY DEF Nearer
<1>3. \A a, b \in D : a = b \/ Before(lines, a, b) \/ Before(lines, b, a)
  BY <1>1 DEF Before
<1>4. ASSUME NEW a \in D, NEW b \in D, NEW c \in D, Before(lines, a, b), Before(lines, b, c)
      PROVE  Before(lines, a, c)
  BY <1>1, <1>4 DEF Before
<1> HIDE DEF D
<1>5. Linear(Nearer(lines), D)
  BY <1>2, <1>3, <1>4 DEF Linear
<1> QED BY <1>5 DEF D

LEMMA InOrderIs ==
  ASSUME NEW lines, Lines(lines), NEW n, n = Cardinality(DOMAIN lines), NEW s, s = InOrder(lines)
  PROVE  /\ n \in Nat /\ s \in [1 .. n -> DOMAIN lines]
         /\ \A i, j \in 1 .. n : i # j => s[i] # s[j]
         /\ \A i, j \in 1 .. n : i < j => Before(lines, s[i], s[j])
         /\ \A g \in DOMAIN lines : \E i \in 1 .. n : s[i] = g
<1> DEFINE D == DOMAIN lines
           Right(w) == w \in SetToSeqs(D) /\ \A i, j \in DOMAIN w : i < j => Before(lines, w[i], w[j])
<1>1. IsFiniteSet(D) /\ n \in Nat
  BY FS_CardinalityType DEF Lines
<1>2. PICK w : Sorts(Nearer(lines), D, w)
  BY <1>1, LinesLinear, SortedExists
<1>3. Right(w)
  <2>1. w \in SetToSeqs(D) /\ \A i, j \in DOMAIN w : i < j => w[i] \in Nearer(lines)[w[j]]
    BY <1>2 DEF Sorts
  <2>2. w \in [1 .. n -> D]
    BY <2>1, SetToSeqsIs
  <2>3. \A x, g \in D : x \in Nearer(lines)[g] => Before(lines, x, g)
    BY DEF Nearer
  <2> QED BY <2>1, <2>2, <2>3
<1>4. s = CHOOSE t \in SetToSeqs(D) : \A i, j \in DOMAIN t : i < j => Before(lines, t[i], t[j])
  BY DEF InOrder
<1>5. Right(s)
  BY <1>3, <1>4
<1>6. s \in [1 .. n -> D] /\ \A i, j \in 1 .. n : i # j => s[i] # s[j]
  BY <1>5, SetToSeqsIs
<1>7. \A g \in D : \E i \in 1 .. n : s[i] = g
  BY <1>1, <1>5, SeqCovers
<1> QED BY <1>1, <1>5, <1>6, <1>7

LEMMA Extremes ==
  ASSUME NEW S, S \subseteq Int, IsFiniteSet(S), S # {}
  PROVE  /\ \E m \in S : \A x \in S : m <= x
         /\ Max(S) \in S /\ \A x \in S : Max(S) >= x
<1>1. \E m \in S : \A x \in S : m <= x
  <2> DEFINE Below == [y \in S |-> {x \in S : x >= y}]
  <2>1. \A x, y \in S : x \in Below[y] <=> x >= y
    OBVIOUS
  <2> HIDE DEF Below
  <2>2. Linear(Below, S)
    <3>1. ASSUME NEW x \in S, NEW y \in S PROVE x = y \/ x \in Below[y] \/ y \in Below[x]
      <4>1. x \in Int /\ y \in Int
        OBVIOUS
      <4> QED BY <2>1, <4>1
    <3>2. ASSUME NEW x \in S, NEW y \in S, NEW z \in S, x \in Below[y], y \in Below[z]
          PROVE  x \in Below[z]
      <4>1. x \in Int /\ y \in Int /\ z \in Int
        OBVIOUS
      <4> QED BY <2>1, <3>2, <4>1
    <3> QED BY <3>1, <3>2 DEF Linear
  <2>3. PICK m \in S : \A x \in S \ {m} : x \in Below[m]
    BY <2>2, HasLast
  <2>4. ASSUME NEW x \in S PROVE m <= x
    <3>1. x \in Int /\ m \in Int
      OBVIOUS
    <3>2. x = m \/ x \in Below[m]
      BY <2>3
    <3> QED BY <2>1, <3>1, <3>2
  <2> QED BY <2>4
<1>2. \E m \in S : \A x \in S : m >= x
  <2> DEFINE Below == [y \in S |-> {x \in S : x <= y}]
  <2>1. \A x, y \in S : x \in Below[y] <=> x <= y
    OBVIOUS
  <2> HIDE DEF Below
  <2>2. Linear(Below, S)
    <3>1. ASSUME NEW x \in S, NEW y \in S PROVE x = y \/ x \in Below[y] \/ y \in Below[x]
      <4>1. x \in Int /\ y \in Int
        OBVIOUS
      <4> QED BY <2>1, <4>1
    <3>2. ASSUME NEW x \in S, NEW y \in S, NEW z \in S, x \in Below[y], y \in Below[z]
          PROVE  x \in Below[z]
      <4>1. x \in Int /\ y \in Int /\ z \in Int
        OBVIOUS
      <4> QED BY <2>1, <3>2, <4>1
    <3> QED BY <3>1, <3>2 DEF Linear
  <2>3. PICK m \in S : \A x \in S \ {m} : x \in Below[m]
    BY <2>2, HasLast
  <2>4. ASSUME NEW x \in S PROVE m >= x
    <3>1. x \in Int /\ m \in Int
      OBVIOUS
    <3>2. x = m \/ x \in Below[m]
      BY <2>3
    <3> QED BY <2>1, <3>1, <3>2
  <2> QED BY <2>4
<1> QED BY <1>1, <1>2 DEF Max

LineOf(lines) == [goal : DOMAIN lines, amount : Int, covered : BOOLEAN]
Shares(lines) == [left : Int, out : Seq(LineOf(lines))]

LEMMA GiveIs ==
  ASSUME NEW lines, Lines(lines), NEW acc \in Shares(lines), NEW g \in DOMAIN lines,
         NEW give, give = IF lines[g].need < acc.left THEN lines[g].need ELSE acc.left
  PROVE  /\ Give(lines, acc, g) \in Shares(lines)
         /\ give \in Int
         /\ Give(lines, acc, g).left = acc.left - give
         /\ Give(lines, acc, g).out
              = Append(acc.out, [goal |-> g, amount |-> give, covered |-> give = lines[g].need])
<1> DEFINE line == [goal |-> g, amount |-> give, covered |-> give = lines[g].need]
           out == Append(acc.out, line)
           left == acc.left - give
<1>1. acc.left \in Int /\ acc.out \in Seq(LineOf(lines)) /\ lines[g].need \in Nat
  BY DEF Shares, Lines
<1>2. give \in Int /\ left \in Int
  BY <1>1
<1>3. line \in LineOf(lines)
  BY <1>2 DEF LineOf
<1>4. Give(lines, acc, g) = [left |-> left, out |-> out]
  BY DEF Give
<1> HIDE DEF line, left
<1>5. out \in Seq(LineOf(lines))
  BY <1>1, <1>3
<1> HIDE DEF out
<1>6. Give(lines, acc, g) \in Shares(lines) /\ Give(lines, acc, g).left = left
      /\ Give(lines, acc, g).out = out
  BY <1>2, <1>4, <1>5 DEF Shares
<1> QED BY <1>2, <1>6 DEF left, out, line

(* The lines are given their shares one by one, in order.                  *)
LEMMA Stages ==
  ASSUME NEW lines, Lines(lines), NEW pool \in Int, NEW n, n = Cardinality(DOMAIN lines),
         NEW s, s = InOrder(lines)
  PROVE  \E acc \in [0 .. n -> Shares(lines)] :
            /\ acc[0] = [left |-> pool, out |-> <<>>]
            /\ \A k \in 1 .. n : acc[k] = Give(lines, acc[k - 1], s[k])
            /\ Allocate(pool, lines) = acc[n].out
<1> DEFINE I == 1 .. n
           base == [left |-> pool, out |-> <<>>]
           Chosen(t) == CHOOSE x \in t : \A y \in t : x >= y
           Told(f) == f = [t \in SUBSET I |-> IF t = {} THEN base
                             ELSE Give(lines, f[t \ {Chosen(t)}], s[Chosen(t)])]
           pick == [t \in SUBSET I |-> Max(t)]
           step == [k \in I |-> [acc \in Shares(lines) |-> Give(lines, acc, s[k])]]
           h == CHOOSE f : Told(f)
<1>1. /\ n \in Nat /\ s \in [I -> DOMAIN lines] /\ IsFiniteSet(I)
  BY InOrderIs, FS_Interval
<1>2. Allocate(pool, lines) = h[I].out
  <2>1. DOMAIN s = I
    BY <1>1
  <2> HIDE DEF I
  <2> QED BY <2>1 DEF Allocate, FoldLeft, MapThenFoldSet, Max
<1>3. \A t \in SUBSET I : t # {} => Max(t) \in t /\ \A x \in t : Max(t) >= x
  <2>1. ASSUME NEW t \in SUBSET I, t # {} PROVE Max(t) \in t /\ \A x \in t : Max(t) >= x
    <3>1. t \subseteq Int
      BY <1>1
    <3> HIDE DEF I
    <3>2. IsFiniteSet(t)
      BY <1>1, FS_Subset
    <3> QED BY <2>1, <3>1, <3>2, Extremes
  <2> QED BY <2>1
<1>4. \A t \in SUBSET I : Chosen(t) = Max(t)
  BY DEF Max
<1>5. base \in Shares(lines)
  <2>1. <<>> \in Seq(LineOf(lines))
    OBVIOUS
  <2> QED BY <2>1 DEF Shares
<1>6. \A k \in I : \A acc \in Shares(lines) :
         step[k][acc] = Give(lines, acc, s[k]) /\ step[k][acc] \in Shares(lines)
  <2>1. \A k \in I : \A acc \in Shares(lines) : step[k][acc] = Give(lines, acc, s[k])
    OBVIOUS
  <2>2. ASSUME NEW k \in I, NEW acc \in Shares(lines) PROVE Give(lines, acc, s[k]) \in Shares(lines)
    <3>1. s[k] \in DOMAIN lines
      BY <1>1
    <3> QED BY <3>1, GiveIs
  <2> HIDE DEF step
  <2> QED BY <2>1, <2>2
<1>7. \A t \in SUBSET I : pick[t] = Max(t) /\ Without(pick, t) = t \ {Max(t)}
  BY DEF Without
<1> HIDE DEF pick, step, base, I
<1>8. Picks(pick, I)
  BY <1>3, <1>7 DEF Picks
<1>9. PICK f : IsFold(pick, step, base, f, I)
  BY <1>1, <1>8, FoldExists
<1>10. ASSUME NEW t \in SUBSET I
       PROVE  f[t] = IF t = {} THEN base ELSE step[Max(t)][f[t \ {Max(t)}]]
  <2>1. f[t] = FoldStep(pick, step, base, f, t)
    BY <1>9 DEF IsFold
  <2>2. pick[t] = Max(t) /\ Without(pick, t) = t \ {Max(t)}
    BY <1>7
  <2> QED BY <2>1, <2>2 DEF FoldStep
<1>11. ASSUME NEW k \in 1 .. n
       PROVE  /\ 1 .. k \in SUBSET I /\ 1 .. k # {} /\ Max(1 .. k) = k
              /\ (1 .. k) \ {k} = 1 .. (k - 1) /\ 1 .. (k - 1) \in SUBSET I
  <2>1. 1 .. k \in SUBSET I /\ k \in 1 .. k /\ 1 .. (k - 1) \in SUBSET I
    BY <1>1 DEF I
  <2>2. (1 .. k) \ {k} = 1 .. (k - 1)
    BY <1>1
  <2>3. Max(1 .. k) \in 1 .. k /\ \A x \in 1 .. k : Max(1 .. k) >= x
    BY <1>3, <2>1
  <2>4. Max(1 .. k) = k
    <3> DEFINE m == Max(1 .. k)
    <3>1. m \in 1 .. k /\ m >= k
      BY <2>1, <2>3
    <3> HIDE DEF m
    <3>2. m = k
      BY <1>1, <3>1
    <3> QED BY <3>2 DEF m
  <2> QED BY <2>1, <2>2, <2>4
<1> DEFINE acc == [k \in 0 .. n |-> f[1 .. k]]
<1>12. {} \in SUBSET I /\ f[{}] = base /\ 1 .. 0 = {}
  BY <1>10
<1>13. ASSUME NEW k \in 1 .. n PROVE f[1 .. k] = step[k][f[1 .. (k - 1)]]
  <2>1. f[1 .. k] = step[Max(1 .. k)][f[(1 .. k) \ {Max(1 .. k)}]]
    BY <1>10, <1>11
  <2> QED BY <1>11, <2>1
<1>14. \A t \in SUBSET I : f[t] \in Shares(lines)
  <2> DEFINE T == {t \in SUBSET I : f[t] \notin Shares(lines)}
  <2>1. T \subseteq SUBSET I
    OBVIOUS
  <2>2. ASSUME NEW t \in T, \A u \in T : u \subseteq t => u = t PROVE FALSE
    <3>1. t \in SUBSET I /\ f[t] \notin Shares(lines)
      OBVIOUS
    <3>2. t # {}
      BY <1>5, <1>12, <3>1
    <3> DEFINE r == t \ {Max(t)}
    <3>3. Max(t) \in I /\ r \in SUBSET I /\ r \subseteq t /\ r # t
      BY <1>3, <3>1, <3>2
    <3>4. f[t] = step[Max(t)][f[r]]
      BY <1>10, <3>1, <3>2
    <3> HIDE DEF r
    <3>5. f[r] \in Shares(lines)
      BY <2>2, <3>3
    <3> QED BY <1>6, <3>1, <3>3, <3>4, <3>5
  <2> HIDE DEF T
  <2>3. T = {}
    BY <1>1, <2>1, <2>2, SmallestSet
  <2> QED BY <2>3 DEF T
<1>15. acc \in [0 .. n -> Shares(lines)] /\ \A k \in 0 .. n : acc[k] = f[1 .. k]
  <2>1. \A k \in 0 .. n : 1 .. k \in SUBSET I
    BY <1>1 DEF I
  <2> QED BY <1>14, <2>1
<1> HIDE DEF acc
<1>16. acc[0] = base
  BY <1>1, <1>12, <1>15
<1>17. ASSUME NEW k \in 1 .. n PROVE acc[k] = Give(lines, acc[k - 1], s[k])
  <2>1. k - 1 \in 0 .. n /\ k \in 0 .. n /\ k \in I
    BY <1>1 DEF I
  <2>2. acc[k] = step[k][acc[k - 1]] /\ acc[k - 1] \in Shares(lines)
    BY <1>13, <1>15, <2>1
  <2> QED BY <1>6, <2>1, <2>2
<1> DEFINE Told1(g, t) == g[t] = IF t = {} THEN base ELSE Give(lines, g[t \ {Max(t)}], s[Max(t)])
<1>18. ASSUME NEW t \in SUBSET I PROVE Told1(f, t)
  <2>1. CASE t = {}
    BY <1>12, <2>1
  <2>2. CASE t # {}
    <3>1. Max(t) \in I /\ t \ {Max(t)} \in SUBSET I
      BY <1>3, <2>2
    <3>2. f[t] = step[Max(t)][f[t \ {Max(t)}]] /\ f[t \ {Max(t)}] \in Shares(lines)
      BY <1>10, <1>14, <2>2, <3>1
    <3> QED BY <1>6, <2>2, <3>1, <3>2
  <2> QED BY <2>1, <2>2
<1>19. Told(f)
  <2>1. f = [t \in SUBSET I |-> f[t]]
    BY <1>9 DEF IsFold
  <2> QED BY <1>4, <1>18, <2>1
<1>20. Told(h)
  <2> HIDE DEF Told
  <2> QED BY <1>19
<1>21. ASSUME NEW t \in SUBSET I PROVE Told1(h, t)
  <2> HIDE DEF h
  <2> QED BY <1>4, <1>20
<1> HIDE DEF h, Told
<1>22. h[I] = f[I]
  <2> DEFINE T == {t \in SUBSET I : h[t] # f[t]}
  <2>1. T \subseteq SUBSET I
    OBVIOUS
  <2>2. ASSUME NEW t \in T, \A u \in T : u \subseteq t => u = t PROVE FALSE
    <3>1. t \in SUBSET I /\ h[t] # f[t] /\ Told1(h, t) /\ Told1(f, t)
      BY <1>18, <1>21
    <3>2. t # {}
      BY <3>1
    <3> DEFINE r == t \ {Max(t)}
    <3>3. r \in SUBSET I /\ r \subseteq t /\ r # t
      BY <1>3, <3>1, <3>2
    <3>4. h[t] = Give(lines, h[r], s[Max(t)]) /\ f[t] = Give(lines, f[r], s[Max(t)])
      BY <3>1, <3>2
    <3> HIDE DEF r
    <3>5. h[r] = f[r]
      BY <2>2, <3>3
    <3> QED BY <3>1, <3>4, <3>5
  <2> HIDE DEF T
  <2>3. T = {}
    BY <1>1, <2>1, <2>2, SmallestSet
  <2>4. I \notin T
    BY <2>3
  <2> QED BY <2>4 DEF T
<1>23. h[I] = acc[n]
  BY <1>1, <1>15, <1>22 DEF I
<1> QED BY <1>2, <1>15, <1>16, <1>17, <1>23 DEF base

Given(out) == [i \in DOMAIN out |-> out[i].amount]

Served(s, k) == {s[i] : i \in 1 .. k}

Proper(lines, g, line) ==
    /\ line.goal = g /\ line.amount \in 0 .. lines[g].need
    /\ line.covered <=> line.amount = lines[g].need

(* After k lines: what they got is what left the pool; a line that lacks   *)
(* has emptied it, and then nothing is left for those behind it.           *)
SharedSoFar(lines, pool, s, acc, k) ==
    /\ acc \in Shares(lines) /\ Len(acc.out) = k /\ acc.left \in Nat
    /\ \A i \in 1 .. k : Proper(lines, s[i], acc.out[i])
    /\ \A i \in 1 .. k : ~acc.out[i].covered =>
          acc.left = 0 /\ \A j \in 1 .. k : i < j => acc.out[j].amount = 0
    /\ acc.left # 0 => acc.left = pool - Sum(Needs(lines), Served(s, k))
    /\ Sum(Given(acc.out), DOMAIN acc.out) = pool - acc.left

LEMMA NoneShared ==
  ASSUME NEW lines, Lines(lines), NEW pool \in Nat, NEW s,
         NEW acc \in Shares(lines), acc = [left |-> pool, out |-> <<>>]
  PROVE  SharedSoFar(lines, pool, s, acc, 0)
<1>1. acc.left = pool /\ acc.out = <<>> /\ 1 .. 0 = {}
  OBVIOUS
<1>2. Len(acc.out) = 0 /\ DOMAIN acc.out = {}
  BY <1>1
<1>3. Served(s, 0) = {}
  BY DEF Served
<1>4. IsFiniteSet({})
  BY FS_EmptySet
<1>5. ASSUME NEW a PROVE Sum(a, {}) = 0
  <2>1. Summands(a, {})
    BY <1>4 DEF Summands
  <2> QED BY <2>1, SumUnfolds
<1>6. Sum(Given(acc.out), DOMAIN acc.out) = pool - acc.left
  <2>1. Sum(Given(acc.out), {}) = 0
    BY <1>5
  <2> QED BY <1>1, <1>2, <2>1
<1>7. acc.left # 0 => acc.left = pool - Sum(Needs(lines), Served(s, 0))
  <2>1. Sum(Needs(lines), Served(s, 0)) = 0
    BY <1>3, <1>5
  <2>2. acc.left = pool /\ pool - 0 = pool
    BY <1>1
  <2> QED BY <2>1, <2>2
<1> QED BY <1>1, <1>2, <1>6, <1>7 DEF SharedSoFar

(* The sums grow by the line that is added.                                *)
LEMMA AmountAdded ==
  ASSUME NEW lines, Lines(lines), NEW out \in Seq(LineOf(lines)), NEW line \in LineOf(lines)
  PROVE  LET more == Append(out, line)
         IN  Sum(Given(more), DOMAIN more) = line.amount + Sum(Given(out), DOMAIN out)
<1> DEFINE k == Len(out)
           more == Append(out, line)
           a == Given(out)
           b == Given(more)
<1>1. /\ k \in Nat /\ DOMAIN out = 1 .. k /\ DOMAIN more = 1 .. (k + 1)
      /\ more[k + 1] = line /\ \A i \in 1 .. k : more[i] = out[i] /\ out[i] \in LineOf(lines)
  OBVIOUS
<1>2. line.amount \in Int /\ \A i \in 1 .. k : out[i].amount \in Int
  BY <1>1 DEF LineOf
<1> HIDE DEF k, more
<1>3. b[k + 1] = line.amount /\ \A i \in 1 .. k : a[i] = out[i].amount /\ b[i] = out[i].amount
  BY <1>1 DEF Given
<1> HIDE DEF a, b
<1>4. IsFiniteSet(1 .. k) /\ IsFiniteSet(1 .. (k + 1))
  BY <1>1, FS_Interval
<1>5. \A i \in 1 .. (k + 1) : i \in 1 .. k \/ i = k + 1
  BY <1>1
<1>6. Summands(b, 1 .. (k + 1)) /\ Summands(b, 1 .. k)
  BY <1>2, <1>3, <1>4, <1>5 DEF Summands
<1>7. Sum(b, 1 .. (k + 1)) = b[k + 1] + Sum(b, (1 .. (k + 1)) \ {k + 1})
  <2>1. k + 1 \in 1 .. (k + 1)
    BY <1>1
  <2> QED BY <1>6, <2>1, SumWithout
<1>8. (1 .. (k + 1)) \ {k + 1} = 1 .. k
  BY <1>1
<1>9. Sum(b, 1 .. k) = Sum(a, 1 .. k)
  <2>1. \A i \in 1 .. k : b[i] = a[i]
    BY <1>3
  <2> QED BY <1>6, <2>1, SumSame
<1>10. Sum(b, DOMAIN more) = line.amount + Sum(a, DOMAIN out)
  BY <1>1, <1>3, <1>7, <1>8, <1>9
<1> QED BY <1>10 DEF a, b, more

LEMMA NeedAdded ==
  ASSUME NEW lines, Lines(lines), NEW n, n = Cardinality(DOMAIN lines),
         NEW s, s = InOrder(lines), NEW k \in 1 .. n
  PROVE  /\ Sum(Needs(lines), Served(s, k))
              = lines[s[k]].need + Sum(Needs(lines), Served(s, k - 1))
         /\ Sum(Needs(lines), Served(s, k - 1)) \in Int
<1> DEFINE a == Needs(lines)
           A == Served(s, k)
           B == Served(s, k - 1)
<1>1. /\ n \in Nat /\ s \in [1 .. n -> DOMAIN lines]
      /\ \A i, j \in 1 .. n : i # j => s[i] # s[j]
  BY InOrderIs
<1>2. /\ k \in Int /\ k - 1 \in Int /\ 1 .. k \subseteq 1 .. n
      /\ 1 .. (k - 1) \subseteq 1 .. k /\ k \in 1 .. k
      /\ \A i \in 1 .. k : i = k \/ i \in 1 .. (k - 1)
      /\ k \notin 1 .. (k - 1)
  BY <1>1
<1>3. A \subseteq DOMAIN lines /\ B \subseteq DOMAIN lines /\ s[k] \in A
  BY <1>1, <1>2 DEF Served
<1>4. A \ {s[k]} = B
  BY <1>1, <1>2 DEF Served
<1> HIDE DEF A, B
<1>5. a[s[k]] = lines[s[k]].need
  BY <1>1 DEF Needs
<1>6. Summands(a, A) /\ Summands(a, B)
  <2>1. Summands(a, DOMAIN lines)
    BY TotalIsSum
  <2> HIDE DEF a
  <2> QED BY <1>3, <2>1, FS_Subset DEF Summands
<1> HIDE DEF a
<1>7. Sum(a, A) = a[s[k]] + Sum(a, B)
  BY <1>3, <1>4, <1>6, SumWithout
<1>8. Sum(a, B) \in Int
  BY <1>6, SumUnfolds
<1> QED BY <1>5, <1>7, <1>8 DEF a, A, B

LEMMA ShareGiven ==
  ASSUME NEW lines, Lines(lines), NEW pool \in Nat, NEW n, n = Cardinality(DOMAIN lines),
         NEW s, s = InOrder(lines), NEW k \in 1 .. n,
         NEW acc, SharedSoFar(lines, pool, s, acc, k - 1)
  PROVE  SharedSoFar(lines, pool, s, Give(lines, acc, s[k]), k)
<1> DEFINE need == lines[s[k]].need
           give == IF need < acc.left THEN need ELSE acc.left
           line == [goal |-> s[k], amount |-> give, covered |-> give = need]
           next == Give(lines, acc, s[k])
           before == Sum(Needs(lines), Served(s, k - 1))
           after  == Sum(Needs(lines), Served(s, k))
<1>1. /\ n \in Nat /\ s \in [1 .. n -> DOMAIN lines] /\ s[k] \in DOMAIN lines /\ k \in Nat \ {0} /\ k - 1 \in Nat
  BY InOrderIs
<1>2. need \in Nat
  BY <1>1 DEF Lines
<1>3. acc \in Shares(lines) /\ Len(acc.out) = k - 1 /\ acc.left \in Nat /\ acc.out \in Seq(LineOf(lines))
  BY DEF SharedSoFar, Shares
<1>4. /\ next \in Shares(lines) /\ next.left = acc.left - give /\ next.out = Append(acc.out, line)
  BY <1>1, <1>3, GiveIs
<1>5. after = need + before /\ before \in Int
  BY NeedAdded
<1> HIDE DEF next, before, after
<1>6. /\ give \in Nat /\ give \in 0 .. need /\ acc.left - give \in Nat
      /\ give # need => give = acc.left /\ next.left = 0
      /\ acc.left = 0 => give = 0
  BY <1>2, <1>3, <1>4
<1> HIDE DEF need
<1>7. line \in LineOf(lines) /\ line.goal = s[k] /\ line.amount = give /\ (line.covered <=> give = need)
  <2> HIDE DEF give
  <2>1. line \in LineOf(lines)
    BY <1>1, <1>6 DEF LineOf
  <2>2. line.goal = s[k] /\ line.amount = give /\ line.covered = (give = need)
    OBVIOUS
  <2> QED BY <2>1, <2>2
<1> HIDE DEF give, line
<1>8. /\ Len(next.out) = k /\ next.out[k] = line
      /\ \A i \in 1 .. (k - 1) : next.out[i] = acc.out[i]
      /\ \A i \in 1 .. k : i = k \/ i \in 1 .. (k - 1)
      /\ k \notin 1 .. (k - 1)
  BY <1>1, <1>3, <1>4, <1>7
<1>9. Sum(Given(next.out), DOMAIN next.out) = pool - next.left
  <2>1. Sum(Given(next.out), DOMAIN next.out) = give + Sum(Given(acc.out), DOMAIN acc.out)
    BY <1>3, <1>4, <1>7, AmountAdded
  <2>2. Sum(Given(acc.out), DOMAIN acc.out) = pool - acc.left
    BY DEF SharedSoFar
  <2> QED BY <1>3, <1>4, <1>6, <2>1, <2>2
<1>10. next.left # 0 => next.left = pool - after
  <2>1. acc.left # 0 => acc.left = pool - before
    BY DEF SharedSoFar, before
  <2> QED BY <1>2, <1>3, <1>4, <1>5, <1>6, <2>1
<1>11. \A i \in 1 .. k : Proper(lines, s[i], next.out[i])
  <2>1. \A i \in 1 .. (k - 1) : Proper(lines, s[i], acc.out[i])
    BY DEF SharedSoFar
  <2>2. Proper(lines, s[k], next.out[k])
    BY <1>6, <1>7, <1>8 DEF need, Proper
  <2> QED BY <1>8, <2>1, <2>2
<1>12. ASSUME NEW i \in 1 .. k, ~next.out[i].covered
       PROVE  next.left = 0 /\ \A j \in 1 .. k : i < j => next.out[j].amount = 0
  <2>1. \A x \in 1 .. (k - 1) : ~acc.out[x].covered =>
          acc.left = 0 /\ \A j \in 1 .. (k - 1) : x < j => acc.out[j].amount = 0
    BY DEF SharedSoFar
  <2>2. CASE i = k
    <3>1. next.left = 0
      BY <1>6, <1>7, <1>8, <1>12, <2>2
    <3>2. \A j \in 1 .. k : ~(k < j)
      BY <1>1
    <3> QED BY <2>2, <3>1, <3>2
  <2>3. CASE i \in 1 .. (k - 1)
    <3>1. acc.left = 0 /\ \A j \in 1 .. (k - 1) : i < j => acc.out[j].amount = 0
      BY <1>8, <1>12, <2>1, <2>3
    <3>2. give = 0 /\ next.left = 0
      <4>1. give = 0
        BY <1>6, <3>1
      <4>2. next.left = acc.left - give
        BY <1>4
      <4> QED BY <3>1, <4>1, <4>2
    <3>3. next.out[k].amount = 0
      BY <1>7, <1>8, <3>2
    <3> QED BY <1>8, <3>1, <3>2, <3>3
  <2> QED BY <1>8, <2>2, <2>3
<1>13. next.left \in Nat
  BY <1>4, <1>6
<1>14. SharedSoFar(lines, pool, s, next, k)
  BY <1>4, <1>8, <1>9, <1>10, <1>11, <1>12, <1>13 DEF SharedSoFar, after
<1> QED BY <1>14 DEF next

LEMMA AllShared ==
  ASSUME NEW lines, Lines(lines), NEW pool \in Nat
  PROVE  \E acc, s : /\ s = InOrder(lines) /\ Allocate(pool, lines) = acc.out
                     /\ SharedSoFar(lines, pool, s, acc, Cardinality(DOMAIN lines))
<1> DEFINE n == Cardinality(DOMAIN lines)
           s == InOrder(lines)
<1>1. n \in Nat
  BY InOrderIs
<1>2. PICK acc \in [0 .. n -> Shares(lines)] :
            /\ acc[0] = [left |-> pool, out |-> <<>>]
            /\ \A k \in 1 .. n : acc[k] = Give(lines, acc[k - 1], s[k])
            /\ Allocate(pool, lines) = acc[n].out
  BY Stages
<1> DEFINE T == {k \in 0 .. n : ~SharedSoFar(lines, pool, s, acc[k], k)}
<1>3. T \subseteq Int /\ IsFiniteSet(T)
  <2>1. IsFiniteSet(0 .. n) /\ T \subseteq 0 .. n
    BY <1>1, FS_Interval
  <2>2. 0 .. n \subseteq Int
    BY <1>1
  <2> HIDE DEF T
  <2>3. IsFiniteSet(T)
    BY <2>1, FS_Subset
  <2> QED BY <2>1, <2>2, <2>3
<1>4. ASSUME NEW k \in T, \A x \in T : k <= x PROVE FALSE
  <2>1. k \in 0 .. n /\ ~SharedSoFar(lines, pool, s, acc[k], k)
    OBVIOUS
  <2>2. SharedSoFar(lines, pool, s, acc[0], 0)
    <3>1. acc[0] \in Shares(lines)
      BY <1>1, <1>2
    <3> QED BY <1>2, <3>1, NoneShared
  <2>3. k \in 1 .. n /\ k - 1 \in 0 .. n /\ ~(k <= k - 1)
    BY <1>1, <2>1, <2>2
  <2>4. k - 1 \notin T
    BY <1>4, <2>3
  <2>5. SharedSoFar(lines, pool, s, acc[k - 1], k - 1)
    BY <2>3, <2>4
  <2> HIDE DEF T, s, n
  <2>6. SharedSoFar(lines, pool, s, Give(lines, acc[k - 1], s[k]), k)
    BY <2>3, <2>5, ShareGiven DEF s, n
  <2> QED BY <1>2, <2>1, <2>3, <2>6
<1> HIDE DEF T
<1>5. T = {}
  BY <1>3, <1>4, Extremes
<1>6. SharedSoFar(lines, pool, s, acc[n], n)
  <2>1. n \in 0 .. n /\ n \notin T
    BY <1>1, <1>5
  <2> QED BY <2>1 DEF T
<1> QED BY <1>2, <1>6

GoalsIn(out) == {out[i].goal : i \in DOMAIN out}

(* If the needs are more than the pool, the lines share it out exactly.    *)
LEMMA PoolSharedOut ==
  ASSUME NEW lines, Lines(lines), NEW pool \in Nat, Total(lines) > pool,
         NEW out, out = Allocate(pool, lines)
  PROVE  /\ SharesOut(lines, out, pool)
         /\ DOMAIN lines = GoalsIn(out)
<1> DEFINE n == Cardinality(DOMAIN lines)
<1>1. PICK acc, s : s = InOrder(lines) /\ out = acc.out /\ SharedSoFar(lines, pool, s, acc, n)
  BY AllShared
<1>2. /\ n \in Nat /\ s \in [1 .. n -> DOMAIN lines]
      /\ \A i, j \in 1 .. n : i # j => s[i] # s[j]
      /\ \A i, j \in 1 .. n : i < j => Before(lines, s[i], s[j])
      /\ \A g \in DOMAIN lines : \E i \in 1 .. n : s[i] = g
  BY <1>1, InOrderIs
<1> HIDE DEF n
<1>3. /\ DOMAIN out = 1 .. n /\ acc.left \in Nat /\ out \in Seq(LineOf(lines))
      /\ \A i \in 1 .. n : Proper(lines, s[i], out[i])
      /\ Sum(Given(out), DOMAIN out) = pool - acc.left
  BY <1>1 DEF SharedSoFar, Shares
<1>4. acc.left = 0
  <2>1. Served(s, n) = DOMAIN lines
    BY <1>2 DEF Served
  <2>2. Total(lines) = Sum(Needs(lines), DOMAIN lines) /\ Total(lines) \in Int
    BY TotalIsSum, SumUnfolds
  <2>3. acc.left # 0 => acc.left = pool - Total(lines)
    BY <1>1, <2>1, <2>2 DEF SharedSoFar
  <2> QED BY <1>3, <2>2, <2>3
<1>5. MapThenSumSet(LAMBDA i : out[i].amount, DOMAIN out) = pool
  <2> DEFINE S == DOMAIN out
             a == Given(out)
             Other(f) == f = [t \in SUBSET S |-> IF t = {} THEN 0
                                ELSE out[CHOOSE x \in t : TRUE].amount + f[t \ {CHOOSE x \in t : TRUE}]]
             h == CHOOSE f : Other(f)
  <2>1. Summands(a, S) /\ \A i \in S : a[i] = out[i].amount
    <3>1. IsFiniteSet(S)
      BY <1>2, <1>3, FS_Interval
    <3>2. ASSUME NEW i \in S PROVE out[i].amount \in Int
      <4>0. out \in Seq(LineOf(lines)) /\ i \in DOMAIN out
        BY <1>3
      <4>1. out[i] \in LineOf(lines)
        BY <4>0
      <4> QED BY <4>1 DEF LineOf
    <3> QED BY <3>1, <3>2 DEF Given, Summands
  <2>2. MapThenSumSet(LAMBDA i : out[i].amount, DOMAIN out) = h[S]
    BY DEF MapThenSumSet, MapThenFoldSet
  <2> HIDE DEF a, S
  <2>3. PICK f : Sums(a, f, S)
    BY <2>1, SumsExist
  <2>4. ASSUME NEW k PROVE Other(k) <=> Sums(a, k, S)
    <3>1. \A t \in SUBSET S : SumStep(a, k, t) = IF t = {} THEN 0
                                ELSE out[CHOOSE x \in t : TRUE].amount + k[t \ {CHOOSE x \in t : TRUE}]
      BY <2>1, RestSmaller DEF SumStep, Taken, Rest
    <3> QED BY <3>1 DEF Sums
  <2>5. Other(h)
    <3> HIDE DEF Other
    <3>1. Other(f)
      BY <2>3, <2>4
    <3> QED BY <3>1
  <2>6. h[S] = Sum(a, S)
    <3>1. Sums(a, h, S)
      BY <2>4, <2>5
    <3> HIDE DEF h, S
    <3> QED BY <2>1, <3>1, SumIs
  <2> QED BY <1>3, <1>4, <2>2, <2>6 DEF a, S
<1>6. ASSUME NEW i \in DOMAIN out
      PROVE  /\ out[i].goal = s[i] /\ out[i].amount \in 0 .. lines[out[i].goal].need
             /\ out[i].covered <=> out[i].amount = lines[out[i].goal].need
  BY <1>3 DEF Proper
<1>7. ASSUME NEW i \in DOMAIN out, NEW j \in DOMAIN out, i < j
      PROVE  /\ out[j].amount > 0 => out[i].covered
             /\ out[i].goal # out[j].goal
             /\ lines[out[i].goal].deadline <= lines[out[j].goal].deadline
  <2>1. i \in 1 .. n /\ j \in 1 .. n /\ i # j /\ out[i].goal = s[i] /\ out[j].goal = s[j]
    BY <1>2, <1>3, <1>6, <1>7
  <2>2. ~out[i].covered => out[j].amount = 0
    BY <1>1, <1>7, <2>1 DEF SharedSoFar
  <2>3. s[i] # s[j] /\ Before(lines, s[i], s[j]) /\ s[i] \in DOMAIN lines /\ s[j] \in DOMAIN lines
    BY <1>2, <1>7, <2>1
  <2>4. lines[s[i]].deadline <= lines[s[j]].deadline
    BY <2>3 DEF Before, Lines
  <2> QED BY <2>1, <2>2, <2>3, <2>4
<1>8. SharesOut(lines, out, pool)
  BY <1>5, <1>6, <1>7 DEF SharesOut
<1>9. DOMAIN lines = GoalsIn(out)
  <2>1. ASSUME NEW i \in DOMAIN out PROVE out[i].goal \in DOMAIN lines
    BY <1>2, <1>3, <1>6
  <2>2. ASSUME NEW g \in DOMAIN lines PROVE \E i \in DOMAIN out : out[i].goal = g
    BY <1>2, <1>3, <1>6
  <2> QED BY <2>1, <2>2 DEF GoalsIn
<1> QED BY <1>8, <1>9

Reasoned(p) ==
    /\ Reason(p) = "counted" => p.status = "on_track" /\ p.monthly \in Nat /\ p.deadline \in Nat
    /\ Reason(p) # "counted" => Reason(p) = p.status

LEMMA BlockAddsUp ==
  ASSUME NEW settings \in Stored, NEW progress, NEW rate \in OrNothing(Nat \ {0}),
         IsFiniteSet(DOMAIN progress), DOMAIN progress \subseteq Nat,
         \A g \in DOMAIN progress : Reasoned(progress[g])
  PROVE  AddsUp(settings, progress, Available(settings, progress, rate))
<1> DEFINE b       == Available(settings, progress, rate)
           counted == Counted(progress)
           noRate  == rate = Nothing /\ \E g \in counted : progress[g].currency # settings.currency
           asked   == IF noRate THEN {} ELSE counted
           lines   == [g \in asked |-> [need |-> Need(progress[g], settings.currency, rate),
                                        deadline |-> progress[g].deadline]]
           pool    == Pool(settings)
           total   == Total(lines)
           left    == pool - total
           Unless(x) == IF noRate THEN Nothing ELSE x
           excluded == [g \in DOMAIN progress \ counted |-> Reason(progress[g])]
           shared  == IF noRate \/ left >= 0 THEN Nothing ELSE Allocate(pool, lines)
<1>1. b = [configured |-> TRUE, rateUnavailable |-> noRate, rateUsed |-> Unless(rate),
           totalNeed |-> Unless(total), available |-> Unless(left),
           shortfall |-> Unless(AtLeast0(-left)), counted |-> lines,
           excluded |-> excluded, allocation |-> shared]
  BY DEF Available
<1>2. noRate \in BOOLEAN
  OBVIOUS
<1>3. /\ noRate => \E g \in DOMAIN progress : progress[g].currency # settings.currency
      /\ ~noRate => asked = counted /\ \A g \in counted : progress[g].currency # settings.currency => rate # Nothing
      /\ noRate => asked = {}
  BY DEF Counted
<1>4. counted \subseteq DOMAIN progress /\ \A g \in DOMAIN progress : g \in counted <=> Reason(progress[g]) = "counted"
  BY DEF Counted
<1> HIDE DEF b, counted, noRate
<1>5. /\ DOMAIN lines = asked /\ asked \subseteq counted
      /\ \A g \in asked : /\ lines[g].need = Need(progress[g], settings.currency, rate)
                          /\ lines[g].deadline = progress[g].deadline
  BY <1>3
<1>6. DOMAIN excluded = DOMAIN progress \ counted
      /\ \A g \in DOMAIN excluded : excluded[g] = Reason(progress[g])
  OBVIOUS
<1> HIDE DEF asked, lines, excluded, pool, total, left, shared
<1>7. /\ b.rateUnavailable = noRate /\ b.counted = lines /\ b.excluded = excluded /\ b.allocation = shared
      /\ b.totalNeed = Unless(total) /\ b.available = Unless(left) /\ b.shortfall = Unless(AtLeast0(-left))
  BY <1>1
<1> HIDE DEF Unless
<1>8. Lines(lines)
  <2>1. IsFiniteSet(asked) /\ asked \subseteq Nat
    BY <1>4, <1>5, FS_Subset
  <2>2. ASSUME NEW g \in asked PROVE lines[g].need \in Nat /\ lines[g].deadline \in Nat
    <3>1. g \in DOMAIN progress /\ Reasoned(progress[g]) /\ Reason(progress[g]) = "counted" /\ g \in counted
      BY <1>4, <1>5
    <3>2. progress[g].monthly \in Nat /\ progress[g].deadline \in Nat
      BY <3>1 DEF Reasoned
    <3>3. progress[g].currency # settings.currency => rate \in Nat \ {0}
      <4>1. ~noRate
        BY <1>3
      <4> QED BY <1>3, <3>1, <4>1 DEF OrNothing
    <3>4. Need(progress[g], settings.currency, rate) \in Nat
      BY <3>2, <3>3, NeedInNat
    <3> QED BY <1>5, <3>2, <3>4
  <2> QED BY <1>5, <2>1, <2>2 DEF Lines
<1>9. pool \in Nat /\ total \in Int /\ left = pool - total
  <2>1. pool \in Nat
    BY PoolInNat DEF pool
  <2>2. total \in Int
    BY <1>8, TotalIsSum, SumUnfolds DEF total
  <2> QED BY <2>1, <2>2 DEF left
<1>10. ASSUME ~noRate PROVE b.totalNeed = total /\ b.available = left /\ b.shortfall = AtLeast0(-left)
  BY <1>7, <1>10 DEF Unless
<1>11. ASSUME noRate PROVE b.totalNeed = Nothing /\ b.allocation = Nothing
  BY <1>7, <1>11 DEF Unless, shared
<1>12. ASSUME ~noRate
       PROVE  \/ b.allocation = Nothing /\ b.available >= 0 /\ b.shortfall = 0
              \/ /\ b.shortfall = -b.available /\ b.shortfall > 0
                 /\ DOMAIN b.counted = {b.allocation[i].goal : i \in DOMAIN b.allocation}
                 /\ SharesOut(b.counted, b.allocation, Pool(settings))
  <2>1. CASE left >= 0
    <3>1. AtLeast0(-left) = 0
      BY <1>9, <2>1 DEF AtLeast0
    <3> QED BY <1>7, <1>10, <1>12, <2>1, <3>1 DEF shared
  <2>2. CASE ~(left >= 0)
    <3>1. AtLeast0(-left) = -left /\ -left > 0 /\ total > pool
      BY <1>9, <2>2 DEF AtLeast0
    <3>2. shared = Allocate(pool, lines)
      BY <1>12, <2>2 DEF shared
    <3>3. SharesOut(lines, shared, pool) /\ DOMAIN lines = GoalsIn(shared)
      BY <1>8, <1>9, <3>1, <3>2, PoolSharedOut DEF total
    <3>4. pool = Pool(settings)
      BY DEF pool
    <3> QED BY <1>7, <1>10, <1>12, <3>1, <3>3, <3>4 DEF GoalsIn
  <2> QED BY <2>1, <2>2
<1>13. /\ DOMAIN b.counted \cap DOMAIN b.excluded = {}
       /\ b.rateUnavailable \/ DOMAIN b.counted \cup DOMAIN b.excluded = DOMAIN progress
  BY <1>3, <1>4, <1>5, <1>6, <1>7
<1>14. /\ \A g \in DOMAIN b.excluded : b.excluded[g] = progress[g].status
       /\ \A g \in DOMAIN b.counted : progress[g].status = "on_track"
  BY <1>4, <1>5, <1>6, <1>7 DEF Reasoned
<1>15. b.rateUnavailable = noRate /\ noRate \in BOOLEAN
  BY <1>2, <1>7
<1>16. ~noRate => b.available = Pool(settings) - b.totalNeed
  BY <1>9, <1>10 DEF pool
<1>17. AddsUp(settings, progress, b)
  BY <1>3, <1>11, <1>12, <1>13, <1>14, <1>15, <1>16 DEF AddsUp
<1> QED BY <1>17 DEF b

(***************************************************************************)
(* The database                                                            *)
(***************************************************************************)
Db == [goals : [GoalIds -> OrNothing(GoalRow)], entries : [EntryIds -> OrNothing(EntryRow)],
       settings : OrNothing(Stored), rates : [Days -> OrNothing(Range(Quote))], today : Days]

StoredEntries(d) == {e \in EntryIds : d.entries[e] # Nothing}

(* No rate is stored before its day has come.                              *)
DbOK(d) ==
    /\ d \in Db
    /\ IsFiniteSet(StoredEntries(d)) /\ IsFiniteSet(GoalsOf(d))
    /\ \A x \in Days : d.rates[x] # Nothing => x <= d.today

(* Of two states one write apart: a goal is as it was, or has come or gone,*)
(* or no entry has changed.                                                *)
Related(a, b) ==
    \A g \in GoalIds : \/ a.goals[g] = b.goals[g] \/ a.goals[g] = Nothing \/ b.goals[g] = Nothing
                       \/ a.entries = b.entries

(* The write that leads from a to d is to no entry outside E.              *)
Spares(a, d, E) == E \subseteq EntryIds /\ \A e \in EntryIds \ E : d.entries[e] = a.entries[e]

LEMMA DbFields ==
  ASSUME NEW d \in Db
  PROVE  /\ d.goals \in [GoalIds -> OrNothing(GoalRow)]
         /\ d.entries \in [EntryIds -> OrNothing(EntryRow)]
         /\ d.settings \in OrNothing(Stored)
         /\ d.rates \in [Days -> OrNothing(Range(Quote))]
         /\ d.today \in Days
BY DEF Db

LEMMA DbWith ==
  ASSUME NEW d \in Db
  PROVE  /\ \A f \in [GoalIds -> OrNothing(GoalRow)] :
              /\ [d EXCEPT !.goals = f] \in Db /\ [d EXCEPT !.goals = f].goals = f
              /\ [d EXCEPT !.goals = f].entries = d.entries /\ [d EXCEPT !.goals = f].rates = d.rates
              /\ [d EXCEPT !.goals = f].today = d.today
         /\ \A f \in [EntryIds -> OrNothing(EntryRow)] :
              /\ [d EXCEPT !.entries = f] \in Db /\ [d EXCEPT !.entries = f].entries = f
              /\ [d EXCEPT !.entries = f].goals = d.goals /\ [d EXCEPT !.entries = f].rates = d.rates
              /\ [d EXCEPT !.entries = f].today = d.today
         /\ \A s \in OrNothing(Stored) :
              /\ [d EXCEPT !.settings = s] \in Db /\ [d EXCEPT !.settings = s].rates = d.rates
              /\ [d EXCEPT !.settings = s].goals = d.goals /\ [d EXCEPT !.settings = s].entries = d.entries
              /\ [d EXCEPT !.settings = s].today = d.today
         /\ \A f \in [Days -> OrNothing(Range(Quote))] :
              /\ [d EXCEPT !.rates = f] \in Db /\ [d EXCEPT !.rates = f].rates = f
              /\ [d EXCEPT !.rates = f].goals = d.goals /\ [d EXCEPT !.rates = f].entries = d.entries
              /\ [d EXCEPT !.rates = f].today = d.today
         /\ \A x \in Days :
              /\ [d EXCEPT !.today = x] \in Db /\ [d EXCEPT !.today = x].today = x
              /\ [d EXCEPT !.today = x].goals = d.goals /\ [d EXCEPT !.today = x].entries = d.entries
              /\ [d EXCEPT !.today = x].rates = d.rates
<1> DEFINE G == [GoalIds -> OrNothing(GoalRow)]
           N == [EntryIds -> OrNothing(EntryRow)]
           S == OrNothing(Stored)
           R == [Days -> OrNothing(Range(Quote))]
           T == Days
<1>1. Db = [goals : G, entries : N, settings : S, rates : R, today : T]
  BY DEF Db
<1> HIDE DEF G, N, S, R, T
<1>2. \A f \in G :
              /\ [d EXCEPT !.goals = f] \in Db /\ [d EXCEPT !.goals = f].goals = f
              /\ [d EXCEPT !.goals = f].entries = d.entries /\ [d EXCEPT !.goals = f].rates = d.rates
              /\ [d EXCEPT !.goals = f].today = d.today
  BY <1>1
<1>3. \A f \in N :
              /\ [d EXCEPT !.entries = f] \in Db /\ [d EXCEPT !.entries = f].entries = f
              /\ [d EXCEPT !.entries = f].goals = d.goals /\ [d EXCEPT !.entries = f].rates = d.rates
              /\ [d EXCEPT !.entries = f].today = d.today
  BY <1>1
<1>4. \A s \in S :
              /\ [d EXCEPT !.settings = s] \in Db /\ [d EXCEPT !.settings = s].rates = d.rates
              /\ [d EXCEPT !.settings = s].goals = d.goals /\ [d EXCEPT !.settings = s].entries = d.entries
              /\ [d EXCEPT !.settings = s].today = d.today
  BY <1>1
<1>5. \A f \in R :
              /\ [d EXCEPT !.rates = f] \in Db /\ [d EXCEPT !.rates = f].rates = f
              /\ [d EXCEPT !.rates = f].goals = d.goals /\ [d EXCEPT !.rates = f].entries = d.entries
              /\ [d EXCEPT !.rates = f].today = d.today
  BY <1>1
<1>6. \A x \in T :
              /\ [d EXCEPT !.today = x] \in Db /\ [d EXCEPT !.today = x].today = x
              /\ [d EXCEPT !.today = x].goals = d.goals /\ [d EXCEPT !.today = x].entries = d.entries
              /\ [d EXCEPT !.today = x].rates = d.rates
  BY <1>1
<1> QED BY <1>2, <1>3, <1>4, <1>5, <1>6 DEF G, N, S, R, T

(* What each write makes of the database                                   *)
LEMMA GoalsWritten ==
  ASSUME DbOK(db), NEW g \in GoalIds, NEW f \in [GoalIds -> OrNothing(GoalRow)],
         \A x \in GoalIds \ {g} : f[x] = db.goals[x]
  PROVE  DbOK([db EXCEPT !.goals = f]) /\ [db EXCEPT !.goals = f].entries = db.entries
         /\ [db EXCEPT !.goals = f].goals = f
<1> DEFINE d == [db EXCEPT !.goals = f]
<1>1. d \in Db /\ d.goals = f /\ d.entries = db.entries /\ d.rates = db.rates /\ d.today = db.today
  BY DbWith DEF DbOK
<1> HIDE DEF d
<1>2. IsFiniteSet(GoalsOf(db) \cup {g})
  BY FS_AddElement DEF DbOK
<1>3. GoalsOf(d) \subseteq GoalsOf(db) \cup {g}
  BY <1>1 DEF GoalsOf
<1>4. IsFiniteSet(GoalsOf(d))
  BY <1>2, <1>3, FS_Subset
<1>5. DbOK(d)
  BY <1>1, <1>4 DEF DbOK, StoredEntries
<1> QED BY <1>1, <1>5 DEF d

LEMMA EntriesWritten ==
  ASSUME DbOK(db), NEW f \in [EntryIds -> OrNothing(EntryRow)], NEW E, IsFiniteSet(E),
         \A x \in EntryIds : f[x] # Nothing => x \in E \/ db.entries[x] # Nothing
  PROVE  DbOK([db EXCEPT !.entries = f]) /\ [db EXCEPT !.entries = f].goals = db.goals
         /\ [db EXCEPT !.entries = f].entries = f
<1> DEFINE d == [db EXCEPT !.entries = f]
<1>1. d \in Db /\ d.entries = f /\ d.goals = db.goals /\ d.rates = db.rates /\ d.today = db.today
  BY DbWith DEF DbOK
<1>2. IsFiniteSet(StoredEntries(db) \cup E)
  BY FS_Union DEF DbOK
<1> HIDE DEF d
<1>3. StoredEntries(d) \subseteq StoredEntries(db) \cup E
  BY <1>1 DEF StoredEntries
<1>4. IsFiniteSet(StoredEntries(d))
  BY <1>2, <1>3, FS_Subset
<1>5. DbOK(d)
  BY <1>1, <1>4 DEF DbOK, GoalsOf
<1> QED BY <1>1, <1>5 DEF d

LEMMA EditedOK ==
  ASSUME DbOK(db), NEW g \in GoalIds, NEW edit \in GoalEdits, db.goals[g] # Nothing
  PROVE  DbOK(Edited(g, edit)) /\ Edited(g, edit).entries = db.entries
<1> DEFINE new == [db.goals[g] EXCEPT !.target = edit.target, !.deadline = edit.deadline]
           f == [db.goals EXCEPT ![g] = new]
<1>0. db.goals \in [GoalIds -> OrNothing(GoalRow)]
  BY DbFields DEF DbOK
<1>1. db.goals[g] \in GoalRow
  BY <1>0 DEF OrNothing
<1>2. edit.target \in Targets /\ edit.deadline \in OrNothing(Nat)
  BY ReadsAssumption
<1>3. new \in GoalRow
  BY <1>1, <1>2 DEF GoalRow
<1>4. Edited(g, edit) = [db EXCEPT !.goals = f]
  BY DEF Edited
<1> HIDE DEF new
<1>5. f \in [GoalIds -> OrNothing(GoalRow)] /\ \A x \in GoalIds \ {g} : f[x] = db.goals[x]
  BY <1>0, <1>3 DEF OrNothing
<1> HIDE DEF f
<1> QED BY <1>4, <1>5, GoalsWritten

LEMMA WritesOK ==
  ASSUME DbOK(db), Writes
  PROVE  \E d, E : Write(d, E) /\ DbOK(d) /\ Related(db, d) /\ Spares(db, d, E)
<1> DEFINE Goal == \E d, E : Write(d, E) /\ DbOK(d) /\ Related(db, d) /\ Spares(db, d, E)
<1>0. /\ db \in Db
      /\ db.goals \in [GoalIds -> OrNothing(GoalRow)] /\ db.entries \in [EntryIds -> OrNothing(EntryRow)]
      /\ db.rates \in [Days -> OrNothing(Range(Quote))] /\ db.today \in Days
  BY DbFields DEF DbOK
<1> SUFFICES Goal
  OBVIOUS
<1> HIDE DEF Goal
<1>1. ASSUME NEW d, NEW E, Write(d, E), DbOK(d), Related(db, d), Spares(db, d, E) PROVE Goal
  BY <1>1 DEF Goal
<1>2. ASSUME NEW g \in GoalIds, NEW row \in GoalRows, CreateGoal(g, row) PROVE Goal
  <2> DEFINE f == [db.goals EXCEPT ![g] = row]
             d == [db EXCEPT !.goals = f]
  <2>1. row \in GoalRow
    BY ReadsAssumption DEF GoalRow
  <2>2. f \in [GoalIds -> OrNothing(GoalRow)] /\ \A x \in GoalIds \ {g} : f[x] = db.goals[x]
    BY <1>0, <2>1 DEF OrNothing
  <2>3. Write(d, {}) /\ db.goals[g] = Nothing
    BY <1>2 DEF CreateGoal
  <2> HIDE DEF f
  <2>4. DbOK(d) /\ d.goals = f /\ d.entries = db.entries
    BY <2>2, GoalsWritten
  <2> HIDE DEF d
  <2>5. Related(db, d)
    BY <2>2, <2>3, <2>4 DEF Related
  <2>6. Spares(db, d, {})
    BY <2>4 DEF Spares
  <2> QED BY <1>1, <2>3, <2>4, <2>5, <2>6
<1>3. ASSUME NEW g \in GoalIds, NEW edit \in GoalEdits, EditGoal(g, edit) PROVE Goal
  <2>1. Write(Edited(g, edit), {}) /\ db.goals[g] # Nothing
    BY <1>3 DEF EditGoal
  <2>2. DbOK(Edited(g, edit)) /\ Edited(g, edit).entries = db.entries
    BY <2>1, EditedOK
  <2>3. Related(db, Edited(g, edit)) /\ Spares(db, Edited(g, edit), {})
    BY <2>2 DEF Related, Spares
  <2> QED BY <1>1, <2>1, <2>2, <2>3
<1>4. ASSUME NEW g \in GoalIds, RemoveGoal(g) PROVE Goal
  <2> DEFINE f == [db.goals EXCEPT ![g] = Nothing]
             h == [e \in EntryIds |-> IF e \in EntriesOf(db, g) THEN Nothing ELSE db.entries[e]]
             c == [db EXCEPT !.goals = f]
             d == [c EXCEPT !.entries = h]
  <2>1. f \in [GoalIds -> OrNothing(GoalRow)] /\ f[g] = Nothing /\ \A x \in GoalIds \ {g} : f[x] = db.goals[x]
    BY <1>0 DEF OrNothing
  <2>2. /\ h \in [EntryIds -> OrNothing(EntryRow)] /\ \A x \in EntryIds : h[x] # Nothing => db.entries[x] # Nothing
        /\ \A x \in EntryIds \ EntriesOf(db, g) : h[x] = db.entries[x]
    BY <1>0 DEF OrNothing
  <2>3. Write([db EXCEPT !.goals = f, !.entries = h], EntriesOf(db, g))
    BY <1>4 DEF RemoveGoal
  <2> HIDE DEF f, h
  <2>4. [db EXCEPT !.goals = f, !.entries = h] = d
    BY <1>0 DEF Db
  <2>5. c \in Db /\ c.goals = f /\ c.rates = db.rates /\ c.today = db.today
    BY <1>0, <2>1, DbWith
  <2> HIDE DEF c
  <2>6. d \in Db /\ d.goals = f /\ d.entries = h /\ d.rates = db.rates /\ d.today = db.today
    BY <2>2, <2>5, DbWith
  <2> HIDE DEF d
  <2>7. StoredEntries(d) \subseteq StoredEntries(db)
    BY <2>2, <2>6 DEF StoredEntries
  <2>8. GoalsOf(d) \subseteq GoalsOf(db)
    BY <2>1, <2>6 DEF GoalsOf
  <2>9. IsFiniteSet(StoredEntries(d)) /\ IsFiniteSet(GoalsOf(d))
    BY <2>7, <2>8, FS_Subset DEF DbOK
  <2>10. DbOK(d)
    BY <2>6, <2>9 DEF DbOK
  <2>11. Related(db, d)
    BY <2>1, <2>6 DEF Related
  <2>12. EntriesOf(db, g) \subseteq EntryIds
    BY DEF EntriesOf
  <2>13. Spares(db, d, EntriesOf(db, g))
    BY <2>2, <2>6, <2>12 DEF Spares
  <2> QED BY <1>1, <2>3, <2>4, <2>10, <2>11, <2>13
<1>5. ASSUME NEW e \in EntryIds, NEW f \in [EntryIds -> OrNothing(EntryRow)],
             \A x \in EntryIds \ {e} : f[x] = db.entries[x], Write([db EXCEPT !.entries = f], {e})
      PROVE  Goal
  <2>1. IsFiniteSet({e}) /\ \A x \in EntryIds : f[x] # Nothing => x \in {e} \/ db.entries[x] # Nothing
    BY <1>5, FS_Singleton
  <2>2. DbOK([db EXCEPT !.entries = f]) /\ [db EXCEPT !.entries = f].goals = db.goals
        /\ [db EXCEPT !.entries = f].entries = f
    BY <2>1, EntriesWritten
  <2>3. Related(db, [db EXCEPT !.entries = f])
    BY <2>2 DEF Related
  <2>4. Spares(db, [db EXCEPT !.entries = f], {e})
    BY <1>5, <2>2 DEF Spares
  <2> QED BY <1>1, <1>5, <2>2, <2>3, <2>4
<1>6. ASSUME NEW e \in EntryIds, NEW row \in EntryRow, CreateEntry(e, row) PROVE Goal
  <2> DEFINE f == [db.entries EXCEPT ![e] = row]
  <2>1. f \in [EntryIds -> OrNothing(EntryRow)] /\ \A x \in EntryIds \ {e} : f[x] = db.entries[x]
    BY <1>0 DEF OrNothing
  <2>2. Write([db EXCEPT !.entries = f], {e})
    BY <1>6 DEF CreateEntry
  <2> HIDE DEF f
  <2> QED BY <1>5, <2>1, <2>2
<1>7. ASSUME NEW e \in EntryIds, NEW amount \in Amounts, NEW date \in EntryDates, UpdateEntry(e, amount, date)
      PROVE  Goal
  <2> DEFINE new == [db.entries[e] EXCEPT !.amount = amount, !.date = date]
             f == [db.entries EXCEPT ![e] = new]
  <2>1. db.entries[e] \in EntryRow
    BY <1>0, <1>7 DEF UpdateEntry, OrNothing
  <2>2. new \in EntryRow
    BY <2>1 DEF EntryRow
  <2>3. Write([db EXCEPT !.entries = f], {e})
    BY <1>7 DEF UpdateEntry
  <2> HIDE DEF new
  <2>4. f \in [EntryIds -> OrNothing(EntryRow)] /\ \A x \in EntryIds \ {e} : f[x] = db.entries[x]
    BY <1>0, <2>2 DEF OrNothing
  <2> HIDE DEF f
  <2> QED BY <1>5, <2>3, <2>4
<1>8. ASSUME NEW e \in EntryIds, RemoveEntry(e) PROVE Goal
  <2> DEFINE f == [db.entries EXCEPT ![e] = Nothing]
  <2>1. f \in [EntryIds -> OrNothing(EntryRow)] /\ \A x \in EntryIds \ {e} : f[x] = db.entries[x]
    BY <1>0 DEF OrNothing
  <2>2. Write([db EXCEPT !.entries = f], {e})
    BY <1>8 DEF RemoveEntry
  <2> HIDE DEF f
  <2> QED BY <1>5, <2>1, <2>2
<1>9. ASSUME NEW s \in Settings, UpsertSettings(s) PROVE Goal
  <2> DEFINE d == [db EXCEPT !.settings = s]
  <2>1. s \in OrNothing(Stored) /\ Write(d, {})
    BY <1>9 DEF UpsertSettings, OrNothing, Stored
  <2>2. d \in Db /\ d.goals = db.goals /\ d.entries = db.entries /\ d.rates = db.rates /\ d.today = db.today
    BY <1>0, <2>1, DbWith
  <2> HIDE DEF d
  <2>3. DbOK(d) /\ Related(db, d) /\ Spares(db, d, {})
    BY <2>2 DEF DbOK, StoredEntries, GoalsOf, Related, Spares
  <2> QED BY <1>1, <2>1, <2>3
<1>10. CASE StoreSnapshot
  <2> DEFINE f == [db.rates EXCEPT ![db.today] = Quote[db.today]]
             d == [db EXCEPT !.rates = f]
  <2>1. Quote[db.today] \in Range(Quote)
    BY <1>0, ReadsAssumption DEF Range, Days
  <2>2. f \in [Days -> OrNothing(Range(Quote))] /\ \A x \in Days \ {db.today} : f[x] = db.rates[x]
    BY <1>0, <2>1 DEF OrNothing
  <2>3. Write(d, {})
    BY <1>10 DEF StoreSnapshot
  <2> HIDE DEF f
  <2>4. d \in Db /\ d.goals = db.goals /\ d.entries = db.entries /\ d.rates = f /\ d.today = db.today
    BY <1>0, <2>2, DbWith
  <2> HIDE DEF d
  <2>5. \A x \in Days : d.rates[x] # Nothing => x <= d.today
    BY <1>0, <2>2, <2>4, ReadsAssumption DEF DbOK, Days
  <2>6. DbOK(d) /\ Related(db, d) /\ Spares(db, d, {})
    BY <2>4, <2>5 DEF DbOK, StoredEntries, GoalsOf, Related, Spares
  <2> QED BY <1>1, <2>3, <2>6
<1>11. CASE NextDay
  <2> DEFINE d == [db EXCEPT !.today = db.today + 1]
  <2>1. Write(d, {}) /\ db.today + 1 \in Days
    BY <1>0, <1>11, ReadsAssumption DEF NextDay, Days
  <2>2. d \in Db /\ d.goals = db.goals /\ d.entries = db.entries /\ d.rates = db.rates /\ d.today = db.today + 1
    BY <1>0, <2>1, DbWith
  <2> HIDE DEF d
  <2>3. \A x \in Days : d.rates[x] # Nothing => x <= d.today
    BY <1>0, <2>2, ReadsAssumption DEF DbOK, Days
  <2>4. DbOK(d) /\ Related(db, d) /\ Spares(db, d, {})
    BY <2>2, <2>3 DEF DbOK, StoredEntries, GoalsOf, Related, Spares
  <2> QED BY <1>1, <2>1, <2>4
<1> QED BY <1>2, <1>3, <1>4, <1>6, <1>7, <1>8, <1>9, <1>10, <1>11 DEF Writes

(***************************************************************************)
(* The rate and its day                                                    *)
(***************************************************************************)
LEMMA DayOfRates ==
  ASSUME NEW c, NEW d, c.rates = d.rates
  PROVE  LatestDay(c) = LatestDay(d)
<1> DEFINE days(r) == {x \in Days : r[x] # Nothing}
           day(r)  == IF days(r) = {} THEN Nothing
                      ELSE CHOOSE x \in days(r) : \A y \in days(r) : y <= x
<1>1. LatestDay(c) = day(c.rates) /\ LatestDay(d) = day(d.rates)
  BY DEF LatestDay
<1> HIDE DEF day
<1> QED BY <1>1

LEMMA RateOfDay ==
  ASSUME NEW d, LatestRate(d) # Nothing
  PROVE  LatestRate(d) = d.rates[LatestDay(d)]
BY DEF LatestRate

(* No rate is stored ahead: all that a window of n days may hold are the   *)
(* n + 1 days from the one n days back until today.                        *)
LEMMA WindowBounded ==
  ASSUME DbOK(db), NEW n \in Nat
  PROVE  /\ Window(n) \subseteq (db.today - n) .. db.today
         /\ IsFiniteSet((db.today - n) .. db.today) /\ Cardinality((db.today - n) .. db.today) = n + 1
<1>1. db.today \in Nat /\ \A x \in Days : x \in Nat /\ (db.rates[x] # Nothing => x <= db.today)
  BY DbFields, ReadsAssumption DEF DbOK, Days
<1>2. ASSUME NEW x \in Window(n) PROVE x \in (db.today - n) .. db.today
  <2>1. x \in Days /\ x >= db.today - n /\ db.rates[x] # Nothing
    BY DEF Window
  <2> QED BY <1>1, <2>1
<1>3. db.today - n \in Int /\ db.today \in Int
  BY <1>1
<1> DEFINE I == (db.today - n) .. db.today
<1>4. IsFiniteSet(I) /\ Cardinality(I) = IF db.today - n > db.today THEN 0
                                          ELSE db.today - (db.today - n) + 1
  BY <1>3, FS_Interval
<1> HIDE DEF I
<1>5. IsFiniteSet(I) /\ Cardinality(I) = n + 1
  BY <1>1, <1>4
<1> QED BY <1>2, <1>5 DEF I

(* A set that lacks at most one element of another                         *)
LacksOne(S, I) == \E gap \in I : I \ {gap} \subseteq S

LEMMA OneMissing ==
  ASSUME NEW I, IsFiniteSet(I), NEW S \in SUBSET I, NEW n \in Nat, Cardinality(I) = n + 1,
         Cardinality(S) >= n
  PROVE  LacksOne(S, I)
<1>1. I # {} /\ IsFiniteSet(S) /\ Cardinality(S) \in Nat /\ Cardinality({}) = 0
  <2>1. IsFiniteSet(S)
    BY FS_Subset
  <2> QED BY <2>1, FS_CardinalityType, FS_EmptySet
<1>2. CASE I \ S = {}
  <2>1. PICK gap \in I : TRUE
    BY <1>1
  <2> QED BY <1>2, <2>1 DEF LacksOne
<1>3. CASE I \ S # {}
  <2>1. PICK gap \in I : gap \notin S
    BY <1>3
  <2> DEFINE R == I \ {gap}
  <2>2. IsFiniteSet(R) /\ Cardinality(R) = n
    BY FS_RemoveElement
  <2>3. S \subseteq R
    BY <2>1
  <2> HIDE DEF R
  <2>4. Cardinality(S) <= Cardinality(R)
    BY <2>2, <2>3, FS_Subset
  <2>5. Cardinality(S) = Cardinality(R)
    BY <1>1, <2>2, <2>4
  <2>6. S = R
    BY <2>2, <2>3, <2>5, FS_Subset
  <2> QED BY <2>1, <2>6 DEF R, LacksOne
<1> QED BY <1>2, <1>3

LEMMA FullWindow ==
  ASSUME DbOK(db), NEW n \in Nat, Covered(Window(n), n)
  PROVE  \E gap \in 0 .. n : \A k \in (0 .. n) \ {gap} : db.today - k \in Window(n)
<1> DEFINE I == (db.today - n) .. db.today
<1>1. Window(n) \in SUBSET I /\ IsFiniteSet(I) /\ Cardinality(I) = n + 1
  BY WindowBounded
<1>2. db.today \in Nat
  BY DbFields, ReadsAssumption DEF DbOK, Days
<1>3. \A x \in I : x \in Int /\ db.today - x \in 0 .. n
  BY <1>2
<1>4. \A k \in 0 .. n : db.today - k \in I /\ db.today - (db.today - k) = k
  BY <1>2
<1>5. Cardinality(Window(n)) >= n
  BY DEF Covered
<1> HIDE DEF I
<1>6. LacksOne(Window(n), I)
  BY <1>1, <1>5, OneMissing
<1>7. PICK x \in I : I \ {x} \subseteq Window(n)
  BY <1>6 DEF LacksOne
<1>8. ASSUME NEW k \in (0 .. n) \ {db.today - x} PROVE db.today - k \in Window(n)
  <2>1. db.today - k # x
    BY <1>4
  <2> QED BY <1>4, <1>7, <2>1
<1> QED BY <1>3, <1>8

(***************************************************************************)
(* The request                                                             *)
(***************************************************************************)
Fields == {"pc", "kind", "first", "versions", "overlaps", "touched", "answer"}

(* Every version that the queries of a request may see is a state the      *)
(* database has been in, and one is the state it is in now.                *)
BatchOK ==
    req.pc = "batch" =>
        /\ req.kind \in WithGoals
        /\ db \in req.versions
        /\ \A d \in req.versions : DbOK(d)
        /\ req.kind = "goal" => req.first.id \in GoalIds /\ req.first.row \in GoalRow
        /\ req.kind = "available" => req.first \in Stored

ReqOK ==
    /\ req.pc \in {"idle", "goal", "batch", "page", "done"}
    /\ InFlight => DOMAIN req = Fields
    /\ req.pc = "page" => req.kind = "page"
    /\ req.pc = "goal" => req.first \in GoalIds

ReadsInv == DbOK(db) /\ ReqOK /\ BatchOK /\ FiguresAgree /\ BudgetAddsUp /\ RatesAreDated

(* Without an answer, or with one of another kind, nothing is claimed.     *)
LEMMA NoFigures ==
  ASSUME req'.pc # "done" \/ req'.kind \notin WithGoals \/ req'.answer.status # 200
  PROVE  FiguresAgree' /\ BudgetAddsUp' /\ FiguresWereTrue'
<1>1. {"available"} \subseteq WithGoals
  BY DEF WithGoals
<1> QED BY <1>1 DEF FiguresAgree, BudgetAddsUp, FiguresWereTrue, Answered

LEMMA NoRates ==
  ASSUME req'.pc # "done" \/ req'.kind \notin WithGoals \cup {"current", "convert", "history"}
           \/ req'.answer.status # 200
  PROVE  RatesAreDated'
BY DEF RatesAreDated, Answered

LEMMA BatchFields ==
  ASSUME NEW kind, NEW first
  PROVE  LET b == Batch(kind, first) IN
         /\ DOMAIN b = Fields /\ b.pc = "batch" /\ b.kind = kind /\ b.first = first
         /\ b.versions = {db} /\ b.overlaps = 0
BY DEF Batch, Fields

LEMMA ReplyFields ==
  ASSUME NEW kind, NEW answer
  PROVE  LET b == Reply(kind, answer) IN
         b.pc = "done" /\ b.kind = kind /\ b.answer = answer /\ b.versions = {db}
BY DEF Reply

(* A write of another request, with this one in progress or not            *)
LEMMA RequestMet ==
  ASSUME ReqOK, req.pc # "done", NEW d, NEW E, Write(d, E)
  PROVE  /\ db' = d
         /\ ReqOK' /\ req'.pc = req.pc
         /\ req.pc = "batch" =>
              /\ req'.kind = req.kind /\ req'.first = req.first
              /\ req'.versions = req.versions \cup {d}
              /\ req.overlaps < MaxOverlap /\ req'.overlaps = req.overlaps + 1
         /\ req.pc = "page" =>
              /\ req'.kind = req.kind /\ req'.first = req.first /\ req'.answer = req.answer
              /\ req'.touched = req.touched \cup E
<1>1. db' = d
  BY DEF Write
<1>2. CASE InFlight
  <2>1. DOMAIN req = Fields /\ req.overlaps < MaxOverlap
        /\ req' = [req EXCEPT !.overlaps = req.overlaps + 1, !.versions = req.versions \cup {d},
                              !.touched = req.touched \cup E]
    BY <1>2 DEF Write, ReqOK
  <2>2. DOMAIN req' = Fields /\ req'.pc = req.pc /\ req'.kind = req.kind /\ req'.first = req.first
        /\ req'.versions = req.versions \cup {d} /\ req'.overlaps = req.overlaps + 1
        /\ req'.answer = req.answer /\ req'.touched = req.touched \cup E
    BY <2>1 DEF Fields
  <2>3. ReqOK'
    BY <2>2 DEF ReqOK
  <2> QED BY <1>1, <2>1, <2>2, <2>3
<1>3. CASE ~InFlight
  <2>1. req' = req /\ req.pc # "batch" /\ req.pc # "page"
    BY <1>3 DEF Write, InFlight
  <2>2. ReqOK'
    BY <2>1 DEF ReqOK, InFlight
  <2> QED BY <1>1, <2>1, <2>2
<1> QED BY <1>2, <1>3

(***************************************************************************)
(* The answer                                                              *)
(***************************************************************************)
SeenBy(v) == v \in [Queries(req.kind) -> req.versions]

LEMMA Seen ==
  ASSUME NEW v, SeenBy(v)
  PROVE  v.goals \in req.versions /\ v.sums \in req.versions /\ v.rate \in req.versions
         /\ v.asOf \in req.versions
<1>1. {"goals", "sums", "rate", "asOf"} \subseteq Queries(req.kind)
  BY DEF Queries
<1> QED BY <1>1 DEF SeenBy

(* The progress in an answer: of the goal that was asked for, or of all    *)
ProgressSeen(v) ==
    IF req.kind = "goal"
    THEN [g \in {req.first.id} |-> Progress(req.first.row, Saved(v.sums, g), db.today, LatestRate(v.rate))]
    ELSE ProgressIn(v, GoalsOf(v.goals))

LEMMA AnswerFields ==
  ASSUME NEW v, req.kind \in WithGoals
  PROVE  /\ Answers(v).progress = ProgressSeen(v)
         /\ Answers(v).rate # Nothing =>
               Answers(v).rate = LatestRate(v.rate) /\ Answers(v).asOf = LatestDay(v.asOf)
         /\ req.kind = "available" =>
               /\ Answers(v).more = Available(req.first, ProgressSeen(v), LatestRate(v.rate))
               /\ Answers(v).more.rateUnavailable => Answers(v).asOf = Nothing
<1> DEFINE progress == ProgressIn(v, GoalsOf(v.goals))
           day      == LatestDay(v.asOf)
           rate     == LatestRate(v.rate)
           list     == [status |-> 200, progress |-> progress, rate |-> rate, asOf |-> day, more |-> Nothing]
           more     == [totals |-> Totals(progress),
                        recent |-> FirstN(Newest(v.recent, {e \in EntryIds : v.recent.entries[e] # Nothing}),
                                          RecentLimit)]
           asked    == [g \in {req.first.id} |->
                          Progress(req.first.row, Saved(v.sums, g), db.today, LatestRate(v.rate))]
           block    == Available(req.first, progress, rate)
<1>1. CASE req.kind = "dashboard"
  <2>1. Answers(v) = [list EXCEPT !.more = more]
    BY <1>1 DEF Answers
  <2>2. ProgressSeen(v) = progress
    BY <1>1 DEF ProgressSeen
  <2> HIDE DEF progress, day, rate, more
  <2>3. Answers(v).progress = progress /\ Answers(v).rate = rate /\ Answers(v).asOf = day
    BY <2>1
  <2> QED BY <1>1, <2>2, <2>3 DEF day, rate
<1>2. CASE req.kind = "goal"
  <2>1. Answers(v) = [list EXCEPT !.progress = asked]
    BY <1>2 DEF Answers
  <2>2. ProgressSeen(v) = asked
    BY <1>2 DEF ProgressSeen
  <2> HIDE DEF progress, day, rate, asked
  <2>3. Answers(v).progress = asked /\ Answers(v).rate = rate /\ Answers(v).asOf = day
    BY <2>1
  <2> QED BY <1>2, <2>2, <2>3 DEF day, rate
<1>3. CASE req.kind = "available"
  <2> DEFINE asOf == IF block.rateUnavailable THEN Nothing ELSE day
  <2>1. Answers(v) = [list EXCEPT !.rate = block.rateUsed, !.more = block, !.asOf = asOf]
    BY <1>3 DEF Answers
  <2>2. ProgressSeen(v) = progress
    BY <1>3 DEF ProgressSeen
  <2> HIDE DEF progress, day
  <2>3. \E noRate \in BOOLEAN : /\ block.rateUnavailable = noRate
                                /\ block.rateUsed = IF noRate THEN Nothing ELSE rate
    <3> DEFINE counted == Counted(progress)
               noRate  == rate = Nothing /\ \E g \in counted : progress[g].currency # req.first.currency
               lines   == [g \in IF noRate THEN {} ELSE counted |->
                             [need |-> Need(progress[g], req.first.currency, rate),
                              deadline |-> progress[g].deadline]]
               left    == Pool(req.first) - Total(lines)
               Unless(x) == IF noRate THEN Nothing ELSE x
               excluded == [g \in DOMAIN progress \ counted |-> Reason(progress[g])]
               shared  == IF noRate \/ left >= 0 THEN Nothing ELSE Allocate(Pool(req.first), lines)
    <3>1. block = [configured |-> TRUE, rateUnavailable |-> noRate, rateUsed |-> Unless(rate),
                   totalNeed |-> Unless(Total(lines)), available |-> Unless(left),
                   shortfall |-> Unless(AtLeast0(-left)), counted |-> lines,
                   excluded |-> excluded, allocation |-> shared]
      BY DEF Available
    <3>2. noRate \in BOOLEAN
      OBVIOUS
    <3> HIDE DEF block, counted, noRate, lines, left, excluded, shared
    <3>3. block.rateUnavailable = noRate /\ block.rateUsed = Unless(rate)
      BY <3>1
    <3> QED BY <3>2, <3>3
  <2> HIDE DEF block, rate, asOf
  <2>4. /\ Answers(v).progress = progress /\ Answers(v).rate = block.rateUsed /\ Answers(v).asOf = asOf
        /\ Answers(v).more = block
    BY <2>1
  <2>5. block = Available(req.first, ProgressSeen(v), LatestRate(v.rate))
    BY <2>2 DEF block, rate
  <2> QED BY <2>2, <2>3, <2>4, <2>5 DEF day, rate, asOf
<1> QED BY <1>1, <1>2, <1>3 DEF WithGoals

(* Every figure of an answer is the progress of a goal as some version had *)
(* it, with the sum of its entries in some version.                        *)
LEMMA FigureSeen ==
  ASSUME DbOK(db), BatchOK, req.pc = "batch", NEW v, SeenBy(v), NEW g \in DOMAIN ProgressSeen(v)
  PROVE  \E row \in GoalRow :
            /\ ProgressSeen(v)[g] = Progress(row, Saved(v.sums, g), db.today, LatestRate(v.rate))
            /\ row = IF req.kind = "goal" THEN req.first.row ELSE v.goals.goals[g]
            /\ g \in GoalIds /\ (req.kind = "goal" => g = req.first.id)
<1>1. CASE req.kind = "goal"
  <2>1. ProgressSeen(v)[g] = Progress(req.first.row, Saved(v.sums, g), db.today, LatestRate(v.rate))
        /\ g = req.first.id
    BY <1>1 DEF ProgressSeen
  <2>2. req.first.row \in GoalRow /\ req.first.id \in GoalIds
    BY <1>1 DEF BatchOK
  <2> QED BY <1>1, <2>1, <2>2
<1>2. CASE req.kind # "goal"
  <2>1. ProgressSeen(v) = ProgressIn(v, GoalsOf(v.goals))
    BY <1>2 DEF ProgressSeen
  <2>2. DOMAIN ProgressIn(v, GoalsOf(v.goals)) = GoalsOf(v.goals)
    BY DEF ProgressIn
  <2>3. g \in GoalIds /\ v.goals.goals[g] # Nothing
    BY <2>1, <2>2 DEF GoalsOf
  <2>4. g \in GoalsOf(v.goals)
    BY <2>1, <2>2
  <2>5. ProgressSeen(v)[g] = Progress(v.goals.goals[g], Saved(v.sums, g), db.today, LatestRate(v.rate))
    BY <2>1, <2>4 DEF ProgressIn
  <2>6. v.goals \in Db
    BY Seen DEF BatchOK, DbOK
  <2>7. v.goals.goals[g] \in GoalRow
    BY <2>3, <2>6, DbFields DEF OrNothing
  <2> QED BY <1>2, <2>3, <2>5, <2>7
<1> QED BY <1>1, <1>2

LEMMA SavedOfDb == ASSUME NEW d, DbOK(d), NEW g PROVE Saved(d, g) \in Nat
<1>1. EntriesOf(d, g) \subseteq StoredEntries(d)
  BY DEF EntriesOf, StoredEntries
<1>2. IsFiniteSet(EntriesOf(d, g))
  BY <1>1, FS_Subset DEF DbOK
<1>3. ASSUME NEW e \in EntriesOf(d, g) PROVE d.entries[e].amount \in Nat
  <2>1. e \in EntryIds /\ d.entries[e] # Nothing /\ d \in Db
    BY DEF EntriesOf, DbOK
  <2>2. d.entries[e] \in EntryRow
    BY <2>1, DbFields DEF OrNothing
  <2> QED BY <2>2, ReadsAssumption DEF EntryRow
<1> QED BY <1>2, <1>3, SavedInNat

(* A rate is positive.                                                     *)
LEMMA RateInNat == ASSUME NEW d, DbOK(d) PROVE LatestRate(d) \in OrNothing(Nat \ {0})
<1> DEFINE stored == {x \in Days : d.rates[x] # Nothing}
<1>1. CASE stored = {}
  <2>1. LatestDay(d) = Nothing
    BY <1>1 DEF LatestDay
  <2> QED BY <2>1 DEF LatestRate, OrNothing
<1>2. CASE stored # {}
  <2>1. IsFiniteSet(Days) /\ Days \subseteq Int
    BY ReadsAssumption, FS_Interval DEF Days
  <2>2. stored \subseteq Int /\ stored \subseteq Days
    BY <2>1
  <2>3. LatestDay(d) = CHOOSE x \in stored : \A y \in stored : y <= x
    BY <1>2 DEF LatestDay
  <2> HIDE DEF stored
  <2>4. IsFiniteSet(stored)
    BY <2>1, <2>2, FS_Subset
  <2>5. \E x \in stored : \A y \in stored : y <= x
    <3>1. Max(stored) \in stored /\ \A y \in stored : Max(stored) >= y
      BY <1>2, <2>2, <2>4, Extremes
    <3>2. \A y \in stored : y <= Max(stored)
      BY <2>2, <3>1
    <3> QED BY <3>1, <3>2
  <2>6. LatestDay(d) \in stored
    BY <2>3, <2>5
  <2>7. LatestDay(d) \in Days /\ d.rates[LatestDay(d)] # Nothing
    BY <2>6 DEF stored
  <2>8. d.rates[LatestDay(d)] \in Range(Quote)
    BY <2>7, DbFields DEF DbOK, OrNothing
  <2>9. Range(Quote) \subseteq Nat \ {0}
    BY ReadsAssumption DEF Range
  <2>10. LatestDay(d) # Nothing
    BY <2>7, ReadsAssumption DEF Days
  <2> QED BY <2>8, <2>9, <2>10 DEF LatestRate, OrNothing
<1> QED BY <1>1, <1>2

LEMMA AnswerStep ==
  ASSUME ReqOK, Answer
  PROVE  \E v : /\ SeenBy(v)
                /\ req.pc = "batch" /\ req'.pc = "done" /\ req'.kind = req.kind /\ req'.first = req.first
                /\ req'.versions = req.versions /\ req'.answer = Answers(v)
                /\ UNCHANGED db
<1>1. DOMAIN req = Fields /\ req.pc = "batch" /\ UNCHANGED db
  BY DEF Answer, ReqOK, InFlight
<1>2. PICK v : SeenBy(v) /\ req' = [req EXCEPT !.pc = "done", !.answer = Answers(v)]
  BY DEF Answer, SeenBy
<1>3. /\ req'.pc = "done" /\ req'.kind = req.kind /\ req'.first = req.first
      /\ req'.versions = req.versions /\ req'.answer = Answers(v)
  BY <1>1, <1>2 DEF Fields
<1> QED BY <1>1, <1>2, <1>3

(* The block of an answer adds up, whatever its queries saw.               *)
LEMMA BudgetOfAnswer ==
  ASSUME DbOK(db), BatchOK, req.pc = "batch", req.kind = "available", NEW v, SeenBy(v)
  PROVE  AddsUp(req.first, ProgressSeen(v), Available(req.first, ProgressSeen(v), LatestRate(v.rate)))
<1> DEFINE progress == ProgressSeen(v)
<1>1. req.first \in Stored /\ DbOK(v.goals) /\ DbOK(v.sums) /\ DbOK(v.rate)
  BY Seen DEF BatchOK
<1>2. DOMAIN progress = GoalsOf(v.goals)
  BY DEF ProgressSeen, ProgressIn
<1>3. IsFiniteSet(DOMAIN progress) /\ DOMAIN progress \subseteq Nat
  BY <1>1, <1>2, ReadsAssumption DEF DbOK, GoalsOf
<1>4. ASSUME NEW g \in DOMAIN progress PROVE Reasoned(progress[g])
  <2>1. PICK row \in GoalRow :
           progress[g] = Progress(row, Saved(v.sums, g), db.today, LatestRate(v.rate))
    BY FigureSeen
  <2>2. Saved(v.sums, g) \in Int /\ db.today \in Nat
    <3>1. Saved(v.sums, g) \in Nat
      BY <1>1, SavedOfDb
    <3>2. db.today \in Nat
      BY DbFields, ReadsAssumption DEF DbOK, Days
    <3> QED BY <3>1, <3>2
  <2> HIDE DEF progress
  <2> QED BY <2>1, <2>2, ReasonOfGoal DEF Reasoned
<1>5. LatestRate(v.rate) \in OrNothing(Nat \ {0})
  BY <1>1, RateInNat
<1> HIDE DEF progress
<1>6. AddsUp(req.first, progress, Available(req.first, progress, LatestRate(v.rate)))
  BY <1>1, <1>3, <1>4, <1>5, BlockAddsUp
<1> QED BY <1>6 DEF progress

LEMMA AnswerAgrees ==
  ASSUME ReadsInv, Answer
  PROVE  FiguresAgree' /\ BudgetAddsUp' /\ RatesAreDated'
<1>1. PICK v : /\ SeenBy(v)
               /\ req.pc = "batch" /\ req'.pc = "done" /\ req'.kind = req.kind /\ req'.first = req.first
               /\ req'.versions = req.versions /\ req'.answer = Answers(v)
               /\ UNCHANGED db
  BY AnswerStep DEF ReadsInv
<1>2. DbOK(db) /\ BatchOK /\ req.kind \in WithGoals
  BY <1>1 DEF ReadsInv, BatchOK
<1>3. /\ req'.answer.progress = ProgressSeen(v)
      /\ req'.answer.rate # Nothing =>
            req'.answer.rate = LatestRate(v.rate) /\ req'.answer.asOf = LatestDay(v.asOf)
  BY <1>1, <1>2, AnswerFields
<1>4. ASSUME NEW g \in DOMAIN ProgressSeen(v) PROVE ProgressAgrees(ProgressSeen(v)[g])
  <2>1. PICK row \in GoalRow :
           ProgressSeen(v)[g] = Progress(row, Saved(v.sums, g), db.today, LatestRate(v.rate))
    BY <1>1, <1>2, FigureSeen
  <2>2. Saved(v.sums, g) \in Nat /\ db.today \in Nat
    <3>1. DbOK(v.sums)
      BY <1>1, <1>2, Seen DEF BatchOK
    <3>2. db.today \in Nat
      BY <1>2, DbFields, ReadsAssumption DEF DbOK, Days
    <3> QED BY <3>1, <3>2, SavedOfDb
  <2>3. Saved(v.sums, g) \in Int
    BY <2>2
  <2> QED BY <2>1, <2>2, <2>3, FiguresOfGoal
<1>5. FiguresAgree'
  BY <1>3, <1>4 DEF FiguresAgree, ProgressAgrees
<1>6. ASSUME req'.answer.rate # Nothing, \A c, d \in req'.versions : c.rates = d.rates
      PROVE  req'.answer.rate = db'.rates[req'.answer.asOf]
  <2>1. v.rate \in req.versions /\ v.asOf \in req.versions /\ db \in req.versions
    BY <1>1, <1>2, Seen DEF BatchOK
  <2>2. v.rate.rates = v.asOf.rates /\ v.rate.rates = db.rates
    BY <1>1, <1>6, <2>1
  <2>3. LatestDay(v.rate) = LatestDay(v.asOf)
    BY <2>2, DayOfRates
  <2>4. LatestRate(v.rate) = v.rate.rates[LatestDay(v.rate)]
    BY <1>3, <1>6, RateOfDay
  <2> QED BY <1>1, <1>3, <1>6, <2>2, <2>3, <2>4
<1>7. RatesAreDated'
  BY <1>1, <1>2, <1>6 DEF RatesAreDated, Answered, WithGoals
<1>8. CASE req.kind = "available"
  <2>1. /\ req'.answer.more = Available(req.first, ProgressSeen(v), LatestRate(v.rate))
        /\ req'.answer.more.rateUnavailable => req'.answer.asOf = Nothing
    BY <1>1, <1>2, <1>8, AnswerFields
  <2>2. AddsUp(req.first, ProgressSeen(v), Available(req.first, ProgressSeen(v), LatestRate(v.rate)))
    BY <1>1, <1>2, <1>8, BudgetOfAnswer
  <2>3. AddsUp(req'.first, req'.answer.progress, req'.answer.more)
    BY <1>1, <1>3, <2>1, <2>2
  <2> QED BY <1>5, <1>7, <2>1, <2>3 DEF BudgetAddsUp
<1>9. CASE req.kind # "available"
  BY <1>1, <1>5, <1>7, <1>9 DEF BudgetAddsUp, Answered
<1> QED BY <1>8, <1>9

LEMMA CurrentDated == ASSUME GetCurrent PROVE RatesAreDated'
<1>1. UNCHANGED db /\ req' = Reply("current", IF LatestDay(db) = Nothing THEN [status |-> 404]
                               ELSE [status |-> 200, rate |-> LatestRate(db), asOf |-> LatestDay(db),
                                     isStale |-> LatestDay(db) < db.today - 1])
  BY DEF GetCurrent
<1>2. CASE LatestDay(db) = Nothing
  <2>1. req'.answer.status # 200
    BY <1>1, <1>2, ReplyFields
  <2> QED BY <2>1, NoRates
<1>3. CASE LatestDay(db) # Nothing
  <2>1. req'.kind = "current" /\ req'.answer.rate = LatestRate(db) /\ req'.answer.asOf = LatestDay(db)
    BY <1>1, <1>3, ReplyFields
  <2>2. LatestRate(db) = db.rates[LatestDay(db)]
    BY <1>3 DEF LatestRate
  <2> QED BY <1>1, <2>1, <2>2 DEF RatesAreDated, Answered
<1> QED BY <1>2, <1>3

LEMMA ConvertDated ==
  ASSUME NEW x, NEW from, NEW to, ConvertAmount(x, from, to)
  PROVE  RatesAreDated' /\ req'.pc = "done" /\ req'.kind = "convert" /\ UNCHANGED db
<1> DEFINE asIs == [status |-> 200, rate |-> Nothing, asOf |-> Nothing,
                    converted |-> ConvertToUnits(x, from, to, 1)]
           refused == [status |-> 503]
           made == [status |-> 200, rate |-> LatestRate(db), asOf |-> LatestDay(db),
                    converted |-> ConvertToUnits(x, from, to, LatestRate(db))]
<1>1. /\ UNCHANGED db
      /\ req' = Reply("convert", CASE from = to -> asIs
                                   [] from # to /\ LatestDay(db) = Nothing -> refused
                                   [] OTHER -> made)
  BY DEF ConvertAmount
<1>2. asIs.rate = Nothing /\ refused.status # 200 /\ made.rate = LatestRate(db) /\ made.asOf = LatestDay(db)
  OBVIOUS
<1>3. req'.pc = "done" /\ req'.kind = "convert"
  BY <1>1, ReplyFields
<1> HIDE DEF asIs, refused, made
<1>4. \/ req'.answer = asIs
      \/ req'.answer = refused
      \/ req'.answer = made /\ LatestDay(db) # Nothing
  BY <1>1, ReplyFields
<1>5. made.rate # Nothing => LatestRate(db) = db.rates[LatestDay(db)]
  BY <1>2, RateOfDay
<1>6. RatesAreDated'
  BY <1>1, <1>2, <1>3, <1>4, <1>5 DEF RatesAreDated, Answered
<1> QED BY <1>1, <1>3, <1>6

LEMMA HistoryFull ==
  ASSUME DbOK(db), NEW n \in 1 .. LastDay, GetHistory(n)
  PROVE  RatesAreDated' /\ req'.pc = "done" /\ req'.kind = "history" /\ UNCHANGED db
<1> DEFINE Whole(today, points, m) ==
               \E gap \in 0 .. m : \A k \in (0 .. m) \ {gap} : today - k \in points
<1>1. /\ UNCHANGED db
      /\ req' = Reply("history", [status |-> 200, days |-> n, points |-> Window(n),
                                  full |-> Covered(Window(n), n)])
  BY DEF GetHistory
<1>2. /\ req'.pc = "done" /\ req'.kind = "history"
      /\ req'.answer.days = n /\ req'.answer.points = Window(n)
      /\ req'.answer.full = Covered(Window(n), n)
  BY <1>1, ReplyFields
<1>3. n \in Nat
  BY ReadsAssumption
<1>4. Covered(Window(n), n) => Whole(db.today, Window(n), n)
  BY <1>3, FullWindow
<1>5. req'.kind \notin WithGoals \cup {"current", "convert"}
  BY <1>2 DEF WithGoals
<1> HIDE DEF Whole
<1>6. req'.answer.full => Whole(db'.today, req'.answer.points, req'.answer.days)
  BY <1>1, <1>2, <1>4
<1>7. RatesAreDated'
  BY <1>5, <1>6 DEF RatesAreDated, Answered, Whole
<1> QED BY <1>1, <1>2, <1>7

LEMMA ReadsInit == Init => ReadsInv
<1> SUFFICES ASSUME Init PROVE ReadsInv
  OBVIOUS
<1>1. req.pc = "idle"
  BY DEF Init, Idle
<1>2. db \in Db
  <2>1. LastDay \in Nat
    BY ReadsAssumption
  <2>2. /\ [g \in GoalIds |-> Nothing] \in [GoalIds -> OrNothing(GoalRow)]
        /\ [e \in EntryIds |-> Nothing] \in [EntryIds -> OrNothing(EntryRow)]
        /\ Nothing \in OrNothing(Stored) /\ 0 \in Days
        /\ [d \in Days |-> Nothing] \in [Days -> OrNothing(Range(Quote))]
    BY <2>1 DEF OrNothing, Days
  <2> QED BY <2>2 DEF Init, Db
<1>3. StoredEntries(db) = {} /\ GoalsOf(db) = {} /\ \A x \in Days : db.rates[x] = Nothing
  BY DEF Init, StoredEntries, GoalsOf
<1>4. DbOK(db)
  BY <1>2, <1>3, FS_EmptySet DEF DbOK
<1>5. ReqOK /\ BatchOK /\ FiguresAgree /\ BudgetAddsUp /\ RatesAreDated
  BY <1>1 DEF ReqOK, InFlight, BatchOK, FiguresAgree, BudgetAddsUp, RatesAreDated, Answered
<1> QED BY <1>4, <1>5 DEF ReadsInv

(* A request that begins with the batch of its queries, or is answered at  *)
(* once, with what no property is about                                    *)
LEMMA Begun ==
  ASSUME DbOK(db), UNCHANGED db,
         \/ req' = Batch("dashboard", Nothing)
         \/ \E first \in Stored : req' = Batch("available", first)
         \/ \E g \in GoalIds : req' = FindOne("goal", g)
         \/ req' = Reply("unconfigured", [status |-> 200])
  PROVE  ReqOK' /\ BatchOK' /\ FiguresAgree' /\ BudgetAddsUp' /\ RatesAreDated' /\ FiguresWereTrue'
<1>1. ASSUME NEW kind \in WithGoals, NEW first, req' = Batch(kind, first),
             kind = "goal" => first.id \in GoalIds /\ first.row \in GoalRow,
             kind = "available" => first \in Stored
      PROVE  ReqOK' /\ BatchOK' /\ FiguresAgree' /\ BudgetAddsUp' /\ RatesAreDated' /\ FiguresWereTrue'
  <2>1. /\ DOMAIN req' = Fields /\ req'.pc = "batch" /\ req'.kind = kind /\ req'.first = first
        /\ req'.versions = {db}
    BY <1>1, BatchFields
  <2>2. ReqOK' /\ BatchOK'
    BY <1>1, <2>1 DEF ReqOK, BatchOK, DbOK
  <2> QED BY <2>1, <2>2, NoFigures, NoRates
<1>2. CASE req' = Batch("dashboard", Nothing)
  BY <1>1, <1>2 DEF WithGoals
<1>3. CASE \E first \in Stored : req' = Batch("available", first)
  <2>1. PICK first \in Stored : req' = Batch("available", first)
    BY <1>3
  <2> QED BY <1>1, <2>1 DEF WithGoals
<1>4. ASSUME NEW kind, NEW answer, req' = Reply(kind, answer), kind = "unconfigured" \/ answer.status # 200
      PROVE  ReqOK' /\ BatchOK' /\ FiguresAgree' /\ BudgetAddsUp' /\ RatesAreDated' /\ FiguresWereTrue'
  <2>1. req'.pc = "done" /\ req'.kind = kind /\ req'.answer = answer
    BY <1>4, ReplyFields
  <2>2. ReqOK' /\ BatchOK'
    BY <2>1 DEF ReqOK, InFlight, BatchOK
  <2>3. kind = "unconfigured" => kind \notin WithGoals \cup {"current", "convert", "history"}
    BY DEF WithGoals
  <2> QED BY <1>4, <2>1, <2>2, <2>3, NoFigures, NoRates
<1>5. ASSUME NEW g \in GoalIds, req' = FindOne("goal", g)
      PROVE  ReqOK' /\ BatchOK' /\ FiguresAgree' /\ BudgetAddsUp' /\ RatesAreDated' /\ FiguresWereTrue'
  <2>1. CASE db.goals[g] = Nothing
    BY <1>4, <1>5, <2>1 DEF FindOne
  <2>2. CASE db.goals[g] # Nothing
    <3>1. db.goals[g] \in GoalRow
      BY <2>2, DbFields DEF DbOK, OrNothing
    <3> DEFINE first == [id |-> g, row |-> db.goals[g]]
    <3>2. req' = Batch("goal", first) /\ first.id \in GoalIds /\ first.row \in GoalRow
      BY <1>5, <2>2, <3>1 DEF FindOne
    <3> HIDE DEF first
    <3> QED BY <1>1, <3>2 DEF WithGoals
  <2> QED BY <2>1, <2>2
<1>6. CASE req' = Reply("unconfigured", [status |-> 200])
  BY <1>4, <1>6
<1> QED BY <1>2, <1>3, <1>5, <1>6

(* A request in a step of its own that is no batch: the update, the pages  *)
LEMMA NoBatch ==
  ASSUME req'.pc \in {"idle", "goal", "page", "done"}, req'.pc \in {"goal", "page"} => DOMAIN req' = Fields,
         req'.pc \in {"page", "done"} => req'.kind = "page",
         req'.pc = "goal" => req'.first \in GoalIds
  PROVE  ReqOK' /\ BatchOK' /\ FiguresAgree' /\ BudgetAddsUp' /\ RatesAreDated' /\ FiguresWereTrue'
<1>1. ReqOK' /\ BatchOK'
  BY DEF ReqOK, InFlight, BatchOK
<1>2. "page" \notin WithGoals \cup {"current", "convert", "history"}
  BY DEF WithGoals
<1>3. req'.pc # "done" \/ req'.kind \notin WithGoals \cup {"current", "convert", "history"}
  BY <1>2
<1> QED BY <1>1, <1>3, NoFigures, NoRates

LEMMA LoadPageFields ==
  ASSUME ReqOK, LoadPage
  PROVE  /\ UNCHANGED db /\ req'.pc \in {"page", "done"} /\ req'.kind = "page"
         /\ req'.pc = "page" => DOMAIN req' = Fields
<1>1. UNCHANGED db /\ DOMAIN req = Fields /\ req.kind = "page"
  BY DEF LoadPage, ReqOK, InFlight
<1>2. \/ req' = Reply("page", [status |-> 404])
      \/ \E pc \in {"page", "done"} : \E answer : req' = [req EXCEPT !.pc = pc, !.answer = answer]
  <2> DEFINE seen   == req.answer
             rows   == AfterCursor(Newest(db, EntriesOf(db, req.first)), seen.cursor)
             page   == FirstN(rows, PageSize)
             more   == Len(rows) > PageSize
             pcNow  == IF more THEN "page" ELSE "done"
             answer == [status |-> 200, loaded |-> seen.loaded \o page,
                        cursor |-> IF more THEN Last(page) ELSE Nothing,
                        cut |-> seen.cut \/ seen.cursor \in req.touched]
  <2>1. req' = IF db.goals[req.first] = Nothing THEN Reply("page", [status |-> 404])
               ELSE [req EXCEPT !.pc = pcNow, !.answer = answer]
    BY DEF LoadPage
  <2>2. pcNow \in {"page", "done"}
    OBVIOUS
  <2> HIDE DEF pcNow, answer
  <2> QED BY <2>1, <2>2
<1>3. CASE req' = Reply("page", [status |-> 404])
  BY <1>1, <1>3, ReplyFields
<1>4. ASSUME NEW pc \in {"page", "done"}, NEW answer, req' = [req EXCEPT !.pc = pc, !.answer = answer]
      PROVE  req'.pc = pc /\ req'.kind = "page" /\ DOMAIN req' = Fields
  BY <1>1, <1>4 DEF Fields
<1> QED BY <1>1, <1>2, <1>3, <1>4

LEMMA ReadsStep == ASSUME ReadsInv, [Next]_vars PROVE ReadsInv'
<1>0. DbOK(db) /\ ReqOK /\ BatchOK
  BY DEF ReadsInv
<1>1. UNCHANGED db => DbOK(db)'
  BY <1>0 DEF DbOK, StoredEntries, GoalsOf
<1>2. ReqOK' /\ BatchOK' /\ FiguresAgree' /\ BudgetAddsUp' /\ RatesAreDated' /\ DbOK(db)' => ReadsInv'
  BY DEF ReadsInv
<1>3. ASSUME Writes, req.pc # "done" PROVE ReadsInv'
  <2>1. PICK d, E : Write(d, E) /\ DbOK(d)
    BY <1>0, <1>3, WritesOK
  <2>2. /\ db' = d /\ ReqOK' /\ req'.pc = req.pc
        /\ req.pc = "batch" =>
              /\ req'.kind = req.kind /\ req'.first = req.first
              /\ req'.versions = req.versions \cup {d}
    BY <1>0, <1>3, <2>1, RequestMet
  <2>3. DbOK(db)'
    BY <2>1, <2>2 DEF DbOK, StoredEntries, GoalsOf
  <2>4. BatchOK'
    BY <1>0, <2>1, <2>2 DEF BatchOK
  <2>5. FiguresAgree' /\ BudgetAddsUp' /\ RatesAreDated'
    BY <1>3, <2>2, NoFigures, NoRates
  <2> QED BY <1>2, <2>2, <2>3, <2>4, <2>5
<1>4. CASE GetDashboard \/ GetAvailable \/ FindUpdated \/ \E g \in GoalIds : GetGoal(g)
  <2>1. UNCHANGED db
    BY <1>4 DEF GetDashboard, GetAvailable, FindUpdated, GetGoal
  <2>2. \/ req' = Batch("dashboard", Nothing)
        \/ \E first \in Stored : req' = Batch("available", first)
        \/ \E g \in GoalIds : req' = FindOne("goal", g)
        \/ req' = Reply("unconfigured", [status |-> 200])
    <3>1. CASE GetDashboard
      <4>1. req' = Batch("dashboard", Nothing)
        BY <3>1 DEF GetDashboard
      <4> QED BY <4>1
    <3>2. CASE GetAvailable
      <4>1. \/ req' = Reply("unconfigured", [status |-> 200])
            \/ req' = Batch("available", db.settings) /\ db.settings # Nothing
        BY <3>2 DEF GetAvailable
      <4>2. db.settings # Nothing => db.settings \in Stored
        BY <1>0, DbFields DEF DbOK, OrNothing
      <4> QED BY <4>1, <4>2
    <3>3. CASE FindUpdated \/ \E g \in GoalIds : GetGoal(g)
      BY <1>0, <3>3 DEF FindUpdated, GetGoal, ReqOK
    <3> QED BY <1>4, <3>1, <3>2, <3>3
  <2> QED BY <1>0, <1>1, <1>2, <2>1, <2>2, Begun
<1>5. CASE Answer
  <2>1. UNCHANGED db /\ req'.pc = "done" /\ FiguresAgree' /\ BudgetAddsUp' /\ RatesAreDated'
    BY <1>0, <1>5, AnswerStep, AnswerAgrees
  <2>2. ReqOK' /\ BatchOK'
    BY <2>1 DEF ReqOK, InFlight, BatchOK
  <2> QED BY <1>1, <1>2, <2>1, <2>2
<1>6. CASE LoadPage
  BY <1>0, <1>1, <1>2, <1>6, LoadPageFields, NoBatch
<1>7. CASE Forget
  <2>1. UNCHANGED db /\ req'.pc = "idle"
    BY <1>7 DEF Forget, Idle
  <2> QED BY <1>1, <1>2, <2>1, NoBatch
<1>8. ASSUME NEW g \in GoalIds, StartPaging(g) PROVE ReadsInv'
  <2>1. UNCHANGED db /\ \E answer : req' = [Batch("page", g) EXCEPT !.pc = "page", !.answer = answer]
    BY <1>8 DEF StartPaging
  <2>2. req'.pc = "page" /\ req'.kind = "page" /\ DOMAIN req' = Fields
    BY <2>1 DEF Batch, Fields
  <2> QED BY <1>1, <1>2, <2>1, <2>2, NoBatch
<1>9. ASSUME NEW g \in GoalIds, NEW edit \in GoalEdits, UpdateGoal(g, edit) PROVE ReadsInv'
  <2>1. db.goals[g] # Nothing /\ db' = Edited(g, edit) /\ req' = [Batch("goal", g) EXCEPT !.pc = "goal"]
    BY <1>9 DEF UpdateGoal
  <2>2. req'.pc = "goal" /\ DOMAIN req' = Fields /\ req'.first = g
    BY <2>1 DEF Batch, Fields
  <2>3. DbOK(Edited(g, edit))
    BY <1>0, <2>1, EditedOK
  <2>4. DbOK(db)'
    BY <2>1, <2>3 DEF DbOK, StoredEntries, GoalsOf
  <2> QED BY <1>2, <2>2, <2>4, NoBatch
<1>10. ASSUME req'.pc = "done", req'.kind \in {"current", "convert", "history"}, RatesAreDated', UNCHANGED db
       PROVE  ReadsInv'
  <2>1. ReqOK' /\ BatchOK'
    BY <1>10 DEF ReqOK, InFlight, BatchOK
  <2>2. FiguresAgree' /\ BudgetAddsUp'
    BY <1>10, NoFigures DEF WithGoals
  <2> QED BY <1>1, <1>2, <1>10, <2>1, <2>2
<1>11. CASE GetCurrent
  <2>1. req'.pc = "done" /\ req'.kind = "current" /\ UNCHANGED db
    BY <1>11, ReplyFields DEF GetCurrent
  <2> QED BY <1>10, <1>11, <2>1, CurrentDated
<1>12. ASSUME NEW n \in 1 .. LastDay, GetHistory(n) PROVE ReadsInv'
  BY <1>0, <1>10, <1>12, HistoryFull
<1>13. ASSUME NEW x, NEW from, NEW to, ConvertAmount(x, from, to) PROVE ReadsInv'
  BY <1>10, <1>13, ConvertDated
<1>14. CASE UNCHANGED vars
  <2>1. db' = db /\ req' = req
    BY <1>14 DEF vars
  <2>2. ReqOK' /\ BatchOK'
    BY <1>0, <2>1 DEF ReqOK, InFlight, BatchOK
  <2>3. FiguresAgree' /\ BudgetAddsUp' /\ RatesAreDated'
    BY <2>1 DEF ReadsInv, FiguresAgree, BudgetAddsUp, RatesAreDated, Answered
  <2> QED BY <1>1, <1>2, <2>1, <2>2, <2>3
<1> QED BY <1>3, <1>4, <1>5, <1>6, <1>7, <1>8, <1>9, <1>11, <1>12, <1>13, <1>14 DEF Next, Requests

LEMMA ReadsInvariant == Spec => []ReadsInv
BY ReadsInit, ReadsStep, PTL DEF Spec

(* The rows that the API reads keep to their types, whatever is written.   *)
THEOREM ReadsTypeCorrect == Spec => []TypeOK
<1>1. ReadsInv => TypeOK
  BY DbFields DEF ReadsInv, DbOK, ReqOK, TypeOK
<1> QED BY <1>1, ReadsInvariant, PTL

(* Every goal of every answer has figures that agree with each other, for  *)
(* any number of entries and of writes meanwhile: what is suggested, paid  *)
(* until the deadline, reaches the target, and a unit less would not.      *)
THEOREM FiguresOfAnswersAgree == Spec => []FiguresAgree
BY ReadsInvariant, PTL DEF ReadsInv

(* The budget block of every answer adds up, for any number of goals and   *)
(* any rate: the goals are counted or excluded for what their status says, *)
(* and if they ask for more than the pool, the lines share it out exactly, *)
(* nearest deadline first.                                                 *)
THEOREM BudgetOfAnswersAddsUp == Spec => []BudgetAddsUp
BY ReadsInvariant, PTL DEF ReadsInv

(* A rate is shown with its day, unless a snapshot was stored between the  *)
(* two queries; and a history that is called full, for any number of days, *)
(* lacks at most one day of those from its first until today, because no   *)
(* rate is stored ahead of its day.                                        *)
THEOREM RatesDated == Spec => []RatesAreDated
BY ReadsInvariant, PTL DEF ReadsInv

(***************************************************************************)
(* One write meanwhile                                                     *)
(***************************************************************************)
VersionsOK ==
    req.pc = "batch" =>
        /\ req.overlaps \in Nat
        /\ req.overlaps = 0 => req.versions = {db}
        /\ \A a, b \in req.versions : Related(a, b)
        /\ req.kind = "goal" => \E d \in req.versions : d.goals[req.first.id] = req.first.row

TrueInv == ReadsInv /\ VersionsOK /\ FiguresWereTrue

LEMMA RelatedSame == ASSUME NEW a PROVE Related(a, a)
BY DEF Related

LEMMA RelatedBack == ASSUME NEW a, NEW b, Related(a, b) PROVE Related(b, a)
BY DEF Related

LEMMA SavedSame ==
  ASSUME NEW a, NEW b, a.entries = b.entries, NEW g
  PROVE  Saved(a, g) = Saved(b, g)
BY DEF Saved, EntriesOf

LEMMA AnswerWasTrue ==
  ASSUME TrueInv, Answer
  PROVE  FiguresWereTrue'
<1>1. PICK v : /\ SeenBy(v)
               /\ req.pc = "batch" /\ req'.pc = "done" /\ req'.kind = req.kind /\ req'.first = req.first
               /\ req'.versions = req.versions /\ req'.answer = Answers(v)
               /\ UNCHANGED db
  BY AnswerStep DEF TrueInv, ReadsInv
<1>2. DbOK(db) /\ BatchOK /\ VersionsOK /\ req.kind \in WithGoals
  BY <1>1 DEF TrueInv, ReadsInv, BatchOK
<1>3. req'.answer.progress = ProgressSeen(v)
  BY <1>1, <1>2, AnswerFields
<1>4. v.goals \in req.versions /\ v.sums \in req.versions
  BY <1>1, Seen
<1>5. ASSUME NEW g \in DOMAIN ProgressSeen(v)
      PROVE  \E d \in req.versions :
                \/ d.goals[g] = Nothing
                \/ /\ ProgressSeen(v)[g].target = d.goals[g].target
                   /\ ProgressSeen(v)[g].deadline = d.goals[g].deadline
                   /\ ProgressSeen(v)[g].saved = Saved(d, g)
  <2>1. PICK row \in GoalRow :
            /\ ProgressSeen(v)[g] = Progress(row, Saved(v.sums, g), db.today, LatestRate(v.rate))
            /\ row = IF req.kind = "goal" THEN req.first.row ELSE v.goals.goals[g]
            /\ g \in GoalIds /\ (req.kind = "goal" => g = req.first.id)
    BY <1>1, <1>2, FigureSeen
  <2>2. /\ ProgressSeen(v)[g].target = row.target /\ ProgressSeen(v)[g].deadline = row.deadline
        /\ ProgressSeen(v)[g].saved = Saved(v.sums, g)
    BY <2>1 DEF Progress
  <2>3. PICK a \in req.versions : a.goals[g] = row
    BY <1>1, <1>2, <1>4, <2>1 DEF VersionsOK
  <2>4. Related(a, v.sums)
    BY <1>1, <1>2, <1>4 DEF VersionsOK
  <2>5. CASE a.goals[g] = v.sums.goals[g]
    BY <1>4, <2>2, <2>3, <2>5
  <2>6. CASE a.goals[g] = Nothing \/ v.sums.goals[g] = Nothing
    BY <1>4, <2>6
  <2>7. CASE a.entries = v.sums.entries
    <3>1. Saved(a, g) = Saved(v.sums, g)
      BY <2>7, SavedSame
    <3> QED BY <2>2, <2>3, <3>1
  <2> QED BY <2>1, <2>4, <2>5, <2>6, <2>7 DEF Related
<1> QED BY <1>1, <1>3, <1>5 DEF FiguresWereTrue

LEMMA TrueStep ==
  ASSUME MaxOverlap <= 1, TrueInv, [Next]_vars
  PROVE  TrueInv'
<1>0. ReadsInv /\ VersionsOK /\ FiguresWereTrue /\ DbOK(db) /\ ReqOK /\ BatchOK
  BY DEF TrueInv, ReadsInv
<1>1. ReadsInv'
  BY <1>0, ReadsStep
<1> SUFFICES VersionsOK' /\ FiguresWereTrue'
  BY <1>1 DEF TrueInv
<1>2. req'.pc # "batch" => VersionsOK'
  BY DEF VersionsOK
<1>3. ASSUME NEW kind, NEW first, req' = Batch(kind, first), UNCHANGED db,
             kind = "goal" => db.goals[first.id] = first.row
      PROVE  VersionsOK' /\ FiguresWereTrue'
  <2>1. /\ req'.pc = "batch" /\ req'.kind = kind /\ req'.first = first
        /\ req'.versions = {db} /\ req'.overlaps = 0
    BY <1>3, BatchFields
  <2>2. Related(db, db)
    BY RelatedSame
  <2>3. VersionsOK'
    BY <1>3, <2>1, <2>2 DEF VersionsOK, Related
  <2> QED BY <2>1, <2>3, NoFigures
<1>4. ASSUME NEW kind, NEW answer, req' = Reply(kind, answer), kind \notin WithGoals \/ answer.status # 200
      PROVE  VersionsOK' /\ FiguresWereTrue'
  <2>1. req'.pc = "done" /\ req'.kind = kind /\ req'.answer = answer
    BY <1>4, ReplyFields
  <2> QED BY <1>2, <1>4, <2>1, NoFigures
<1>5. ASSUME Writes, req.pc # "done" PROVE VersionsOK' /\ FiguresWereTrue'
  <2>1. PICK d, E : Write(d, E) /\ DbOK(d) /\ Related(db, d)
    BY <1>0, <1>5, WritesOK
  <2>2. /\ db' = d /\ req'.pc = req.pc
        /\ req.pc = "batch" =>
              /\ req'.kind = req.kind /\ req'.first = req.first
              /\ req'.versions = req.versions \cup {d}
              /\ req.overlaps < MaxOverlap /\ req'.overlaps = req.overlaps + 1
    BY <1>0, <1>5, <2>1, RequestMet
  <2>3. CASE req.pc = "batch"
    <3>1. req.overlaps \in Nat /\ req.overlaps = 0 /\ req.versions = {db}
      BY <1>0, <2>2, <2>3, ReadsAssumption DEF VersionsOK
    <3>2. req'.versions = {db, d} /\ req'.overlaps = 1
      BY <2>2, <2>3, <3>1
    <3>3. \A a, b \in {db, d} : Related(a, b)
      BY <2>1, RelatedSame, RelatedBack
    <3>4. req'.kind = "goal" => \E c \in req'.versions : c.goals[req'.first.id] = req'.first.row
      BY <1>0, <2>2, <2>3 DEF VersionsOK
    <3>5. VersionsOK'
      BY <3>2, <3>3, <3>4 DEF VersionsOK, Related
    <3> QED BY <1>5, <2>2, <3>5, NoFigures
  <2>4. CASE req.pc # "batch"
    BY <1>2, <1>5, <2>2, <2>4, NoFigures
  <2> QED BY <2>3, <2>4
<1>6. CASE GetDashboard \/ GetAvailable
  <2>1. CASE GetDashboard
    BY <1>3, <2>1 DEF GetDashboard
  <2>2. CASE GetAvailable
    <3>1. "unconfigured" \notin WithGoals
      BY DEF WithGoals
    <3> QED BY <1>3, <1>4, <2>2, <3>1 DEF GetAvailable
  <2> QED BY <1>6, <2>1, <2>2
<1>7. ASSUME NEW g, req' = FindOne("goal", g), UNCHANGED db PROVE VersionsOK' /\ FiguresWereTrue'
  <2>1. CASE db.goals[g] = Nothing
    BY <1>4, <1>7, <2>1 DEF FindOne
  <2>2. CASE db.goals[g] # Nothing
    <3> DEFINE first == [id |-> g, row |-> db.goals[g]]
    <3>1. req' = Batch("goal", first) /\ db.goals[first.id] = first.row
      BY <1>7, <2>2 DEF FindOne
    <3> HIDE DEF first
    <3> QED BY <1>3, <1>7, <3>1
  <2> QED BY <2>1, <2>2
<1>8. CASE FindUpdated \/ \E g \in GoalIds : GetGoal(g)
  BY <1>7, <1>8 DEF FindUpdated, GetGoal
<1>9. CASE Answer
  <2>1. req'.pc = "done"
    BY <1>0, <1>9, AnswerStep
  <2> QED BY <1>2, <1>9, <2>1, AnswerWasTrue
<1>10. CASE LoadPage
  <2>1. req'.pc \in {"page", "done"} /\ req'.kind = "page" /\ "page" \notin WithGoals
    BY <1>0, <1>10, LoadPageFields DEF WithGoals
  <2> QED BY <1>2, <2>1, NoFigures
<1>11. ASSUME req'.pc \notin {"batch", "done"} PROVE VersionsOK' /\ FiguresWereTrue'
  BY <1>2, <1>11, NoFigures
<1>12. CASE Forget
  <2>1. req'.pc = "idle"
    BY <1>12 DEF Forget, Idle
  <2> QED BY <1>11, <2>1
<1>13. ASSUME NEW g, NEW edit, StartPaging(g) \/ UpdateGoal(g, edit) PROVE VersionsOK' /\ FiguresWereTrue'
  <2>1. \E pc \in {"page", "goal"} : \E kind, answer :
            \/ req' = [Batch(kind, g) EXCEPT !.pc = pc, !.answer = answer]
            \/ req' = [Batch(kind, g) EXCEPT !.pc = pc]
    BY <1>13 DEF StartPaging, UpdateGoal
  <2>2. req'.pc \in {"page", "goal"}
    BY <2>1 DEF Batch
  <2> QED BY <1>11, <2>2
<1>14. ASSUME NEW kind \in {"current", "convert", "history"}, req'.pc = "done", req'.kind = kind
       PROVE  VersionsOK' /\ FiguresWereTrue'
  <2>1. kind \notin WithGoals
    BY DEF WithGoals
  <2> QED BY <1>2, <1>14, <2>1, NoFigures
<1>15. CASE GetCurrent
  <2>1. req'.pc = "done" /\ req'.kind = "current"
    BY <1>15, ReplyFields DEF GetCurrent
  <2> QED BY <1>14, <2>1
<1>16. ASSUME NEW n \in 1 .. LastDay, GetHistory(n) PROVE VersionsOK' /\ FiguresWereTrue'
  BY <1>0, <1>14, <1>16, HistoryFull
<1>17. ASSUME NEW x, NEW from, NEW to, ConvertAmount(x, from, to) PROVE VersionsOK' /\ FiguresWereTrue'
  BY <1>14, <1>17, ConvertDated
<1>18. CASE UNCHANGED vars
  <2>1. db' = db /\ req' = req
    BY <1>18 DEF vars
  <2>2. VersionsOK'
    BY <1>0, <2>1 DEF VersionsOK
  <2>3. FiguresWereTrue'
    BY <1>0, <2>1 DEF FiguresWereTrue, Answered
  <2> QED BY <2>2, <2>3
<1> QED BY <1>5, <1>6, <1>8, <1>9, <1>10, <1>12, <1>13, <1>15, <1>16, <1>17, <1>18 DEF Next, Requests

LEMMA TrueInit == Init => TrueInv
<1> SUFFICES ASSUME Init PROVE TrueInv
  OBVIOUS
<1>1. req.pc = "idle"
  BY DEF Init, Idle
<1>2. VersionsOK /\ FiguresWereTrue
  BY <1>1 DEF VersionsOK, FiguresWereTrue, Answered
<1> QED BY <1>2, ReadsInit DEF TrueInv

(* The queries of a request are no snapshot; with at most one write        *)
(* between them the progress of a goal is still what it was before or      *)
(* after, for any number of goals and entries.                             *)
THEOREM ProgressWasTrue == ASSUME MaxOverlap <= 1 PROVE Spec => []FiguresWereTrue
<1>1. TrueInv /\ [Next]_vars => TrueInv'
  BY TrueStep
<1>2. TrueInv => FiguresWereTrue
  BY DEF TrueInv
<1> QED BY <1>1, <1>2, TrueInit, PTL DEF Spec
(***************************************************************************)
(* Pages                                                                   *)
(***************************************************************************)
LEMMA ReadsNumbers ==
  /\ \A e \in EntryIds : e \in Int
  /\ \A x \in EntryDates : x \in Int
  /\ PageSize \in Nat \ {0} /\ Nothing \notin EntryIds
<1>1. EntryIds \subseteq Nat /\ EntryDates \subseteq Int /\ PageSize \in Nat \ {0} /\ Nothing \notin Int
  BY ReadsAssumption
<1>2. \A x : x \in Nat => x \in Int
  OBVIOUS
<1>3. \A e \in EntryIds : e \in Int
  <2>1. \A e \in EntryIds : e \in Nat
    BY <1>1
  <2> QED BY <1>2, <2>1
<1> QED BY <1>1, <1>3, Zenon

(* The order of the rows as Linear takes it: what is ahead of each row.    *)
Older(d, E) == [e \in E |-> {x \in E : Ahead(d, x, e)}]

LEMMA AheadLinear ==
  ASSUME NEW d, DbOK(d), NEW E, E \subseteq StoredEntries(d)
  PROVE  /\ Linear(Older(d, E), E)
         /\ \A a, b \in E : ~(Ahead(d, a, b) /\ Ahead(d, b, a)) /\ ~Ahead(d, a, a)
<1>1. ASSUME NEW e \in E PROVE e \in Int /\ d.entries[e].date \in Int
  <2>1. e \in EntryIds /\ d.entries[e] # Nothing /\ d \in Db
    BY DEF StoredEntries, DbOK
  <2>2. d.entries[e] \in EntryRow
    BY <2>1, DbFields DEF OrNothing
  <2>3. d.entries[e].date \in EntryDates
    BY <2>2 DEF EntryRow
  <2> QED BY <2>1, <2>3, ReadsNumbers
<1>2. \A a, b \in E : a \in Older(d, E)[b] <=> Ahead(d, a, b)
  BY DEF Older
<1>3. ASSUME NEW a \in E, NEW b \in E PROVE a = b \/ Ahead(d, a, b) \/ Ahead(d, b, a)
  <2>1. a \in Int /\ b \in Int /\ d.entries[a].date \in Int /\ d.entries[b].date \in Int
    BY <1>1
  <2>2. \A x, y \in Int : x > y \/ x = y \/ y > x
    OBVIOUS
  <2>3. \/ d.entries[a].date > d.entries[b].date \/ d.entries[a].date = d.entries[b].date
        \/ d.entries[b].date > d.entries[a].date
    BY <2>1, <2>2
  <2>4. a > b \/ a = b \/ b > a
    BY <2>1, <2>2
  <2> QED BY <2>3, <2>4 DEF Ahead
<1>4. ASSUME NEW a \in E, NEW b \in E, NEW c \in E, Ahead(d, a, b), Ahead(d, b, c)
      PROVE  Ahead(d, a, c)
  BY <1>1, <1>4 DEF Ahead
<1>5. \A a, b \in E : ~(Ahead(d, a, b) /\ Ahead(d, b, a)) /\ ~Ahead(d, a, a)
  BY <1>1 DEF Ahead
<1>6. Linear(Older(d, E), E)
  BY <1>2, <1>3, <1>4 DEF Linear
<1> QED BY <1>5, <1>6

LEMMA NewestIs ==
  ASSUME NEW d, DbOK(d), NEW E, E \subseteq StoredEntries(d),
         NEW n, n = Cardinality(E), NEW s, s = Newest(d, E)
  PROVE  /\ n \in Nat /\ s \in [1 .. n -> E]
         /\ \A i, j \in 1 .. n : s[i] = s[j] => i = j
         /\ \A i, j \in 1 .. n : Ahead(d, s[i], s[j]) <=> i < j
         /\ \A e \in E : \E i \in 1 .. n : s[i] = e
<1> DEFINE Right(w) == w \in SetToSeqs(E) /\ \A i, j \in DOMAIN w : i < j => Ahead(d, w[i], w[j])
<1>1. IsFiniteSet(E)
  BY FS_Subset DEF DbOK
<1>2. n \in Nat
  BY <1>1, FS_CardinalityType
<1>3. PICK w : Sorts(Older(d, E), E, w)
  BY <1>1, AheadLinear, SortedExists
<1>4. Right(w)
  <2>1. w \in SetToSeqs(E) /\ \A i, j \in DOMAIN w : i < j => w[i] \in Older(d, E)[w[j]]
    BY <1>3 DEF Sorts
  <2>2. w \in [1 .. n -> E]
    BY <2>1, SetToSeqsIs
  <2>3. \A x, e \in E : x \in Older(d, E)[e] => Ahead(d, x, e)
    BY DEF Older
  <2> QED BY <2>1, <2>2, <2>3
<1>5. s = CHOOSE t \in SetToSeqs(E) : \A i, j \in DOMAIN t : i < j => Ahead(d, t[i], t[j])
  BY DEF Newest
<1>6. Right(s)
  BY <1>4, <1>5
<1>7. s \in [1 .. n -> E] /\ \A i, j \in 1 .. n : i # j => s[i] # s[j]
  BY <1>6, SetToSeqsIs
<1>8. \A e \in E : \E i \in 1 .. n : s[i] = e
  BY <1>1, <1>6, SeqCovers
<1>9. ASSUME NEW i \in 1 .. n, NEW j \in 1 .. n PROVE Ahead(d, s[i], s[j]) <=> i < j
  <2>1. s[i] \in E /\ s[j] \in E /\ i \in Int /\ j \in Int
    BY <1>2, <1>7
  <2>2. (i < j => Ahead(d, s[i], s[j])) /\ (j < i => Ahead(d, s[j], s[i]))
    BY <1>6, <1>7
  <2>3. ~(Ahead(d, s[i], s[j]) /\ Ahead(d, s[j], s[i])) /\ ~Ahead(d, s[i], s[i])
    BY <2>1, AheadLinear
  <2>4. i < j \/ j < i \/ i = j
    BY <2>1
  <2> QED BY <2>1, <2>2, <2>3, <2>4
<1> QED BY <1>2, <1>7, <1>8, <1>9

(* What the reader has loaded is what is ahead of the cursor, but for the  *)
(* entries that were touched.                                              *)
NoRepeats(loaded, touched) ==
    \A i, j \in DOMAIN loaded : i # j /\ loaded[i] = loaded[j] => loaded[i] \in touched

UpToCursor(d, g, loaded, cursor, touched) ==
    /\ NoRepeats(loaded, touched)
    /\ cursor = Nothing => loaded = <<>>
    /\ cursor # Nothing =>
          /\ cursor \in EntriesOf(d, g) /\ ToSet(loaded) \subseteq EntriesOf(d, g) \cup touched
          /\ \A e \in EntriesOf(d, g) \ touched :
                e \in ToSet(loaded) <=> e = cursor \/ Ahead(d, e, cursor)

(* The rows that follow the cursor, from the k-th on                       *)
LEMMA RowsAfter ==
  ASSUME NEW d, DbOK(d), NEW g, NEW n, n = Cardinality(EntriesOf(d, g)),
         NEW s, s = Newest(d, EntriesOf(d, g)), NEW cursor, NEW loaded, NEW touched,
         UpToCursor(d, g, loaded, cursor, touched)
  PROVE  \E k \in 0 .. n :
            /\ AfterCursor(s, cursor) = SubSeq(s, k + 1, n)
            /\ \A x \in 1 .. n : s[x] \notin touched => (s[x] \in ToSet(loaded) <=> x <= k)
            /\ ToSet(loaded) \subseteq EntriesOf(d, g) \cup touched
<1> DEFINE E == EntriesOf(d, g)
<1>1. E \subseteq StoredEntries(d)
  BY DEF EntriesOf, StoredEntries
<1>2. /\ n \in Nat /\ s \in [1 .. n -> E]
      /\ \A i, j \in 1 .. n : s[i] = s[j] => i = j
      /\ \A i, j \in 1 .. n : Ahead(d, s[i], s[j]) <=> i < j
      /\ \A e \in E : \E i \in 1 .. n : s[i] = e
  BY <1>1, NewestIs
<1>3. CASE cursor = Nothing
  <2>1. loaded = <<>>
    BY <1>3 DEF UpToCursor
  <2>2. ToSet(loaded) = {}
    BY <2>1 DEF ToSet
  <2>3. SubSeq(s, 0 + 1, n) = s
    BY <1>2
  <2>4. AfterCursor(s, cursor) = SubSeq(s, 0 + 1, n)
    BY <1>3, <2>3 DEF AfterCursor
  <2>5. 0 \in 0 .. n /\ \A x \in 1 .. n : ~(x <= 0)
    BY <1>2
  <2> QED BY <2>2, <2>4, <2>5
<1>4. CASE cursor # Nothing
  <2>1. cursor \in E /\ ToSet(loaded) \subseteq E \cup touched
        /\ \A e \in E \ touched : e \in ToSet(loaded) <=> e = cursor \/ Ahead(d, e, cursor)
    BY <1>4 DEF UpToCursor
  <2> DEFINE k == CHOOSE i \in DOMAIN s : s[i] = cursor
  <2>2. DOMAIN s = 1 .. n /\ Len(s) = n
    BY <1>2
  <2>3. k \in 1 .. n /\ s[k] = cursor
    BY <1>2, <2>1, <2>2
  <2>4. cursor \in ToSet(s)
    BY <2>2, <2>3 DEF ToSet
  <2>5. AfterCursor(s, cursor) = SubSeq(s, 1 + k, n)
    BY <1>4, <2>2, <2>4 DEF AfterCursor
  <2> HIDE DEF k
  <2>6. ASSUME NEW x \in 1 .. n, s[x] \notin touched PROVE s[x] \in ToSet(loaded) <=> x <= k
    <3>1. s[x] \in E \ touched
      BY <1>2, <2>6
    <3>2. s[x] \in ToSet(loaded) <=> s[x] = cursor \/ Ahead(d, s[x], cursor)
      BY <2>1, <3>1
    <3>3. s[x] = cursor <=> x = k
      BY <1>2, <2>3
    <3>4. Ahead(d, s[x], cursor) <=> x < k
      BY <1>2, <2>3
    <3>5. x \in Int /\ k \in Int
      BY <1>2, <2>3
    <3> QED BY <3>2, <3>3, <3>4, <3>5
  <2>7. k \in 0 .. n /\ 1 + k = k + 1
    BY <1>2, <2>3
  <2> QED BY <2>1, <2>5, <2>6, <2>7
<1> QED BY <1>3, <1>4

LEMMA FirstRows ==
  ASSUME NEW S, NEW rows, NEW m \in Nat, \A i \in 1 .. m : rows[i] \in S
  PROVE  /\ SubSeq(rows, 1, m) \in Seq(S) /\ Len(SubSeq(rows, 1, m)) = m
         /\ \A i \in 1 .. m : SubSeq(rows, 1, m)[i] = rows[i]
<1>1. /\ SubSeq(rows, 1, m) \in Seq(S)
      /\ Len(SubSeq(rows, 1, m)) = IF 1 <= m THEN m - 1 + 1 ELSE 0
      /\ \A i \in 1 .. m - 1 + 1 : SubSeq(rows, 1, m)[i] = rows[1 + i - 1]
  BY SubSeqProperties
<1> HIDE DEF SubSeq
<1>2. m - 1 + 1 = m /\ (IF 1 <= m THEN m - 1 + 1 ELSE 0) = m /\ \A i \in 1 .. m : 1 + i - 1 = i
  OBVIOUS
<1> QED BY <1>1, <1>2

(* A page is the rows that follow, as many as fit.                         *)
PageIs(rows, s, n, k) ==
    \E m \in 0 .. n - k :
        /\ Len(rows) > PageSize => m = PageSize
        /\ ~(Len(rows) > PageSize) => m = n - k
        /\ FirstN(rows, PageSize) \in Seq(EntryIds) /\ Len(FirstN(rows, PageSize)) = m
        /\ \A i \in 1 .. m : FirstN(rows, PageSize)[i] = s[k + i]

LEMMA PageOfRows ==
  ASSUME NEW n \in Nat, NEW s \in [1 .. n -> EntryIds], NEW k \in 0 .. n
  PROVE  PageIs(SubSeq(s, k + 1, n), s, n, k)
<1> DEFINE rows == SubSeq(s, k + 1, n)
<1>0. PageSize \in Nat \ {0}
  BY ReadsNumbers
<1>1. rows \in Seq(EntryIds) /\ Len(rows) = n - k /\ \A i \in 1 .. n - k : rows[i] = s[k + i]
  <2>1. k + 1 \in Int /\ n \in Int /\ \A i \in k + 1 .. n : s[i] \in EntryIds
    OBVIOUS
  <2>2. /\ rows \in Seq(EntryIds)
        /\ Len(rows) = IF k + 1 <= n THEN n - (k + 1) + 1 ELSE 0
        /\ \A i \in 1 .. n - (k + 1) + 1 : rows[i] = s[k + 1 + i - 1]
    BY <2>1, SubSeqProperties
  <2>3. n - (k + 1) + 1 = n - k /\ (~(k + 1 <= n) => n - k = 0) /\ \A i \in 1 .. n - k : k + 1 + i - 1 = k + i
    OBVIOUS
  <2> HIDE DEF rows
  <2> QED BY <2>2, <2>3
<1> SUFFICES PageIs(rows, s, n, k)
  BY DEF rows
<1> HIDE DEF rows
<1> DEFINE page == FirstN(rows, PageSize)
<1>2. ASSUME NEW m \in 0 .. n - k, page = SubSeq(rows, 1, m),
             Len(rows) > PageSize => m = PageSize, ~(Len(rows) > PageSize) => m = n - k
      PROVE  PageIs(rows, s, n, k)
  <2>1. m \in Nat /\ \A i \in 1 .. m : rows[i] \in EntryIds /\ rows[i] = s[k + i]
    <3>1. m \in Nat /\ \A i \in 1 .. m : i \in 1 .. n - k /\ k + i \in 1 .. n
      OBVIOUS
    <3> QED BY <1>1, <3>1
  <2>2. page \in Seq(EntryIds) /\ Len(page) = m /\ \A i \in 1 .. m : page[i] = rows[i]
    BY <1>2, <2>1, FirstRows
  <2>3. \A i \in 1 .. m : page[i] = s[k + i]
    BY <2>1, <2>2
  <2> QED BY <1>2, <2>2, <2>3 DEF PageIs
<1>3. CASE Len(rows) > PageSize
  <2>1. PageSize \in 0 .. n - k
    BY <1>0, <1>1, <1>3
  <2>2. page = SubSeq(rows, 1, PageSize)
    BY <1>0, <1>1, <1>3 DEF FirstN
  <2> QED BY <1>2, <1>3, <2>1, <2>2
<1>4. CASE ~(Len(rows) > PageSize)
  <2>1. n - k \in 0 .. n - k
    OBVIOUS
  <2>2. (IF Len(rows) < PageSize THEN Len(rows) ELSE PageSize) = n - k
    BY <1>0, <1>1, <1>4
  <2>3. page = SubSeq(rows, 1, n - k)
    BY <2>2 DEF FirstN
  <2> QED BY <1>2, <1>4, <2>1, <2>3
<1> QED BY <1>3, <1>4

(* What was loaded were the first k rows, but for those touched, and now   *)
(* the next m are added.                                                   *)
Once(s, n, E) == s \in [1 .. n -> E] /\ \A i, j \in 1 .. n : s[i] = s[j] => i = j

FirstLoaded(w, k, s, n, E, touched) ==
    /\ NoRepeats(w, touched) /\ ToSet(w) \subseteq E \cup touched
    /\ \A x \in 1 .. n : s[x] \notin touched => (s[x] \in ToSet(w) <=> x <= k)

NextAdded(all, loaded, l, m, s, k) ==
    /\ DOMAIN loaded = 1 .. l /\ DOMAIN all = 1 .. l + m
    /\ \A i \in 1 .. l : all[i] = loaded[i]
    /\ \A i \in 1 .. m : all[l + i] = s[k + i]

LEMMA RowsAdded ==
  ASSUME NEW E, NEW touched, NEW n \in Nat, NEW s, Once(s, n, E),
         NEW k \in 0 .. n, NEW l \in Nat, NEW m \in 0 .. n - k,
         NEW loaded, FirstLoaded(loaded, k, s, n, E, touched),
         NEW all, NextAdded(all, loaded, l, m, s, k)
  PROVE  FirstLoaded(all, k + m, s, n, E, touched)
<1>0. /\ s \in [1 .. n -> E] /\ \A i, j \in 1 .. n : s[i] = s[j] => i = j
      /\ DOMAIN loaded = 1 .. l /\ NoRepeats(loaded, touched) /\ ToSet(loaded) \subseteq E \cup touched
      /\ \A x \in 1 .. n : s[x] \notin touched => (s[x] \in ToSet(loaded) <=> x <= k)
      /\ DOMAIN all = 1 .. l + m
      /\ \A i \in 1 .. l : all[i] = loaded[i]
      /\ \A i \in 1 .. m : all[l + i] = s[k + i]
  BY DEF Once, FirstLoaded, NextAdded
<1>1. ASSUME NEW i \in 1 .. l + m
      PROVE  \/ i \in 1 .. l /\ all[i] = loaded[i] /\ all[i] \in ToSet(loaded)
             \/ \E y \in 1 .. m : i = l + y /\ k + y \in 1 .. n /\ all[i] = s[k + y]
  <2>1. CASE i <= l
    <3>1. i \in 1 .. l
      BY <2>1
    <3> QED BY <1>0, <3>1 DEF ToSet
  <2>2. CASE ~(i <= l)
    <3>1. i - l \in 1 .. m /\ i = l + (i - l) /\ k + (i - l) \in 1 .. n
      BY <2>2
    <3>2. all[l + (i - l)] = s[k + (i - l)]
      BY <1>0, <3>1
    <3> QED BY <3>1, <3>2
  <2> QED BY <2>1, <2>2
<1>2. ASSUME NEW i \in 1 .. l + m, NEW y \in 1 .. m, k + y \in 1 .. n, all[i] \in ToSet(loaded), all[i] = s[k + y]
      PROVE  all[i] \in touched
  <2>1. ~(k + y <= k)
    OBVIOUS
  <2> QED BY <1>0, <1>2, <2>1
<1>3. ASSUME NEW i \in 1 .. l + m, NEW j \in 1 .. l + m, i # j, all[i] = all[j]
      PROVE  all[i] \in touched
  <2>1. CASE i \in 1 .. l /\ all[i] = loaded[i] /\ j \in 1 .. l /\ all[j] = loaded[j]
    BY <1>0, <1>3, <2>1 DEF NoRepeats
  <2>2. ASSUME NEW x \in 1 .. m, NEW y \in 1 .. m, i = l + x, j = l + y, k + x \in 1 .. n, k + y \in 1 .. n,
               all[i] = s[k + x], all[j] = s[k + y]
        PROVE  FALSE
    <3>1. k + x = k + y
      BY <1>0, <1>3, <2>2
    <3>2. x = y
      BY <3>1
    <3> QED BY <1>3, <2>2, <3>2
  <2> QED BY <1>1, <1>2, <1>3, <2>1, <2>2
<1>4. NoRepeats(all, touched)
  BY <1>0, <1>3 DEF NoRepeats
<1>5. ToSet(all) \subseteq E \cup touched
  <2>1. ASSUME NEW i \in 1 .. l + m PROVE all[i] \in E \cup touched
    BY <1>0, <1>1
  <2> QED BY <1>0, <2>1 DEF ToSet
<1>6. ASSUME NEW x \in 1 .. n, s[x] \notin touched PROVE s[x] \in ToSet(all) <=> x <= k + m
  <2>1. ASSUME s[x] \in ToSet(all) PROVE x <= k + m
    <3>1. PICK i \in 1 .. l + m : all[i] = s[x]
      BY <1>0, <2>1 DEF ToSet
    <3>2. CASE all[i] \in ToSet(loaded)
      <4>1. x <= k
        BY <1>0, <1>6, <3>1, <3>2
      <4> QED BY <4>1
    <3>3. ASSUME NEW y \in 1 .. m, k + y \in 1 .. n, all[i] = s[k + y] PROVE x <= k + m
      <4>1. x = k + y
        BY <1>0, <3>1, <3>3
      <4> QED BY <4>1
    <3> QED BY <1>1, <3>2, <3>3
  <2>2. ASSUME x <= k PROVE s[x] \in ToSet(all)
    <3>1. PICK i \in 1 .. l : loaded[i] = s[x]
      BY <1>0, <1>6, <2>2 DEF ToSet
    <3>2. i \in 1 .. l + m /\ all[i] = s[x]
      BY <1>0, <3>1
    <3> QED BY <1>0, <3>2 DEF ToSet
  <2>3. ASSUME ~(x <= k), x <= k + m PROVE s[x] \in ToSet(all)
    <3>1. x - k \in 1 .. m /\ k + (x - k) = x /\ l + (x - k) \in 1 .. l + m
      BY <2>3
    <3>2. all[l + (x - k)] = s[x]
      BY <1>0, <3>1
    <3> QED BY <1>0, <3>1, <3>2 DEF ToSet
  <2> QED BY <2>1, <2>2, <2>3
<1> QED BY <1>4, <1>5, <1>6 DEF FirstLoaded

(* A page takes the reader on, or to the end.                              *)
LEMMA PageLoaded ==
  ASSUME NEW d, DbOK(d), NEW g, NEW loaded \in Seq(EntryIds), NEW cursor, NEW touched,
         UpToCursor(d, g, loaded, cursor, touched)
  PROVE  LET rows == AfterCursor(Newest(d, EntriesOf(d, g)), cursor)
             page == FirstN(rows, PageSize)
             all  == loaded \o page
         IN  /\ all \in Seq(EntryIds) /\ NoRepeats(all, touched)
             /\ Len(rows) > PageSize => UpToCursor(d, g, all, Last(page), touched)
             /\ ~(Len(rows) > PageSize) => EntriesOf(d, g) \ touched \subseteq ToSet(all)
<1> DEFINE E    == EntriesOf(d, g)
           n    == Cardinality(E)
           s    == Newest(d, E)
           rows == AfterCursor(s, cursor)
           page == FirstN(rows, PageSize)
           all  == loaded \o page
           l    == Len(loaded)
<1>0. PageSize \in Nat \ {0} /\ Nothing \notin EntryIds /\ E \subseteq EntryIds
  BY ReadsNumbers DEF EntriesOf
<1>1. E \subseteq StoredEntries(d)
  BY DEF EntriesOf, StoredEntries
<1>2. /\ n \in Nat /\ s \in [1 .. n -> E]
      /\ \A i, j \in 1 .. n : s[i] = s[j] => i = j
      /\ \A i, j \in 1 .. n : Ahead(d, s[i], s[j]) <=> i < j
      /\ \A e \in E : \E i \in 1 .. n : s[i] = e
  BY <1>1, NewestIs
<1>3. PICK k \in 0 .. n :
            /\ rows = SubSeq(s, k + 1, n)
            /\ \A x \in 1 .. n : s[x] \notin touched => (s[x] \in ToSet(loaded) <=> x <= k)
            /\ ToSet(loaded) \subseteq E \cup touched
  BY RowsAfter
<1>4. NoRepeats(loaded, touched)
  BY DEF UpToCursor
<1> HIDE DEF n, s, rows
<1>5. PageIs(rows, s, n, k)
  <2>1. s \in [1 .. n -> EntryIds]
    BY <1>0, <1>2
  <2>2. PageIs(SubSeq(s, k + 1, n), s, n, k)
    BY <1>2, <2>1, PageOfRows
  <2> QED BY <1>3, <2>2
<1>6. PICK m \in 0 .. n - k :
        /\ Len(rows) > PageSize => m = PageSize
        /\ ~(Len(rows) > PageSize) => m = n - k
        /\ page \in Seq(EntryIds) /\ Len(page) = m
        /\ \A i \in 1 .. m : page[i] = s[k + i]
  BY <1>5 DEF PageIs
<1> HIDE DEF page
<1>7. l \in Nat /\ DOMAIN loaded = 1 .. l
  BY LenProperties
<1>8. /\ all \in Seq(EntryIds) /\ Len(all) = l + m
      /\ \A i \in 1 .. l + m : all[i] = IF i <= l THEN loaded[i] ELSE page[i - l]
  BY <1>6, ConcatProperties
<1>9. DOMAIN all = 1 .. l + m
  BY <1>8, LenProperties
<1> HIDE DEF all, l
<1>10. m \in Nat /\ m \in Int /\ k \in Int /\ l \in Int
  BY <1>2, <1>7
<1>11. \A i \in 1 .. l : all[i] = loaded[i]
  BY <1>8, <1>10
<1>12. \A i \in 1 .. m : all[l + i] = s[k + i]
  <2>1. ASSUME NEW i \in 1 .. m PROVE all[l + i] = s[k + i]
    <3>1. PICK x : x = l + i
      OBVIOUS
    <3>2. x \in 1 .. l + m /\ ~(x <= l) /\ x - l = i
      BY <1>7, <1>10, <3>1
    <3>3. all[x] = page[x - l]
      BY <1>8, <3>2
    <3> QED BY <1>6, <3>1, <3>2, <3>3
  <2> QED BY <2>1
<1>13. /\ NoRepeats(all, touched) /\ ToSet(all) \subseteq E \cup touched
       /\ \A x \in 1 .. n : s[x] \notin touched => (s[x] \in ToSet(all) <=> x <= k + m)
  <2>1. Once(s, n, E)
    BY <1>2 DEF Once
  <2>2. FirstLoaded(loaded, k, s, n, E, touched)
    BY <1>3, <1>4 DEF FirstLoaded
  <2>3. NextAdded(all, loaded, l, m, s, k)
    BY <1>7, <1>9, <1>11, <1>12 DEF NextAdded
  <2> HIDE DEF E
  <2>4. FirstLoaded(all, k + m, s, n, E, touched)
    BY <1>2, <1>7, <2>1, <2>2, <2>3, RowsAdded
  <2> QED BY <2>4 DEF FirstLoaded
<1>14. ASSUME Len(rows) > PageSize PROVE UpToCursor(d, g, all, Last(page), touched)
  <2>1. m \in 1 .. m /\ k + m \in 1 .. n
    BY <1>0, <1>2, <1>6, <1>10, <1>14
  <2>2. Last(page) = s[k + m]
    BY <1>6, <2>1 DEF Last
  <2>3. Last(page) \in E /\ Last(page) # Nothing
    BY <1>0, <1>2, <2>1, <2>2
  <2>4. ASSUME NEW e \in E \ touched PROVE e \in ToSet(all) <=> e = Last(page) \/ Ahead(d, e, Last(page))
    <3>1. PICK x \in 1 .. n : s[x] = e
      BY <1>2
    <3>2. e = Last(page) <=> x = k + m
      BY <1>2, <2>1, <2>2, <3>1
    <3>3. Ahead(d, e, Last(page)) <=> x < k + m
      BY <1>2, <2>1, <2>2, <3>1
    <3>4. e \in ToSet(all) <=> x <= k + m
      BY <1>13, <2>4, <3>1
    <3>5. x \in Int /\ k + m \in Int
      BY <1>2, <2>1
    <3> QED BY <3>2, <3>3, <3>4, <3>5
  <2> QED BY <1>13, <2>3, <2>4 DEF UpToCursor
<1>15. ASSUME ~(Len(rows) > PageSize) PROVE E \ touched \subseteq ToSet(all)
  <2>1. k + m = n
    BY <1>2, <1>6, <1>10, <1>15
  <2>2. ASSUME NEW e \in E \ touched PROVE e \in ToSet(all)
    <3>1. PICK x \in 1 .. n : s[x] = e
      BY <1>2
    <3>2. x <= k + m
      BY <1>2, <2>1
    <3> QED BY <1>13, <2>2, <3>1, <3>2
  <2> QED BY <2>2
<1>16. all \in Seq(EntryIds) /\ NoRepeats(all, touched)
  BY <1>8, <1>13
<1> QED BY <1>14, <1>15, <1>16 DEF all, page, rows, s

(* A write to other entries than the cursor's does not disturb the reader. *)
LEMMA StillUpTo ==
  ASSUME NEW a, NEW d, NEW E, Spares(a, d, E), NEW g, NEW loaded, NEW cursor, NEW touched,
         cursor \notin touched \cup E, UpToCursor(a, g, loaded, cursor, touched)
  PROVE  UpToCursor(d, g, loaded, cursor, touched \cup E)
<1>0. NoRepeats(loaded, touched \cup E)
  BY DEF UpToCursor, NoRepeats
<1>1. ASSUME NEW e \in EntryIds \ E
      PROVE  d.entries[e] = a.entries[e] /\ (e \in EntriesOf(a, g) <=> e \in EntriesOf(d, g))
  BY DEF Spares, EntriesOf
<1>2. EntriesOf(a, g) \subseteq EntryIds /\ EntriesOf(d, g) \subseteq EntryIds
  BY DEF EntriesOf
<1>3. CASE cursor = Nothing
  BY <1>0, <1>3 DEF UpToCursor
<1>4. CASE cursor # Nothing
  <2>1. /\ cursor \in EntriesOf(a, g) /\ ToSet(loaded) \subseteq EntriesOf(a, g) \cup touched
        /\ \A e \in EntriesOf(a, g) \ touched : e \in ToSet(loaded) <=> e = cursor \/ Ahead(a, e, cursor)
    BY <1>4 DEF UpToCursor
  <2>2. cursor \in EntryIds \ E /\ cursor \in EntriesOf(d, g) /\ d.entries[cursor] = a.entries[cursor]
    BY <1>1, <1>2, <2>1
  <2>3. ToSet(loaded) \subseteq EntriesOf(d, g) \cup (touched \cup E)
    BY <1>1, <1>2, <2>1
  <2>4. ASSUME NEW e \in EntriesOf(d, g) \ (touched \cup E)
        PROVE  e \in ToSet(loaded) <=> e = cursor \/ Ahead(d, e, cursor)
    <3>1. e \in EntryIds \ E
      BY <1>2
    <3>2. e \in EntriesOf(a, g) \ touched /\ d.entries[e] = a.entries[e]
      BY <1>1, <3>1
    <3>3. Ahead(d, e, cursor) <=> Ahead(a, e, cursor)
      BY <2>2, <3>2 DEF Ahead
    <3> QED BY <2>1, <3>2, <3>3
  <2> QED BY <1>0, <1>4, <2>2, <2>3, <2>4 DEF UpToCursor
<1> QED BY <1>3, <1>4

(* The reader between two pages: unless a page started from an entry that  *)
(* was touched, or the next one will, it is up to its cursor.              *)
Paging ==
    req.pc = "page" =>
        /\ req.answer.status = 200 /\ req.answer.cut \in BOOLEAN /\ req.touched \subseteq EntryIds
        /\ ~req.answer.cut /\ req.answer.cursor \notin req.touched =>
              /\ req.answer.loaded \in Seq(EntryIds)
              /\ UpToCursor(db, req.first, req.answer.loaded, req.answer.cursor, req.touched)

PagesInv == ReadsInv /\ Paging /\ PagesComplete

LEMMA NoPage ==
  ASSUME req'.pc # "page", req'.pc # "done" \/ req'.kind # "page" \/ req'.answer.status # 200
  PROVE  Paging' /\ PagesComplete'
BY DEF Paging, PagesComplete, Answered

LEMMA FirstPage ==
  ASSUME NEW g \in GoalIds, StartPaging(g)
  PROVE  Paging' /\ PagesComplete'
<1> DEFINE seen == [status |-> 200, loaded |-> <<>>, cursor |-> Nothing, cut |-> FALSE]
<1>1. UNCHANGED db /\ req' = [Batch("page", g) EXCEPT !.pc = "page", !.answer = seen]
  BY DEF StartPaging
<1>2. seen.status = 200 /\ seen.loaded = <<>> /\ seen.cursor = Nothing /\ seen.cut = FALSE
  OBVIOUS
<1> HIDE DEF seen
<1>3. req'.pc = "page" /\ req'.first = g /\ req'.touched = {} /\ req'.answer = seen
  BY <1>1 DEF Batch
<1>4. <<>> \in Seq(EntryIds) /\ DOMAIN <<>> = {}
  OBVIOUS
<1>5. NoRepeats(<<>>, {})
  BY <1>4 DEF NoRepeats
<1>6. UpToCursor(db', g, <<>>, Nothing, {})
  BY <1>5 DEF UpToCursor
<1>7. Paging'
  BY <1>2, <1>3, <1>4, <1>6 DEF Paging
<1> QED BY <1>3, <1>7 DEF PagesComplete, Answered

LEMMA NextPage ==
  ASSUME DbOK(db), ReqOK, Paging, LoadPage
  PROVE  Paging' /\ PagesComplete'
<1> DEFINE seen    == req.answer
           touched == req.touched
           E       == EntriesOf(db, req.first)
           rows    == AfterCursor(Newest(db, EntriesOf(db, req.first)), seen.cursor)
           page    == FirstN(rows, PageSize)
           more    == Len(rows) > PageSize
           all     == seen.loaded \o page
           now     == IF more THEN "page" ELSE "done"
           next    == IF more THEN Last(page) ELSE Nothing
           cut     == seen.cut \/ seen.cursor \in touched
           answer  == [status |-> 200, loaded |-> all, cursor |-> next, cut |-> cut]
<1>1. /\ UNCHANGED db /\ req.pc = "page" /\ req.kind = "page" /\ DOMAIN req = Fields
      /\ req' = IF db.goals[req.first] = Nothing THEN Reply("page", [status |-> 404])
                ELSE [req EXCEPT !.pc = now, !.answer = answer]
  BY DEF LoadPage, ReqOK, InFlight
<1>2. /\ seen.cut \in BOOLEAN /\ touched \subseteq EntryIds
      /\ ~cut => seen.loaded \in Seq(EntryIds) /\ UpToCursor(db, req.first, seen.loaded, seen.cursor, touched)
  BY <1>1 DEF Paging
<1>3. ~cut => /\ all \in Seq(EntryIds) /\ NoRepeats(all, touched)
              /\ more => UpToCursor(db, req.first, all, Last(page), touched)
              /\ ~more => E \ touched \subseteq ToSet(all)
  BY <1>2, PageLoaded
<1>4. cut \in BOOLEAN
  BY <1>2
<1>5. answer.status = 200 /\ answer.loaded = all /\ answer.cursor = next /\ answer.cut = cut
  OBVIOUS
<1>6. now \in {"page", "done"} /\ (now = "page" => more /\ next = Last(page)) /\ (now = "done" => ~more)
  OBVIOUS
<1>7. CASE db.goals[req.first] = Nothing
  <2>1. req' = Reply("page", [status |-> 404])
    BY <1>1, <1>7
  <2>2. req'.pc = "done" /\ req'.answer.status # 200
    BY <2>1, ReplyFields
  <2> QED BY <2>2, NoPage
<1>8. CASE db.goals[req.first] # Nothing
  <2> HIDE DEF now, answer
  <2>1. req' = [req EXCEPT !.pc = now, !.answer = answer]
    BY <1>1, <1>8
  <2>2. /\ req'.pc = now /\ req'.kind = "page" /\ req'.first = req.first /\ req'.touched = touched
        /\ req'.answer = answer
    BY <1>1, <2>1 DEF Fields
  <2> HIDE DEF all, next, cut, more, page, rows
  <2>3. Paging'
    BY <1>1, <1>2, <1>3, <1>4, <1>5, <1>6, <2>2 DEF Paging
  <2>4. now = "done" /\ ~cut => NoRepeats(all, touched) /\ EntriesOf(db', req.first) \ touched \subseteq ToSet(all)
    BY <1>1, <1>3, <1>6
  <2>5. PagesComplete'
    BY <1>5, <2>2, <2>4 DEF PagesComplete, Answered, NoRepeats
  <2> QED BY <2>3, <2>5
<1> QED BY <1>7, <1>8

LEMMA PagesStep == ASSUME PagesInv, [Next]_vars PROVE Paging' /\ PagesComplete'
<1>0. DbOK(db) /\ ReqOK /\ BatchOK /\ Paging /\ PagesComplete
  BY DEF PagesInv, ReadsInv
<1>1. ASSUME Writes, req.pc # "done" PROVE Paging' /\ PagesComplete'
  <2>1. PICK d, E : Write(d, E) /\ Spares(db, d, E)
    BY <1>0, <1>1, WritesOK
  <2>2. /\ db' = d /\ req'.pc = req.pc
        /\ req.pc = "page" =>
              /\ req'.first = req.first /\ req'.answer = req.answer
              /\ req'.touched = req.touched \cup E
    BY <1>0, <1>1, <2>1, RequestMet
  <2>3. CASE req.pc = "page"
    <3>1. E \subseteq EntryIds
      BY <2>1 DEF Spares
    <3>2. ~req.answer.cut /\ req.answer.cursor \notin req.touched \cup E
             => /\ req.answer.loaded \in Seq(EntryIds)
                /\ UpToCursor(d, req.first, req.answer.loaded, req.answer.cursor, req.touched \cup E)
      BY <1>0, <2>1, <2>3, StillUpTo DEF Paging
    <3>3. Paging'
      BY <1>0, <2>2, <2>3, <3>1, <3>2 DEF Paging
    <3> QED BY <1>1, <2>2, <3>3 DEF PagesComplete, Answered
  <2>4. CASE req.pc # "page"
    BY <1>1, <2>2, <2>4, NoPage
  <2> QED BY <2>3, <2>4
<1>2. ASSUME NEW kind, NEW first, kind # "page", req' = Batch(kind, first) PROVE Paging' /\ PagesComplete'
  <2>1. req'.pc = "batch"
    BY <1>2, BatchFields
  <2> QED BY <2>1, NoPage
<1>3. ASSUME NEW kind, NEW answer, kind # "page", req' = Reply(kind, answer) PROVE Paging' /\ PagesComplete'
  <2>1. req'.pc = "done" /\ req'.kind = kind
    BY <1>3, ReplyFields
  <2> QED BY <1>3, <2>1, NoPage
<1>4. CASE GetDashboard \/ GetAvailable
  BY <1>2, <1>3, <1>4 DEF GetDashboard, GetAvailable
<1>5. CASE FindUpdated \/ \E g \in GoalIds : GetGoal(g)
  <2>1. \E g : req' = FindOne("goal", g)
    BY <1>5 DEF FindUpdated, GetGoal
  <2> QED BY <1>2, <1>3, <2>1 DEF FindOne
<1>6. CASE Answer
  <2>1. req.pc = "batch" /\ req'.pc = "done" /\ req'.kind = req.kind
    BY <1>0, <1>6, AnswerStep
  <2>2. req'.kind # "page"
    BY <1>0, <2>1 DEF BatchOK, WithGoals
  <2> QED BY <2>1, <2>2, NoPage
<1>7. CASE LoadPage
  BY <1>0, <1>7, NextPage
<1>8. CASE Forget
  <2>1. req'.pc = "idle"
    BY <1>8 DEF Forget, Idle
  <2> QED BY <2>1, NoPage
<1>9. ASSUME NEW g \in GoalIds, StartPaging(g) PROVE Paging' /\ PagesComplete'
  BY <1>9, FirstPage
<1>10. ASSUME NEW g, NEW edit, UpdateGoal(g, edit) PROVE Paging' /\ PagesComplete'
  <2>1. req'.pc = "goal"
    BY <1>10 DEF UpdateGoal, Batch
  <2> QED BY <2>1, NoPage
<1>11. CASE GetCurrent
  BY <1>3, <1>11 DEF GetCurrent
<1>12. ASSUME NEW n, GetHistory(n) PROVE Paging' /\ PagesComplete'
  BY <1>3, <1>12 DEF GetHistory
<1>13. ASSUME NEW x, NEW from, NEW to, ConvertAmount(x, from, to) PROVE Paging' /\ PagesComplete'
  BY <1>3, <1>13 DEF ConvertAmount
<1>14. CASE UNCHANGED vars
  <2>1. db' = db /\ req' = req
    BY <1>14 DEF vars
  <2> QED BY <1>0, <2>1 DEF Paging, PagesComplete, Answered, UpToCursor, EntriesOf, Ahead
<1> QED BY <1>1, <1>4, <1>5, <1>6, <1>7, <1>8, <1>9, <1>10, <1>11, <1>12, <1>13, <1>14 DEF Next, Requests

(* A reader who loads a goal's entries page by page while others write     *)
(* gets every entry that nobody touched, none of them twice, for pages and *)
(* goals of any size, unless a page started from an entry that was moved   *)
(* or deleted.                                                             *)
THEOREM PagesOfReaderComplete == Spec => []PagesComplete
<1>1. Init => PagesInv
  <2>1. Init => req.pc = "idle"
    BY DEF Init, Idle
  <2>2. req.pc = "idle" => Paging /\ PagesComplete
    BY DEF Paging, PagesComplete, Answered
  <2> QED BY <2>1, <2>2, ReadsInit DEF PagesInv
<1>2. PagesInv /\ [Next]_vars => PagesInv'
  BY ReadsStep, PagesStep DEF PagesInv
<1>3. PagesInv => PagesComplete
  BY DEF PagesInv
<1> QED BY <1>1, <1>2, <1>3, PTL DEF Spec

=============================================================================
