------------------------- MODULE SavingsLedgerProofs -------------------------
(***************************************************************************)
(* Theorems about SavingsLedger, for any users, goals, entries, requests,  *)
(* rates and amounts.                                                      *)
(***************************************************************************)
EXTENDS SavingsLedger, TLAPS

(***************************************************************************)
(* Money                                                                   *)
(***************************************************************************)
LEMMA ColumnType == ASSUME NEW x \in Int PROVE Column(x) \in Int
  BY DEF Column, Cents

LEMMA ColumnOfTens == ASSUME NEW k \in Int PROVE Column(10 * k) = 10 * k
  BY DEF Column, Cents

LEMMA CentsTens ==
  ASSUME NEW n \in Int, NEW d \in Nat \ {0}
  PROVE  \E k \in Int : Cents(n, d) = 10 * k
<1>1. 20 * d \in Nat \ {0}
  OBVIOUS
<1>2. \A m \in Int : m \div (20 * d) \in Int
  BY <1>1
<1>3. (2 * n + 10 * d) \in Int /\ (10 * d - 2 * n) \in Int
  OBVIOUS
<1>4. (2 * n + 10 * d) \div (20 * d) \in Int /\ (10 * d - 2 * n) \div (20 * d) \in Int
  BY <1>2, <1>3
<1> DEFINE a == (2 * n + 10 * d) \div (20 * d)
           b == (10 * d - 2 * n) \div (20 * d)
<1>5. Cents(n, d) = IF n >= 0 THEN 10 * a ELSE -10 * b
  BY DEF Cents
<1>6. a \in Int /\ b \in Int
  BY <1>4
<1> HIDE DEF a, b
<1>7. -b \in Int /\ -10 * b = 10 * (-b)
  BY <1>6
<1> QED BY <1>5, <1>6, <1>7

(* A converted amount is one the column keeps as it is.                    *)
LEMMA ConvertKept ==
  ASSUME NEW x \in Int, NEW from, NEW fx \in Nat \ {0}
  PROVE  Convert(x, from, fx) \in Int /\ Column(Convert(x, from, fx)) = Convert(x, from, fx)
<1>1. x * fx \in Int /\ 1 \in Nat \ {0}
  OBVIOUS
<1>2. \E k \in Int : Convert(x, from, fx) = 10 * k
  BY <1>1, CentsTens DEF Convert, Column
<1> QED BY <1>2, ColumnOfTens

(* The column keeps what it has kept.                                      *)
LEMMA ColumnIdempotent ==
  ASSUME NEW x \in Int
  PROVE  Column(Column(x)) = Column(x)
<1>1. \E k \in Int : Column(x) = 10 * k
  BY CentsTens DEF Column
<1> QED BY <1>1, ColumnOfTens

(***************************************************************************)
(* The invariant                                                           *)
(***************************************************************************)
(* What holds of an entry that is kept.                                    *)
EntrySound(e) ==
    /\ Present(entry[e].goalId)
    /\ goal[entry[e].goalId].userId = entry[e].userId
    /\ Column(entry[e].amount) = entry[e].amount
    /\ e \notin loose => Consistent(e)

(* What a request has read stays true of the goals and the entry it is     *)
(* about, whether they are deleted meanwhile or not: owners and currencies *)
(* never change, and a rate is there whenever one is needed.               *)
CreationSound(r) ==
    \A g \in DOMAIN req[r].allocations :
        /\ goal[g].row # "absent" /\ goal[g].userId = req[r].user
        /\ req[r].goalCurrency[g] = goal[g].currency
        /\ At(r, "insert") /\ req[r].allocations[g].currency # req[r].goalCurrency[g]
              => req[r].fx \in Rates

UpdateSound(r) ==
    LET e == req[r].id IN
    /\ e \in Entries /\ entry[e].row # "absent" /\ entry[e].userId = req[r].user
    /\ entry[e].goalId \in Goals /\ goal[entry[e].goalId].row # "absent"
    /\ req[r].found.currency \in Currencies
    /\ req[r].found.goalCurrency = goal[entry[e].goalId].currency
    /\ At(r, "write") /\ AmountOrCurrencyChanged(req[r].dto)
          /\ Next1(req[r].dto.currency, req[r].found.currency) # req[r].found.goalCurrency
          => req[r].fx \in Rates

RequestSound(r) ==
    /\ req[r].pc \in {"findGoals", "rate", "insert"} => req[r].user \in Users
    /\ req[r].pc \in {"rate", "insert"} => CreationSound(r)
    /\ At(r, "findEntry") => req[r].id \in Entries
    /\ req[r].pc \in {"rateForUpdate", "write"} => UpdateSound(r)

LedgerInv ==
    /\ TypeOK
    /\ \A e \in Entries : Kept(e) => EntrySound(e)
    /\ \A r \in Reqs : RequestSound(r)

(* The steps of the service, each named.                                   *)
LEMMA LedgerCases ==
  ASSUME Next
  PROVE  \/ \E r \in Reqs, u \in Users, alloc \in Allocations : Begin(r, u, alloc)
         \/ \E r \in Reqs : FindGoals(r)
         \/ \E r \in Reqs : FetchRate(r, "rate", "insert")
         \/ \E r \in Reqs : Insert(r)
         \/ \E r \in Reqs : Fail(r)
         \/ \E u \in Users, g \in Goals, c \in Currencies : CreateGoal(u, g, c)
         \/ \E u \in Users, g \in Goals : RemoveGoal(u, g)
         \/ \E u \in Users, e \in Entries : RemoveEntry(u, e)
         \/ \E x \in Rates : NewRate(x)
         \/ \E r \in Reqs, u \in Users, e \in Entries, dto \in Changes : Update(r, u, e, dto)
         \/ \E r \in Reqs : FindEntry(r)
         \/ \E r \in Reqs : FetchRate(r, "rateForUpdate", "write")
         \/ \E r \in Reqs : Write(r)
<1>1. ASSUME NEW r \in Reqs, NEW u \in Users, NEW g \in Goals, NEW a \in CreateAmounts,
             NEW c \in Currencies, Create(r, u, g, a, c)
      PROVE  \E alloc \in Allocations : Begin(r, u, alloc)
  <2> DEFINE alloc == [h \in {g} |-> [amount |-> a, currency |-> c]]
  <2>1. alloc \in [{g} -> Allocation] /\ {g} \in SUBSET Goals
    BY DEF Allocation
  <2>2. alloc \in Allocations
    BY <2>1 DEF Allocations
  <2> QED BY <1>1, <2>2 DEF Create
<1>2. ASSUME NEW r \in Reqs, NEW u \in Users, CreateSplit(r, u)
      PROVE  \E alloc \in Allocations : Begin(r, u, alloc)
  <2>1. PICK G \in SUBSET Goals : \E alloc \in [G -> [amount: SplitAmounts, currency: Currencies]] :
                                      Begin(r, u, alloc)
    BY <1>2 DEF CreateSplit
  <2>2. [amount: SplitAmounts, currency: Currencies] \subseteq Allocation
    BY DEF Allocation
  <2>3. [G -> [amount: SplitAmounts, currency: Currencies]] \subseteq [G -> Allocation]
    BY <2>2
  <2> QED BY <2>1, <2>3 DEF Allocations
<1> QED BY <1>1, <1>2 DEF Next, Handlers, Updates

(***************************************************************************)
(* Types                                                                   *)
(***************************************************************************)
LEMMA PCNames ==
  /\ "idle" \in PCs /\ "findGoals" \in PCs /\ "rate" \in PCs /\ "insert" \in PCs
  /\ "findEntry" \in PCs /\ "rateForUpdate" \in PCs /\ "write" \in PCs
  BY DEF PCs

LEMMA IdleType == Idle \in Request
<1>1. <<>> \in [{} -> Allocation] /\ {} \in SUBSET Goals
  OBVIOUS
<1>2. <<>> \in Allocations
  BY <1>1 DEF Allocations
<1>3. NoChange \in Changes
  BY DEF NoChange, Changes
<1>4. [amount |-> 0, currency |-> Nothing, goalCurrency |-> Nothing] \in Found
  BY DEF Found
<1> QED BY <1>2, <1>3, <1>4, PCNames DEF Idle, Request

LEMMA RequestUpdates ==
  ASSUME NEW q \in Request
  PROVE  /\ \A pc \in PCs, x \in Rates : [q EXCEPT !.pc = pc, !.fx = x] \in Request
         /\ \A pc \in PCs, u \in Users, alloc \in Allocations :
               [q EXCEPT !.pc = pc, !.user = u, !.allocations = alloc] \in Request
         /\ \A pc \in PCs, cs \in [Goals -> Currencies \cup {Nothing}] :
               [q EXCEPT !.pc = pc, !.goalCurrency = cs] \in Request
         /\ \A pc \in PCs, u \in Users, e \in Entries, dto \in Changes :
               [q EXCEPT !.pc = pc, !.user = u, !.id = e, !.dto = dto] \in Request
         /\ \A pc \in PCs, f \in Found : [q EXCEPT !.pc = pc, !.found = f] \in Request
  BY DEF Request

LEMMA GoalCurrencies ==
  ASSUME TypeOK, NEW g \in Goals
  PROVE  /\ goal[g].currency \in Currencies \cup {Nothing}
         /\ goal[g].row # "absent" =>
               goal[g].currency \in Currencies /\ goal[g].userId \in Users
  BY DEF TypeOK, GoalRow, NoGoal, Row

LEMMA EntryFields ==
  ASSUME TypeOK, NEW e \in Entries, entry[e].row # "absent"
  PROVE  entry[e] \in [row: Row, userId: Users, goalId: Goals, amount: Int, currency: Currencies,
                       amountInGoalCurrency: Int, fxRateUsed: Rates \cup {Nothing}]
  BY DEF TypeOK, EntryRow, NoEntry

LEMMA FreezeType ==
  ASSUME NEW x \in Int, NEW from, NEW to, NEW fx, from # to => fx \in Rates
  PROVE  /\ Freeze(x, from, to, fx).amountInGoalCurrency \in Int
         /\ Freeze(x, from, to, fx).fxRateUsed \in Rates \cup {Nothing}
<1>1. CASE from = to
  BY <1>1 DEF Freeze
<1>2. CASE from # to
  <2>1. Convert(x, from, fx) \in Int
    BY <1>2, ConvertKept, RatesAssumption
  <2> QED BY <1>2, <2>1 DEF Freeze
<1> QED BY <1>1, <1>2

LEMMA AllocationType ==
  ASSUME TypeOK, NEW r \in Reqs, NEW g \in DOMAIN req[r].allocations
  PROVE  /\ g \in Goals /\ req[r].allocations[g].amount \in Int
         /\ req[r].allocations[g].currency \in Currencies
<1>1. req[r].allocations \in Allocations
  BY DEF TypeOK, Request
<1>2. PICK G \in SUBSET Goals : req[r].allocations \in [G -> Allocation]
  BY <1>1 DEF Allocations
<1>3. g \in Goals /\ req[r].allocations[g] \in Allocation
  BY <1>2
<1>4. CreateAmounts \cup SplitAmounts \subseteq Int
  BY AmountsAssumption
<1> QED BY <1>3, <1>4 DEF Allocation

LEMMA NewEntryType ==
  ASSUME LedgerInv, NEW r \in Reqs, At(r, "insert"), NEW g \in DOMAIN req[r].allocations
  PROVE  NewEntry(r, g) \in EntryRow
<1> DEFINE x == req[r].allocations[g]
           f == Freeze(x.amount, x.currency, req[r].goalCurrency[g], SharedRate(r, g))
<1>1. g \in Goals /\ x.amount \in Int /\ x.currency \in Currencies
  BY AllocationType DEF LedgerInv
<1>2. RequestSound(r)
  BY DEF LedgerInv
<1>3. req[r].user \in Users /\ (x.currency # req[r].goalCurrency[g] => SharedRate(r, g) \in Rates)
  BY <1>2 DEF RequestSound, CreationSound, At, SharedRate
<1>4. f.amountInGoalCurrency \in Int /\ f.fxRateUsed \in Rates \cup {Nothing}
  BY <1>1, <1>3, FreezeType
<1>5. Column(x.amount) \in Int /\ Column(f.amountInGoalCurrency) \in Int
  BY <1>1, <1>4, ColumnType
<1>6. NewEntry(r, g) = [row |-> "present", userId |-> req[r].user, goalId |-> g,
        amount |-> Column(x.amount), currency |-> x.currency,
        amountInGoalCurrency |-> Column(f.amountInGoalCurrency), fxRateUsed |-> f.fxRateUsed]
  BY DEF NewEntry
<1> HIDE DEF x, f
<1> QED BY <1>1, <1>3, <1>4, <1>5, <1>6 DEF EntryRow, Row

(* The row an update leaves.                                               *)
LEMMA WrittenEntry ==
  ASSUME LedgerInv, NEW r \in Reqs, Write(r), Kept(req[r].id),
         entry[req[r].id].userId = req[r].user
  PROVE  LET e == req[r].id
             dto == req[r].dto
             f == Freeze(Next1(dto.amount, req[r].found.amount),
                         Next1(dto.currency, req[r].found.currency),
                         req[r].found.goalCurrency, req[r].fx)
         IN  /\ e \in Entries /\ entry'[e] \in EntryRow
             /\ \A d \in Entries \ {e} : entry'[d] = entry[d]
             /\ entry'[e].row = "present" /\ entry'[e].goalId = entry[e].goalId
             /\ entry'[e].userId = entry[e].userId
             /\ entry'[e].amount = Column(Next1(dto.amount, entry[e].amount))
             /\ entry'[e].currency = Next1(dto.currency, entry[e].currency)
             /\ entry'[e].amountInGoalCurrency =
                   IF AmountOrCurrencyChanged(dto) THEN Column(f.amountInGoalCurrency)
                   ELSE entry[e].amountInGoalCurrency
             /\ entry'[e].fxRateUsed =
                   IF AmountOrCurrencyChanged(dto) THEN f.fxRateUsed ELSE entry[e].fxRateUsed
<1> DEFINE e == req[r].id
           dto == req[r].dto
           changed == AmountOrCurrencyChanged(dto)
           f == Freeze(Next1(dto.amount, req[r].found.amount),
                       Next1(dto.currency, req[r].found.currency),
                       req[r].found.goalCurrency, req[r].fx)
           amount == Column(Next1(dto.amount, entry[e].amount))
           currency == Next1(dto.currency, entry[e].currency)
           frozen == IF changed THEN Column(f.amountInGoalCurrency)
                     ELSE entry[e].amountInGoalCurrency
           fx == IF changed THEN f.fxRateUsed ELSE entry[e].fxRateUsed
<1>1. At(r, "write") /\ RequestSound(r) /\ req[r] \in Request /\ TypeOK
  BY DEF Write, LedgerInv, TypeOK
<1>2. UpdateSound(r) /\ e \in Entries
  BY <1>1 DEF RequestSound, UpdateSound, At
<1>3. entry[e] \in [row: Row, userId: Users, goalId: Goals, amount: Int, currency: Currencies,
                    amountInGoalCurrency: Int, fxRateUsed: Rates \cup {Nothing}]
  BY <1>1, <1>2, EntryFields DEF Kept
<1>4. dto.amount \in CreateAmounts \cup {Nothing} /\ dto.currency \in Currencies \cup {Nothing}
      /\ req[r].found.amount \in Int
  BY <1>1 DEF Request, Changes, Found
<1>5. CreateAmounts \subseteq Int
  BY AmountsAssumption
<1>6. /\ Next1(dto.amount, entry[e].amount) \in Int
      /\ Next1(dto.amount, req[r].found.amount) \in Int
      /\ currency \in Currencies
  BY <1>3, <1>4, <1>5 DEF Next1
<1>7. changed => f.amountInGoalCurrency \in Int /\ f.fxRateUsed \in Rates \cup {Nothing}
  <2>1. changed => (Next1(dto.currency, req[r].found.currency) # req[r].found.goalCurrency
                       => req[r].fx \in Rates)
    BY <1>1, <1>2 DEF UpdateSound
  <2> QED BY <1>6, <2>1, FreezeType
<1>8. amount \in Int /\ frozen \in Int /\ fx \in Rates \cup {Nothing}
  BY <1>3, <1>6, <1>7, ColumnType
<1>9. entry' = [entry EXCEPT ![e] = [entry[e] EXCEPT !.amount = amount, !.currency = currency,
                                        !.amountInGoalCurrency = frozen, !.fxRateUsed = fx]]
  BY DEF Write
<1> HIDE DEF amount, currency, frozen, fx
<1>10. entry'[e] = [entry[e] EXCEPT !.amount = amount, !.currency = currency,
                                    !.amountInGoalCurrency = frozen, !.fxRateUsed = fx]
       /\ \A d \in Entries \ {e} : entry'[d] = entry[d]
  BY <1>1, <1>2, <1>9 DEF TypeOK
<1>11. /\ entry'[e].row = entry[e].row /\ entry'[e].goalId = entry[e].goalId
       /\ entry'[e].userId = entry[e].userId
       /\ entry'[e].amount = amount /\ entry'[e].currency = currency
       /\ entry'[e].amountInGoalCurrency = frozen /\ entry'[e].fxRateUsed = fx
  BY <1>3, <1>10
<1>12. entry'[e] \in EntryRow
  BY <1>3, <1>6, <1>8, <1>10 DEF EntryRow
<1> QED BY <1>2, <1>10, <1>11, <1>12 DEF Kept, amount, currency, frozen, fx

(***************************************************************************)
(* What the steps leave alone                                              *)
(***************************************************************************)
GoalsKept ==
    \A g \in Goals : goal[g].row # "absent" =>
        /\ goal'[g].row # "absent"
        /\ goal'[g].userId = goal[g].userId /\ goal'[g].currency = goal[g].currency

EntriesKept ==
    \A e \in Entries : entry[e].row # "absent" =>
        /\ entry'[e].row # "absent"
        /\ entry'[e].goalId = entry[e].goalId /\ entry'[e].userId = entry[e].userId

(* What a request knows stays true while it waits.                         *)
LEMMA WaitingSound ==
  ASSUME LedgerInv, GoalsKept, EntriesKept, NEW r \in Reqs, req'[r] = req[r]
  PROVE  RequestSound(r)'
<1>1. RequestSound(r) /\ TypeOK
  BY DEF LedgerInv
<1>2. \A g \in DOMAIN req[r].allocations : g \in Goals
  BY <1>1, AllocationType
<1>3. CreationSound(r) => CreationSound(r)'
  BY <1>2 DEF CreationSound, GoalsKept, At
<1>4. UpdateSound(r) => UpdateSound(r)'
  BY DEF UpdateSound, GoalsKept, EntriesKept, At
<1> QED BY <1>1, <1>3, <1>4 DEF RequestSound, At

LEMMA NothingKept ==
  ASSUME UNCHANGED <<goal, entry>>
  PROVE  GoalsKept /\ EntriesKept
  BY DEF GoalsKept, EntriesKept

(* An entry, its goal and its history left alone stay sound.               *)
LEMMA EntryLeftAlone ==
  ASSUME NEW e \in Entries, EntrySound(e), entry'[e] = entry[e],
         goal'[entry[e].goalId] = goal[entry[e].goalId], e \in loose => e \in loose'
  PROVE  EntrySound(e)'
  BY DEF EntrySound, Present, Consistent

(* Goals and entries untouched: only the request r has to be looked at.    *)
LEMMA ReadStep ==
  ASSUME LedgerInv, UNCHANGED <<goal, entry, loose>>, rate' \in Rates \cup {Nothing},
         NEW r \in Reqs, NEW q \in Request, req' = [req EXCEPT ![r] = q], RequestSound(r)'
  PROVE  LedgerInv'
<1>1. TypeOK'
  BY DEF LedgerInv, TypeOK
<1>2. ASSUME NEW e \in Entries, Kept(e)' PROVE EntrySound(e)'
  <2>1. Kept(e) /\ EntrySound(e)
    BY <1>2 DEF Kept, LedgerInv
  <2> QED BY <2>1, EntryLeftAlone
<1>3. ASSUME NEW x \in Reqs \ {r} PROVE RequestSound(x)'
  <2>1. req'[x] = req[x]
    BY DEF LedgerInv, TypeOK
  <2> QED BY <2>1, WaitingSound, NothingKept
<1> QED BY <1>1, <1>2, <1>3 DEF LedgerInv

LEMMA ReturnStep ==
  ASSUME LedgerInv, UNCHANGED <<goal, entry, rate, loose>>, NEW r \in Reqs, Return(r)
  PROVE  LedgerInv'
<1>1. rate' \in Rates \cup {Nothing} /\ req'[r] = Idle
  BY DEF LedgerInv, TypeOK, Return
<1>2. RequestSound(r)'
  BY <1>1 DEF RequestSound, At, Idle
<1> QED BY <1>1, <1>2, IdleType, ReadStep DEF Return

(***************************************************************************)
(* Requests                                                                *)
(***************************************************************************)
LEMMA BeginInv ==
  ASSUME LedgerInv, NEW r \in Reqs, NEW u \in Users, NEW alloc \in Allocations, Begin(r, u, alloc)
  PROVE  LedgerInv'
<1> DEFINE q == [Idle EXCEPT !.pc = "findGoals", !.user = u, !.allocations = alloc]
<1>1. q \in Request
  BY IdleType, RequestUpdates, PCNames
<1>2. q.pc = "findGoals" /\ q.user = u
  BY DEF Idle
<1> HIDE DEF q
<1>3. req' = [req EXCEPT ![r] = q] /\ UNCHANGED <<goal, entry, rate, loose>>
  BY DEF Begin, q
<1>4. req'[r] = q /\ rate' \in Rates \cup {Nothing}
  BY <1>3 DEF LedgerInv, TypeOK
<1>5. RequestSound(r)'
  BY <1>2, <1>4 DEF RequestSound, At
<1> QED BY <1>1, <1>3, <1>4, <1>5, ReadStep

LEMMA FindGoalsInv ==
  ASSUME LedgerInv, NEW r \in Reqs, FindGoals(r)
  PROVE  LedgerInv'
<1> DEFINE alloc == req[r].allocations
           cs == [g \in Goals |-> goal[g].currency]
           pc == IF \E g \in DOMAIN alloc : alloc[g].currency # goal[g].currency
                 THEN "rate" ELSE "insert"
           q == [req[r] EXCEPT !.pc = pc, !.goalCurrency = cs]
<1>0. TypeOK /\ req[r] \in Request /\ RequestSound(r) /\ rate \in Rates \cup {Nothing}
      /\ UNCHANGED <<goal, entry, rate, loose>>
  BY DEF LedgerInv, TypeOK, FindGoals
<1>1. CASE Return(r)
  BY <1>0, <1>1, ReturnStep
<1>2. CASE /\ \A g \in DOMAIN alloc : Present(g) /\ goal[g].userId = req[r].user
           /\ req' = [req EXCEPT ![r] = q]
  <2>1. cs \in [Goals -> Currencies \cup {Nothing}] /\ pc \in PCs
    BY <1>0, GoalCurrencies, PCNames
  <2>2. /\ q.user = req[r].user /\ q.allocations = alloc /\ q.goalCurrency = cs /\ q.pc = pc
        /\ pc \in {"rate", "insert"}
        /\ pc = "insert" => \A g \in DOMAIN alloc : alloc[g].currency = goal[g].currency
    BY <1>0 DEF Request
  <2>3. q \in Request
    <3> HIDE DEF cs, pc
    <3> QED BY <1>0, <2>1, RequestUpdates
  <2>4. req'[r] = q /\ At(r, "findGoals")
    BY <1>0, <1>2 DEF TypeOK, FindGoals
  <2>5. \A g \in DOMAIN alloc : g \in Goals /\ cs[g] = goal[g].currency
    BY <1>0, AllocationType
  <2> HIDE DEF q, cs, pc
  <2>6. CreationSound(r)'
    BY <1>0, <1>2, <2>2, <2>4, <2>5 DEF CreationSound, At, Present
  <2>7. RequestSound(r)'
    BY <1>0, <2>2, <2>4, <2>6 DEF RequestSound, At
  <2> QED BY <1>0, <1>2, <2>3, <2>7, ReadStep
<1> QED BY <1>1, <1>2 DEF FindGoals

LEMMA FetchRateInv ==
  ASSUME LedgerInv, NEW r \in Reqs, NEW from, NEW to, FetchRate(r, from, to),
         <<from, to>> \in {<<"rate", "insert">>, <<"rateForUpdate", "write">>}
  PROVE  LedgerInv'
<1> DEFINE q == [req[r] EXCEPT !.pc = to, !.fx = rate]
<1>0. TypeOK /\ req[r] \in Request /\ RequestSound(r) /\ rate \in Rates \cup {Nothing}
      /\ UNCHANGED <<goal, entry, rate, loose>> /\ At(r, from)
  BY DEF LedgerInv, TypeOK, FetchRate
<1>1. CASE Return(r)
  BY <1>0, <1>1, ReturnStep
<1>2. CASE rate # Nothing /\ req' = [req EXCEPT ![r] = q]
  <2>1. rate \in Rates /\ to \in PCs
    BY <1>0, <1>2, PCNames
  <2>2. q \in Request
    BY <1>0, <2>1, RequestUpdates
  <2>3. /\ q.user = req[r].user /\ q.allocations = req[r].allocations
        /\ q.goalCurrency = req[r].goalCurrency /\ q.pc = to /\ q.fx = rate
        /\ q.id = req[r].id /\ q.dto = req[r].dto /\ q.found = req[r].found
    BY <1>0 DEF Request
  <2>4. req'[r] = q
    BY <1>0, <1>2 DEF TypeOK
  <2> HIDE DEF q
  <2>5. CreationSound(r) => CreationSound(r)'
    BY <1>0, <2>1, <2>3, <2>4 DEF CreationSound, At
  <2>6. UpdateSound(r) => UpdateSound(r)'
    BY <1>0, <2>1, <2>3, <2>4 DEF UpdateSound, At
  <2>7. RequestSound(r)'
    BY <1>0, <2>3, <2>4, <2>5, <2>6 DEF RequestSound, At
  <2> QED BY <1>0, <1>2, <2>2, <2>7, ReadStep
<1> QED BY <1>1, <1>2 DEF FetchRate

LEMMA UpdateInv ==
  ASSUME LedgerInv, NEW r \in Reqs, NEW u \in Users, NEW e \in Entries, NEW dto \in Changes,
         Update(r, u, e, dto)
  PROVE  LedgerInv'
<1> DEFINE q == [Idle EXCEPT !.pc = "findEntry", !.user = u, !.id = e, !.dto = dto]
<1>1. q \in Request
  BY IdleType, RequestUpdates, PCNames
<1>2. q.pc = "findEntry" /\ q.id = e
  BY DEF Idle
<1> HIDE DEF q
<1>3. req' = [req EXCEPT ![r] = q] /\ UNCHANGED <<goal, entry, rate, loose>>
  BY DEF Update, q
<1>4. req'[r] = q /\ rate' \in Rates \cup {Nothing}
  BY <1>3 DEF LedgerInv, TypeOK
<1>5. RequestSound(r)'
  BY <1>2, <1>4 DEF RequestSound, At
<1> QED BY <1>1, <1>3, <1>4, <1>5, ReadStep

LEMMA FindEntryInv ==
  ASSUME LedgerInv, NEW r \in Reqs, FindEntry(r)
  PROVE  LedgerInv'
<1> DEFINE e == req[r].id
           to == goal[entry[e].goalId].currency
           pc == IF AmountOrCurrencyChanged(req[r].dto)
                      /\ Next1(req[r].dto.currency, entry[e].currency) # to
                 THEN "rateForUpdate" ELSE "write"
           found == [amount |-> entry[e].amount, currency |-> entry[e].currency,
                     goalCurrency |-> to]
           q == [req[r] EXCEPT !.pc = pc, !.found = found]
<1>0. TypeOK /\ req[r] \in Request /\ RequestSound(r) /\ rate \in Rates \cup {Nothing}
      /\ UNCHANGED <<goal, entry, rate, loose>> /\ At(r, "findEntry")
  BY DEF LedgerInv, TypeOK, FindEntry
<1>1. CASE Return(r)
  BY <1>0, <1>1, ReturnStep
<1>2. CASE Kept(e) /\ entry[e].userId = req[r].user /\ req' = [req EXCEPT ![r] = q]
  <2>1. e \in Entries /\ EntrySound(e) /\ entry[e].row # "absent"
    BY <1>0, <1>2 DEF RequestSound, LedgerInv, Kept
  <2>2. entry[e].goalId \in Goals /\ entry[e].amount \in Int /\ entry[e].currency \in Currencies
    BY <1>0, <2>1, EntryFields
  <2>3. goal[entry[e].goalId].row # "absent" /\ to \in Currencies
    BY <1>0, <2>1, <2>2, GoalCurrencies DEF EntrySound, Present
  <2>4. found \in Found
    BY <2>2, <2>3 DEF Found
  <2>5. /\ q.id = e /\ q.user = req[r].user /\ q.dto = req[r].dto /\ q.found = found /\ q.pc = pc
        /\ pc \in PCs /\ pc \in {"rateForUpdate", "write"}
        /\ pc = "write" => ~(AmountOrCurrencyChanged(req[r].dto)
                                /\ Next1(req[r].dto.currency, entry[e].currency) # to)
    BY <1>0, PCNames DEF Request
  <2>6. found.currency = entry[e].currency /\ found.goalCurrency = to
    OBVIOUS
  <2>7. q \in Request
    <3> HIDE DEF found, pc
    <3> QED BY <1>0, <2>4, <2>5, RequestUpdates
  <2>8. req'[r] = q
    BY <1>0, <1>2 DEF TypeOK
  <2> HIDE DEF q, found, pc
  <2>9. UpdateSound(r)'
    BY <1>0, <1>2, <2>1, <2>2, <2>3, <2>5, <2>6, <2>8
    DEF UpdateSound, At, AmountOrCurrencyChanged, Next1
  <2>10. RequestSound(r)'
    BY <2>5, <2>8, <2>9 DEF RequestSound, At
  <2> QED BY <1>0, <1>2, <2>7, <2>10, ReadStep
<1> QED BY <1>1, <1>2 DEF FindEntry

(***************************************************************************)
(* Writes                                                                  *)
(***************************************************************************)
(* A new entry is a consistent conversion unless its amount is too fine.   *)
LEMMA NewEntrySound ==
  ASSUME LedgerInv, NEW r \in Reqs, At(r, "insert"), References(r),
         NEW g \in DOMAIN req[r].allocations
  PROVE  LET x == NewEntry(r, g)
             converted == x.currency # goal[x.goalId].currency
         IN  /\ x \in EntryRow /\ x.row = "present" /\ x.goalId = g /\ Present(g)
             /\ goal[g].userId = x.userId
             /\ Column(x.amount) = x.amount
             /\ ~TooFine(r, g) =>
                    /\ converted <=> x.fxRateUsed # Nothing
                    /\ x.amountInGoalCurrency =
                          IF converted THEN Convert(x.amount, x.currency, x.fxRateUsed)
                          ELSE x.amount
<1> DEFINE x == req[r].allocations[g]
           f == Freeze(x.amount, x.currency, req[r].goalCurrency[g], req[r].fx)
<1>1. g \in Goals /\ x.amount \in Int /\ x.currency \in Currencies
  BY AllocationType DEF LedgerInv
<1>2. CreationSound(r)
  BY DEF LedgerInv, RequestSound, At
<1>3. /\ Present(g) /\ goal[g].userId = req[r].user
      /\ req[r].goalCurrency[g] = goal[g].currency
      /\ x.currency # goal[g].currency => req[r].fx \in Rates
  BY <1>2 DEF CreationSound, References
<1>4. NewEntry(r, g) = [row |-> "present", userId |-> req[r].user, goalId |-> g,
        amount |-> Column(x.amount), currency |-> x.currency,
        amountInGoalCurrency |-> Column(f.amountInGoalCurrency), fxRateUsed |-> f.fxRateUsed]
  BY DEF NewEntry, SharedRate
<1>5. TooFine(r, g) <=> Column(x.amount) # x.amount
  BY DEF TooFine
<1>6. NewEntry(r, g) \in EntryRow
  BY NewEntryType
<1>7. Column(Column(x.amount)) = Column(x.amount)
  BY <1>1, ColumnIdempotent
<1>8. CASE x.currency = goal[g].currency
  <2>1. f.amountInGoalCurrency = x.amount /\ f.fxRateUsed = Nothing
    BY <1>3, <1>8 DEF Freeze
  <2> HIDE DEF x, f
  <2> QED BY <1>3, <1>4, <1>5, <1>6, <1>7, <1>8, <2>1
<1>9. CASE x.currency # goal[g].currency
  <2>1. req[r].fx \in Rates /\ req[r].fx # Nothing /\ req[r].fx \in Nat \ {0}
    BY <1>3, <1>9, RatesAssumption, NothingAssumption
  <2>2. /\ f.amountInGoalCurrency = Convert(x.amount, x.currency, req[r].fx)
        /\ f.fxRateUsed = req[r].fx
    BY <1>3, <1>9 DEF Freeze
  <2>3. Column(f.amountInGoalCurrency) = f.amountInGoalCurrency
    BY <1>1, <2>1, <2>2, ConvertKept
  <2> HIDE DEF x, f
  <2> QED BY <1>3, <1>4, <1>5, <1>6, <1>7, <1>9, <2>1, <2>2, <2>3
<1> QED BY <1>8, <1>9

LEMMA InsertInv ==
  ASSUME LedgerInv, NEW r \in Reqs, Insert(r)
  PROVE  LedgerInv'
<1> DEFINE G == DOMAIN req[r].allocations
           unused == {e \in Entries : entry[e].row = "absent"}
<1>0. TypeOK /\ At(r, "insert") /\ Return(r) /\ UNCHANGED <<goal, rate>>
  BY DEF LedgerInv, Insert
<1>1. CASE UNCHANGED <<entry, loose>>
  BY <1>0, <1>1, ReturnStep
<1>2. CASE /\ References(r)
           /\ \E id \in [G -> unused] :
                 /\ \A g, h \in G : id[g] = id[h] => g = h
                 /\ entry' = [e \in Entries |->
                         IF \E g \in G : id[g] = e
                         THEN NewEntry(r, CHOOSE g \in G : id[g] = e) ELSE entry[e]]
                 /\ loose' = loose \cup {id[g] : g \in {h \in G : TooFine(r, h)}}
  <2>1. PICK id \in [G -> unused] :
           /\ \A g, h \in G : id[g] = id[h] => g = h
           /\ entry' = [e \in Entries |->
                   IF \E g \in G : id[g] = e
                   THEN NewEntry(r, CHOOSE g \in G : id[g] = e) ELSE entry[e]]
           /\ loose' = loose \cup {id[g] : g \in {h \in G : TooFine(r, h)}}
    BY <1>2
  <2> HIDE DEF G
  <2>2. ASSUME NEW g \in G PROVE id[g] \in unused /\ entry'[id[g]] = NewEntry(r, g)
    <3>1. id[g] \in unused
      OBVIOUS
    <3>2. (CHOOSE h \in G : id[h] = id[g]) = g
      BY <2>1
    <3> QED BY <2>1, <3>1, <3>2
  <2>3. ASSUME NEW e \in Entries, \A g \in G : id[g] # e PROVE entry'[e] = entry[e]
    BY <2>1, <2>3
  <2>4. ASSUME NEW g \in G
        PROVE  LET x == NewEntry(r, g)
                   converted == x.currency # goal[x.goalId].currency
               IN  /\ x \in EntryRow /\ x.row = "present" /\ x.goalId = g /\ Present(g)
                   /\ goal[g].userId = x.userId
                   /\ Column(x.amount) = x.amount
                   /\ ~TooFine(r, g) =>
                          /\ converted <=> x.fxRateUsed # Nothing
                          /\ x.amountInGoalCurrency =
                                IF converted THEN Convert(x.amount, x.currency, x.fxRateUsed)
                                ELSE x.amount
    BY <1>0, <1>2, NewEntrySound DEF G
  <2>5. TypeOK'
    <3>1. ASSUME NEW e \in Entries PROVE entry'[e] \in EntryRow
      BY <1>0, <2>2, <2>3, <2>4 DEF TypeOK
    <3>2. entry' \in [Entries -> EntryRow]
      BY <2>1, <3>1
    <3>3. loose' \in SUBSET Entries
      BY <1>0, <2>1 DEF TypeOK
    <3>4. req' \in [Reqs -> Request]
      BY <1>0, IdleType DEF TypeOK, Return
    <3> QED BY <1>0, <3>2, <3>3, <3>4 DEF TypeOK
  <2>6. ASSUME NEW e \in Entries, Kept(e)' PROVE EntrySound(e)'
    <3>1. CASE \A g \in G : id[g] # e
      <4>1. Kept(e) /\ EntrySound(e) /\ entry'[e] = entry[e]
        BY <2>3, <2>6, <3>1 DEF Kept, LedgerInv
      <4> QED BY <1>0, <2>1, <4>1, EntryLeftAlone
    <3>2. ASSUME NEW g \in G, id[g] = e PROVE EntrySound(e)'
      <4>1. entry'[e] = NewEntry(r, g)
        BY <2>2, <3>2
      <4>2. e \notin loose' => ~TooFine(r, g)
        BY <2>1, <3>2
      <4> QED BY <1>0, <2>4, <4>1, <4>2 DEF EntrySound, Consistent, Present
    <3> QED BY <3>1, <3>2
  <2>7. GoalsKept /\ EntriesKept
    <3>1. EntriesKept
      BY <2>3 DEF EntriesKept
    <3> QED BY <1>0, <3>1 DEF GoalsKept
  <2>8. ASSUME NEW x \in Reqs PROVE RequestSound(x)'
    <3>1. CASE x = r
      <4>1. req'[r] = Idle
        BY <1>0 DEF Return, TypeOK
      <4> QED BY <3>1, <4>1 DEF RequestSound, At, Idle
    <3>2. CASE x # r
      BY <1>0, <2>7, <3>2, WaitingSound DEF Return, TypeOK
    <3> QED BY <3>1, <3>2
  <2> QED BY <2>5, <2>6, <2>8 DEF LedgerInv
<1> QED BY <1>1, <1>2 DEF Insert

(* An update that writes what it read the entry for leaves a consistent    *)
(* conversion; one that writes over a change is recorded in loose.         *)
LEMMA WriteInv ==
  ASSUME LedgerInv, NEW r \in Reqs, Write(r)
  PROVE  LedgerInv'
<1> DEFINE dto == req[r].dto
           old == req[r].found
           x == Next1(dto.amount, old.amount)
           from == Next1(dto.currency, old.currency)
           f == Freeze(x, from, old.goalCurrency, req[r].fx)
<1>0. /\ TypeOK /\ At(r, "write") /\ Return(r) /\ UNCHANGED <<goal, rate>>
      /\ req[r] \in Request /\ UpdateSound(r)
  BY DEF LedgerInv, TypeOK, Write, RequestSound, At
<1>1. PICK e \in Entries :
         /\ e = req[r].id /\ entry[e].userId = req[r].user
         /\ old.goalCurrency = goal[entry[e].goalId].currency
  BY <1>0 DEF UpdateSound
<1>2. loose' = IF ~AmountOrCurrencyChanged(dto) THEN loose
               ELSE IF [amount |-> entry[e].amount, currency |-> entry[e].currency]
                       = [amount |-> old.amount, currency |-> old.currency]
                    THEN loose \ {e} ELSE loose \cup {e}
  BY <1>1 DEF Write
<1>3. loose' \in SUBSET Entries /\ \A d \in Entries \ {e} : d \in loose => d \in loose'
  BY <1>0, <1>1, <1>2 DEF TypeOK
<1>4. req' \in [Reqs -> Request] /\ req'[r] = Idle /\ \A y \in Reqs \ {r} : req'[y] = req[y]
  BY <1>0, IdleType DEF TypeOK, Return
<1>5. \A d \in Entries \ {e} : entry'[d] = entry[d] /\ (Kept(d) => EntrySound(d))
  <2>1. CASE Kept(e)
    BY <1>1, <2>1, WrittenEntry DEF LedgerInv
  <2>2. CASE ~Kept(e)
    BY <1>1, <2>2 DEF Write, LedgerInv
  <2> QED BY <2>1, <2>2
<1>6. /\ entry'[e] \in EntryRow /\ entry'[e].goalId = entry[e].goalId
      /\ entry'[e].userId = entry[e].userId /\ entry'[e].row = entry[e].row
  <2>1. CASE Kept(e)
    BY <1>1, <2>1, WrittenEntry DEF Kept
  <2>2. CASE ~Kept(e)
    BY <1>0, <1>1, <2>2 DEF Write, TypeOK
  <2> QED BY <2>1, <2>2
<1>7. TypeOK'
  <2>1. entry' = [d \in Entries |-> entry'[d]]
    BY <1>0 DEF Write, TypeOK
  <2>2. \A d \in Entries : entry'[d] \in EntryRow
    BY <1>0, <1>5, <1>6 DEF TypeOK
  <2>3. entry' \in [Entries -> EntryRow]
    BY <2>1, <2>2
  <2> QED BY <1>0, <1>3, <1>4, <2>3 DEF TypeOK
<1>8. GoalsKept /\ EntriesKept
  <2>1. EntriesKept
    BY <1>5, <1>6 DEF EntriesKept
  <2> QED BY <1>0, <2>1 DEF GoalsKept
<1>9. ASSUME NEW y \in Reqs PROVE RequestSound(y)'
  <2>1. CASE y = r
    BY <1>4, <2>1 DEF RequestSound, At, Idle
  <2>2. CASE y # r
    BY <1>4, <1>8, <2>2, WaitingSound
  <2> QED BY <2>1, <2>2
<1>10. ASSUME NEW d \in Entries \ {e}, Kept(d)' PROVE EntrySound(d)'
  <2>1. Kept(d) /\ EntrySound(d) /\ entry'[d] = entry[d]
    BY <1>5, <1>10 DEF Kept
  <2> QED BY <1>0, <1>3, <2>1, EntryLeftAlone
<1>11. ASSUME Kept(e)' PROVE EntrySound(e)'
  <2>1. Kept(e) /\ EntrySound(e)
    BY <1>1, <1>6, <1>11 DEF Kept, LedgerInv
  <2>2. /\ Present(entry[e].goalId) /\ goal[entry[e].goalId].userId = entry[e].userId
        /\ Column(entry[e].amount) = entry[e].amount
        /\ e \notin loose => Consistent(e)
    BY <2>1 DEF EntrySound
  <2>3. /\ entry'[e].amount = Column(Next1(dto.amount, entry[e].amount))
        /\ entry'[e].currency = Next1(dto.currency, entry[e].currency)
        /\ entry'[e].amountInGoalCurrency =
              IF AmountOrCurrencyChanged(dto) THEN Column(f.amountInGoalCurrency)
              ELSE entry[e].amountInGoalCurrency
        /\ entry'[e].fxRateUsed =
              IF AmountOrCurrencyChanged(dto) THEN f.fxRateUsed ELSE entry[e].fxRateUsed
    BY <1>1, <2>1, WrittenEntry
  <2>4. dto.amount \in CreateAmounts \cup {Nothing} /\ CreateAmounts \subseteq Int
    BY <1>0, AmountsAssumption DEF Request, Changes
  <2>5. entry[e].amount \in Int
    BY <1>0, <1>1, <2>1, EntryFields DEF Kept
  <2>6. entry'[e].amount = Next1(dto.amount, entry[e].amount) /\ entry'[e].amount \in Int
        /\ Column(entry'[e].amount) = entry'[e].amount
    BY <2>2, <2>3, <2>4, <2>5, TwoDecimals DEF Next1
  <2>7. ASSUME e \notin loose' PROVE Consistent(e)'
    <3>1. CASE ~AmountOrCurrencyChanged(dto)
      <4>1. dto.amount = Nothing /\ dto.currency = Nothing
        BY <3>1 DEF AmountOrCurrencyChanged
      <4>2. entry'[e].amount = entry[e].amount /\ entry'[e].currency = entry[e].currency
        BY <2>3, <2>6, <4>1 DEF Next1
      <4>3. /\ entry'[e].amountInGoalCurrency = entry[e].amountInGoalCurrency
            /\ entry'[e].fxRateUsed = entry[e].fxRateUsed
        BY <2>3, <3>1
      <4>4. e \notin loose
        BY <1>2, <2>7, <3>1
      <4> QED BY <1>0, <1>6, <2>2, <4>2, <4>3, <4>4 DEF Consistent
    <3>2. CASE AmountOrCurrencyChanged(dto)
      <4>1. entry[e].amount = old.amount /\ entry[e].currency = old.currency
        BY <1>1, <1>2, <2>7, <3>2
      <4>2. entry'[e].amount = x /\ entry'[e].currency = from
        BY <2>3, <2>6, <4>1
      <4>3. /\ entry'[e].amountInGoalCurrency = Column(f.amountInGoalCurrency)
            /\ entry'[e].fxRateUsed = f.fxRateUsed
        BY <2>3, <3>2
      <4>4. x \in Int /\ Column(x) = x
        BY <2>6, <4>2
      <4>5. CASE from = old.goalCurrency
        <5>1. f.amountInGoalCurrency = x /\ f.fxRateUsed = Nothing
          BY <4>5 DEF Freeze
        <5> HIDE DEF f, x, from
        <5> QED BY <1>0, <1>1, <1>6, <4>2, <4>3, <4>4, <4>5, <5>1 DEF Consistent
      <4>6. CASE from # old.goalCurrency
        <5>1. req[r].fx \in Rates /\ req[r].fx # Nothing /\ req[r].fx \in Nat \ {0}
          BY <1>0, <3>2, <4>6, RatesAssumption, NothingAssumption DEF UpdateSound
        <5>2. f.amountInGoalCurrency = Convert(x, from, req[r].fx) /\ f.fxRateUsed = req[r].fx
          BY <4>6 DEF Freeze
        <5>3. Column(f.amountInGoalCurrency) = f.amountInGoalCurrency
          BY <4>4, <5>1, <5>2, ConvertKept
        <5> HIDE DEF f, x, from
        <5> QED BY <1>0, <1>1, <1>6, <4>2, <4>3, <4>6, <5>1, <5>2, <5>3 DEF Consistent
      <4> QED BY <4>5, <4>6
    <3> QED BY <3>1, <3>2
  <2> QED BY <1>0, <1>6, <2>2, <2>6, <2>7 DEF EntrySound, Present
<1> QED BY <1>7, <1>9, <1>10, <1>11 DEF LedgerInv

LEMMA CreateGoalInv ==
  ASSUME LedgerInv, NEW u \in Users, NEW g \in Goals, NEW c \in Currencies, CreateGoal(u, g, c)
  PROVE  LedgerInv'
<1>0. /\ TypeOK /\ goal[g].row = "absent" /\ UNCHANGED <<entry, rate, req, loose>>
      /\ goal' = [goal EXCEPT ![g] = [row |-> "present", userId |-> u, currency |-> c]]
  BY DEF LedgerInv, CreateGoal
<1>1. TypeOK'
  <2>1. [row |-> "present", userId |-> u, currency |-> c] \in GoalRow
    BY DEF GoalRow, Row
  <2> QED BY <1>0, <2>1 DEF TypeOK
<1>2. GoalsKept /\ EntriesKept
  BY <1>0 DEF GoalsKept, EntriesKept, TypeOK
<1>3. ASSUME NEW e \in Entries, Kept(e)' PROVE EntrySound(e)'
  <2>1. Kept(e) /\ EntrySound(e) /\ entry'[e] = entry[e]
    BY <1>0, <1>3 DEF Kept, LedgerInv
  <2>2. entry[e].goalId # g
    BY <1>0, <2>1 DEF EntrySound, Present
  <2> QED BY <1>0, <2>1, <2>2, EntryLeftAlone DEF TypeOK
<1>4. \A r \in Reqs : RequestSound(r)'
  BY <1>0, <1>2, WaitingSound
<1> QED BY <1>1, <1>3, <1>4 DEF LedgerInv

(* The entries of a goal go with it, so that none is left under it.        *)
LEMMA RemoveGoalInv ==
  ASSUME LedgerInv, NEW u \in Users, NEW g \in Goals, RemoveGoal(u, g)
  PROVE  LedgerInv'
<1>0. /\ TypeOK /\ Present(g) /\ UNCHANGED <<rate, req, loose>>
      /\ goal' = [goal EXCEPT ![g].row = "deleted"]
      /\ entry' = [e \in Entries |->
            IF Kept(e) /\ entry[e].goalId = g THEN [entry[e] EXCEPT !.row = "deleted"]
            ELSE entry[e]]
  BY DEF LedgerInv, RemoveGoal
<1>1. goal[g] \in [row: Row, userId: Users, currency: Currencies]
  BY <1>0 DEF TypeOK, GoalRow, NoGoal, Present
<1>2. /\ goal'[g] \in GoalRow /\ goal'[g].row = "deleted"
      /\ goal'[g].userId = goal[g].userId /\ goal'[g].currency = goal[g].currency
      /\ \A h \in Goals \ {g} : goal'[h] = goal[h]
  <2>1. goal'[g] = [goal[g] EXCEPT !.row = "deleted"]
    BY <1>0 DEF TypeOK
  <2> QED BY <1>0, <1>1, <2>1 DEF GoalRow, Row, TypeOK
<1>3. ASSUME NEW e \in Entries
      PROVE  /\ entry'[e] \in EntryRow
             /\ entry[e].row # "absent" =>
                   /\ entry'[e].row # "absent" /\ entry'[e].goalId = entry[e].goalId
                   /\ entry'[e].userId = entry[e].userId
             /\ Kept(e)' => entry'[e] = entry[e] /\ entry[e].goalId # g
  <2>1. CASE Kept(e) /\ entry[e].goalId = g
    <3>1. entry'[e] = [entry[e] EXCEPT !.row = "deleted"]
      BY <1>0, <2>1
    <3>2. entry[e] \in [row: Row, userId: Users, goalId: Goals, amount: Int, currency: Currencies,
                        amountInGoalCurrency: Int, fxRateUsed: Rates \cup {Nothing}]
      BY <1>0, <2>1, EntryFields DEF Kept
    <3>3. entry'[e] \in [row: Row, userId: Users, goalId: Goals, amount: Int, currency: Currencies,
                         amountInGoalCurrency: Int, fxRateUsed: Rates \cup {Nothing}]
      BY <3>1, <3>2 DEF Row
    <3> QED BY <3>1, <3>2, <3>3 DEF EntryRow, Kept
  <2>2. CASE ~(Kept(e) /\ entry[e].goalId = g)
    <3>1. entry'[e] = entry[e]
      BY <1>0, <2>2
    <3> QED BY <1>0, <2>2, <3>1 DEF TypeOK, Kept
  <2> QED BY <2>1, <2>2
<1>4. TypeOK'
  BY <1>0, <1>2, <1>3 DEF TypeOK
<1>5. GoalsKept /\ EntriesKept
  BY <1>2, <1>3 DEF GoalsKept, EntriesKept
<1>6. ASSUME NEW e \in Entries, Kept(e)' PROVE EntrySound(e)'
  <2>1. Kept(e) /\ entry'[e] = entry[e] /\ entry[e].goalId # g
    BY <1>3, <1>6 DEF Kept
  <2>2. EntrySound(e) /\ entry[e].goalId \in Goals
    BY <1>0, <2>1, EntryFields DEF LedgerInv, Kept
  <2> QED BY <1>0, <1>2, <2>1, <2>2, EntryLeftAlone
<1>7. \A r \in Reqs : RequestSound(r)'
  BY <1>0, <1>5, WaitingSound
<1> QED BY <1>4, <1>6, <1>7 DEF LedgerInv

LEMMA RemoveEntryInv ==
  ASSUME LedgerInv, NEW u \in Users, NEW e \in Entries, RemoveEntry(u, e)
  PROVE  LedgerInv'
<1>0. /\ TypeOK /\ Kept(e) /\ UNCHANGED <<goal, rate, req, loose>>
      /\ entry' = [entry EXCEPT ![e] = [entry[e] EXCEPT !.row = "deleted"]]
  BY DEF LedgerInv, RemoveEntry
<1>1. entry[e] \in [row: Row, userId: Users, goalId: Goals, amount: Int, currency: Currencies,
                    amountInGoalCurrency: Int, fxRateUsed: Rates \cup {Nothing}]
  BY <1>0, EntryFields DEF Kept
<1>2. /\ entry'[e] = [entry[e] EXCEPT !.row = "deleted"]
      /\ \A d \in Entries \ {e} : entry'[d] = entry[d]
  BY <1>0 DEF TypeOK
<1>3. entry'[e] \in [row: Row, userId: Users, goalId: Goals, amount: Int, currency: Currencies,
                     amountInGoalCurrency: Int, fxRateUsed: Rates \cup {Nothing}]
  BY <1>1, <1>2 DEF Row
<1>4. entry'[e].row = "deleted" /\ entry'[e].goalId = entry[e].goalId
      /\ entry'[e].userId = entry[e].userId
  BY <1>1, <1>2
<1>5. TypeOK'
  BY <1>0, <1>2, <1>3 DEF TypeOK, EntryRow
<1>6. GoalsKept /\ EntriesKept
  BY <1>0, <1>2, <1>4 DEF GoalsKept, EntriesKept
<1>7. ASSUME NEW d \in Entries, Kept(d)' PROVE EntrySound(d)'
  <2>1. Kept(d) /\ EntrySound(d) /\ entry'[d] = entry[d]
    BY <1>2, <1>4, <1>7 DEF Kept, LedgerInv
  <2> QED BY <1>0, <2>1, EntryLeftAlone
<1>8. \A r \in Reqs : RequestSound(r)'
  BY <1>0, <1>6, WaitingSound
<1> QED BY <1>5, <1>7, <1>8 DEF LedgerInv

LEMMA QuietStep ==
  ASSUME LedgerInv, UNCHANGED <<goal, entry, req, loose>>, rate' \in Rates \cup {Nothing}
  PROVE  LedgerInv'
<1>1. TypeOK'
  BY DEF LedgerInv, TypeOK
<1>2. ASSUME NEW e \in Entries, Kept(e)' PROVE EntrySound(e)'
  <2>1. Kept(e) /\ EntrySound(e)
    BY <1>2 DEF Kept, LedgerInv
  <2> QED BY <2>1, EntryLeftAlone
<1>3. \A r \in Reqs : RequestSound(r)'
  BY NothingKept, WaitingSound
<1> QED BY <1>1, <1>2, <1>3 DEF LedgerInv

LEMMA LedgerInitInv == Init => LedgerInv
<1> SUFFICES ASSUME Init PROVE LedgerInv
  OBVIOUS
<1>1. TypeOK
  BY IdleType DEF Init, TypeOK, GoalRow, EntryRow
<1>2. \A e \in Entries : ~Kept(e)
  BY DEF Init, Kept, NoEntry
<1>3. \A r \in Reqs : RequestSound(r)
  BY DEF Init, RequestSound, At, Idle
<1> QED BY <1>1, <1>2, <1>3 DEF LedgerInv

LEMMA LedgerStepInv ==
  ASSUME LedgerInv, [Next]_vars
  PROVE  LedgerInv'
<1>1. ASSUME NEW r \in Reqs, Fail(r) PROVE LedgerInv'
  BY <1>1, ReturnStep DEF Fail
<1>2. ASSUME NEW x \in Rates, NewRate(x) PROVE LedgerInv'
  BY <1>2, QuietStep DEF NewRate
<1>3. CASE UNCHANGED vars
  BY <1>3, QuietStep DEF vars, LedgerInv, TypeOK
<1> QED BY <1>1, <1>2, <1>3, LedgerCases, BeginInv, FindGoalsInv, FetchRateInv, InsertInv,
           CreateGoalInv, RemoveGoalInv, RemoveEntryInv, UpdateInv, FindEntryInv, WriteInv

(***************************************************************************)
(* Theorems                                                                *)
(***************************************************************************)
THEOREM LedgerInvariant == Spec => []LedgerInv
<1>1. LedgerInv /\ [Next]_vars => LedgerInv'
  BY LedgerStepInv
<1> QED BY LedgerInitInv, <1>1, PTL DEF Spec

(* Goals, entries and requests are always well typed.                      *)
THEOREM LedgerTypeCorrect == Spec => []TypeOK
<1>1. LedgerInv => TypeOK
  BY DEF LedgerInv
<1> QED BY <1>1, LedgerInvariant, PTL

(* No entry is left, or put, under a goal that is gone or is someone       *)
(* else's, however many creations, splits and removals interleave.         *)
THEOREM EntriesAlwaysBelong == Spec => []EntriesBelong
<1>1. LedgerInv => EntriesBelong
  BY DEF LedgerInv, EntrySound, EntriesBelong
<1> QED BY <1>1, LedgerInvariant, PTL

(* The amount frozen in an entry is its amount converted at its rate, but  *)
(* for the two ways apart that loose records.                              *)
THEOREM ConversionsFrozen == Spec => []FrozenIsConversion
<1>1. LedgerInv => FrozenIsConversion
  BY DEF LedgerInv, EntrySound, FrozenIsConversion
<1> QED BY <1>1, LedgerInvariant, PTL

(* Only Insert puts a row where there was none, each with the rate of its  *)
(* request or none; what is deleted stays so.                              *)
LEMMA RowSteps ==
  ASSUME LedgerInv, [Next]_vars
  PROVE  /\ \A g \in Goals : goal[g].row = "deleted" => goal'[g].row = "deleted"
         /\ \A e \in Entries : entry[e].row = "deleted" => entry'[e].row = "deleted"
         /\ \/ \A e \in Entries : ~Kept(e) => ~Kept(e)'
            \/ \E r \in Reqs : \A e \in Entries :
                  Kept(e)' /\ ~Kept(e) => entry'[e].fxRateUsed \in {Nothing, req[r].fx}
<1>0. TypeOK
  BY DEF LedgerInv
<1>1. CASE UNCHANGED <<goal, entry>>
  BY <1>1 DEF Kept
<1>2. ASSUME NEW u \in Users, NEW g \in Goals, NEW c \in Currencies, CreateGoal(u, g, c)
      PROVE  /\ \A h \in Goals : goal[h].row = "deleted" => goal'[h].row = "deleted"
             /\ UNCHANGED entry
  BY <1>0, <1>2 DEF CreateGoal, TypeOK
<1>3. ASSUME NEW u \in Users, NEW g \in Goals, RemoveGoal(u, g)
      PROVE  /\ \A h \in Goals : goal[h].row = "deleted" => goal'[h].row = "deleted"
             /\ \A e \in Entries : ~Kept(e) => entry'[e] = entry[e]
  BY <1>0, <1>3 DEF RemoveGoal, TypeOK, Present
<1>4. ASSUME NEW u \in Users, NEW e \in Entries, RemoveEntry(u, e)
      PROVE  UNCHANGED goal /\ \A d \in Entries : ~Kept(d) => entry'[d] = entry[d]
  BY <1>0, <1>4 DEF RemoveEntry, TypeOK
<1>5. ASSUME NEW r \in Reqs, Write(r)
      PROVE  UNCHANGED goal /\ \A d \in Entries : ~Kept(d) => entry'[d] = entry[d]
  <2>1. CASE Kept(req[r].id) /\ entry[req[r].id].userId = req[r].user
    BY <1>5, <2>1, WrittenEntry DEF Write
  <2>2. CASE ~(Kept(req[r].id) /\ entry[req[r].id].userId = req[r].user)
    BY <1>5, <2>2 DEF Write
  <2> QED BY <2>1, <2>2
<1>6. ASSUME NEW r \in Reqs, Insert(r), entry' # entry
      PROVE  /\ UNCHANGED goal
             /\ \A e \in Entries : entry[e].row = "deleted" => entry'[e] = entry[e]
             /\ \A e \in Entries :
                   Kept(e)' /\ ~Kept(e) => entry'[e].fxRateUsed \in {Nothing, req[r].fx}
  <2> DEFINE G == DOMAIN req[r].allocations
             unused == {e \in Entries : entry[e].row = "absent"}
  <2>1. PICK id \in [G -> unused] :
           entry' = [e \in Entries |->
                   IF \E g \in G : id[g] = e
                   THEN NewEntry(r, CHOOSE g \in G : id[g] = e) ELSE entry[e]]
    BY <1>6 DEF Insert
  <2>2. ASSUME NEW e \in Entries
        PROVE  \/ entry'[e] = entry[e]
               \/ entry[e].row = "absent" /\ \E g \in G : entry'[e] = NewEntry(r, g)
    BY <2>1
  <2>3. \A g \in G : NewEntry(r, g).fxRateUsed \in {Nothing, req[r].fx}
    <3> TAKE g \in G
    <3> DEFINE x == req[r].allocations[g]
               f == Freeze(x.amount, x.currency, req[r].goalCurrency[g], req[r].fx)
    <3>1. f.fxRateUsed \in {Nothing, req[r].fx}
      BY DEF Freeze
    <3>2. NewEntry(r, g).fxRateUsed = f.fxRateUsed
      BY DEF NewEntry, SharedRate
    <3> QED BY <3>1, <3>2
  <2> QED BY <1>6, <2>2, <2>3 DEF Insert, Kept
<1>7. ASSUME NEW r \in Reqs, Insert(r) PROVE UNCHANGED goal
  BY <1>7 DEF Insert
<1>8. \A e \in Entries : entry[e].row = "deleted" => ~Kept(e)
  BY DEF Kept
<1> QED BY <1>1, <1>2, <1>3, <1>4, <1>5, <1>6, <1>7, <1>8, LedgerCases
        DEF Begin, FindGoals, FetchRate, Fail, NewRate, Update, FindEntry, vars, Kept

(* A deleted entry or goal does not come back, whatever was under way when *)
(* it was deleted (updateMany and the foreign key, not upsert).            *)
THEOREM DeletionsFinal == Spec => DeletedStaysDeleted
<1>1. LedgerInv /\ [Next]_vars =>
         /\ \A e \in Entries : entry[e].row = "deleted" => entry'[e].row = "deleted"
         /\ \A g \in Goals : goal[g].row = "deleted" => goal'[g].row = "deleted"
  BY RowSteps
<1> QED BY <1>1, LedgerInvariant, PTL DEF Spec, DeletedStaysDeleted

(* createSplit fetches one rate for all its allocations.                   *)
THEOREM SplitRateShared == Spec => SplitSharesRate
<1>1. ASSUME LedgerInv, [Next]_vars
      PROVE  \A e, f \in Entries :
                (~Kept(e) /\ ~Kept(f) /\ entry'[e].row = "present" /\ entry'[f].row = "present"
                    /\ entry'[e].fxRateUsed # Nothing /\ entry'[f].fxRateUsed # Nothing)
                => entry'[e].fxRateUsed = entry'[f].fxRateUsed
  BY <1>1, RowSteps DEF Kept
<1> QED BY <1>1, LedgerInvariant, PTL DEF Spec, SplitSharesRate

=============================================================================
