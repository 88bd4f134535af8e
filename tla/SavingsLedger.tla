---------------------------- MODULE SavingsLedger ---------------------------
(***************************************************************************)
(* Goals and savings entries: the Goal and SavingsEntry tables and the     *)
(* handlers of goals.service.ts and savings-entries.service.ts that write  *)
(* them.  An entry may be logged in either currency; its amount in the     *)
(* currency of the goal is frozen when it is written, with the rate used.  *)
(*                                                                         *)
(* A handler is split at its awaits.  create is a split of one allocation: *)
(* both look the goals up, fetch a rate if some allocation needs it, and   *)
(* insert in one transaction; they differ in the amounts their DTOs admit. *)
(* Names, notes, targets, deadlines and dates are left out: no write here  *)
(* depends on them beyond the validation that refuses a request outright.  *)
(***************************************************************************)
EXTENDS Money, FiniteSets

CONSTANTS
    Users, Goals, Entries,  \* ids; each goal and entry id is used once
    Reqs,                   \* requests that may be in flight at the same time
    Rates,                  \* VND per JPY, what the daily snapshots may bring
    CreateAmounts,          \* amounts CreateEntryDto and UpdateEntryDto admit
    SplitAmounts,           \* amounts SplitAllocationDto admits
    Nothing                 \* null, undefined

ASSUME RatesAssumption == Rates \subseteq Nat \ {0}
ASSUME AmountsAssumption == CreateAmounts \subseteq Int /\ SplitAmounts \subseteq Int
(* IsDecimal({ decimal_digits: '0,2' }) *)
ASSUME TwoDecimals == \A a \in CreateAmounts : Column(a) = a
ASSUME NothingAssumption ==
    /\ Nothing \notin Users /\ Nothing \notin Goals /\ Nothing \notin Entries
    /\ Nothing \notin Rates /\ Nothing \notin CreateAmounts /\ Nothing \notin Currencies

VARIABLES
    goal,       \* rows of Goal
    entry,      \* rows of SavingsEntry
    rate,       \* what RateProvider.getLatestRate returns
    req,        \* the handler each request runs, and what it has read
    loose       \* history: entries whose last write converted another amount than
                \* the one the row keeps (see Insert and Write)

vars == <<goal, entry, rate, req, loose>>

NoGoal  == [row |-> "absent", userId |-> Nothing, currency |-> Nothing]
NoEntry == [row |-> "absent", userId |-> Nothing, goalId |-> Nothing, amount |-> 0,
            currency |-> Nothing, amountInGoalCurrency |-> 0, fxRateUsed |-> Nothing]

(* Every column but fxRateUsed is NOT NULL.                                *)
Row      == {"present", "deleted"}
GoalRow  == {NoGoal} \cup [row: Row, userId: Users, currency: Currencies]
EntryRow == {NoEntry} \cup
            [row: Row, userId: Users, goalId: Goals, amount: Int, currency: Currencies,
             amountInGoalCurrency: Int, fxRateUsed: Rates \cup {Nothing}]

(* A request waits for the goals it looked up, for a rate, or for its      *)
(* write.  allocations and goalCurrency belong to a creation; id, dto and  *)
(* found (the entry and the currency of its goal, as read) to an update.   *)
PCs == {"idle", "findGoals", "rate", "insert", "findEntry", "rateForUpdate", "write"}

Allocation  == [amount: CreateAmounts \cup SplitAmounts, currency: Currencies]
Allocations == UNION {[G -> Allocation] : G \in SUBSET Goals}
Changes     == [amount: CreateAmounts \cup {Nothing}, currency: Currencies \cup {Nothing}]
Found       == [amount: Int, currency: Currencies \cup {Nothing},
                goalCurrency: Currencies \cup {Nothing}]

Request == [pc: PCs, user: Users \cup {Nothing}, fx: Rates \cup {Nothing},
            allocations: Allocations, goalCurrency: [Goals -> Currencies \cup {Nothing}],
            id: Entries \cup {Nothing}, dto: Changes, found: Found]

NoChange == [amount |-> Nothing, currency |-> Nothing]
Idle == [pc |-> "idle", user |-> Nothing, fx |-> Nothing,
         allocations |-> <<>>, goalCurrency |-> [g \in Goals |-> Nothing],
         id |-> Nothing, dto |-> NoChange,
         found |-> [amount |-> 0, currency |-> Nothing, goalCurrency |-> Nothing]]

TypeOK ==
    /\ goal \in [Goals -> GoalRow]
    /\ entry \in [Entries -> EntryRow]
    /\ rate \in Rates \cup {Nothing}
    /\ req \in [Reqs -> Request]
    /\ loose \in SUBSET Entries

Init ==
    /\ goal = [g \in Goals |-> NoGoal]
    /\ entry = [e \in Entries |-> NoEntry]
    /\ rate = Nothing
    /\ req = [r \in Reqs |-> Idle]
    /\ loose = {}

Present(g)  == goal[g].row = "present"
Kept(e)     == entry[e].row = "present"
At(r, pc)   == req[r].pc = pc
Goto(r, pc) == req' = [req EXCEPT ![r].pc = pc]
Return(r)   == req' = [req EXCEPT ![r] = Idle]

(* Operators headed "Mutant" are slips that could be made in the code: the *)
(* one below each would replace.  They are not part of Next; each breaks a *)
(* property that the definition itself satisfies.                          *)

(* Mutant: a rate of one is recorded where nothing is converted.           *)
FreezeAtOne(x, from, to, fx) ==
    [amountInGoalCurrency |-> IF from = to THEN x ELSE Convert(x, from, fx),
     fxRateUsed |-> IF from = to THEN 1 ELSE fx]

(* freezeEntryAmount, once its rate is there *)
Freeze(x, from, to, fx) ==
    IF from = to THEN [amountInGoalCurrency |-> x, fxRateUsed |-> Nothing]
                 ELSE [amountInGoalCurrency |-> Convert(x, from, fx), fxRateUsed |-> fx]

-----------------------------------------------------------------------------
(* Goals: each handler that writes is a single statement                   *)

CreateGoal(u, g, c) ==
    /\ goal[g].row = "absent"
    /\ goal' = [goal EXCEPT ![g] = [row |-> "present", userId |-> u, currency |-> c]]
    /\ UNCHANGED <<entry, rate, req, loose>>

(* deleteMany({ id, userId }); the entries of the goal go with it          *)
(* (onDelete: Cascade).                                                    *)
RemoveGoal(u, g) ==
    /\ Present(g) /\ goal[g].userId = u
    /\ goal' = [goal EXCEPT ![g].row = "deleted"]
    /\ entry' = [e \in Entries |->
            IF Kept(e) /\ entry[e].goalId = g THEN [entry[e] EXCEPT !.row = "deleted"]
            ELSE entry[e]]
    /\ UNCHANGED <<rate, req, loose>>

-----------------------------------------------------------------------------
(* create and createSplit                                                  *)

(* A request that passes the DTO and the validation: at most one           *)
(* allocation per goal, every amount positive.  (create compares its       *)
(* amount after the lookup, where a refusal changes nothing either.)       *)
Begin(r, u, alloc) ==
    /\ At(r, "idle")
    /\ \A g \in DOMAIN alloc : alloc[g].amount > 0
    /\ req' = [req EXCEPT ![r] = [Idle EXCEPT
                    !.pc = "findGoals", !.user = u, !.allocations = alloc]]
    /\ UNCHANGED <<goal, entry, rate, loose>>

Create(r, u, g, a, c) == Begin(r, u, [h \in {g} |-> [amount |-> a, currency |-> c]])

CreateSplit(r, u) ==
    \E G \in SUBSET Goals \ {{}} :
        \E alloc \in [G -> [amount: SplitAmounts, currency: Currencies]] : Begin(r, u, alloc)

(* findMany({ id in goalIds, userId }): all are the user's, or 404.  A     *)
(* rate is fetched only if some allocation is in another currency.         *)
FindGoals(r) ==
    LET alloc == req[r].allocations
        mine  == \A g \in DOMAIN alloc : Present(g) /\ goal[g].userId = req[r].user
        needsRate == \E g \in DOMAIN alloc : alloc[g].currency # goal[g].currency
    IN
    /\ At(r, "findGoals")
    /\ \/ ~mine /\ Return(r)
       \/ /\ mine
          /\ req' = [req EXCEPT ![r] = [@ EXCEPT
                !.pc = IF needsRate THEN "rate" ELSE "insert",
                !.goalCurrency = [g \in Goals |-> goal[g].currency]]]
    /\ UNCHANGED <<goal, entry, rate, loose>>

(* getLatestRate, or 503 while there is none *)
FetchRate(r, from, to) ==
    /\ At(r, from)
    /\ IF rate = Nothing THEN Return(r)
       ELSE req' = [req EXCEPT ![r] = [@ EXCEPT !.pc = to, !.fx = rate]]
    /\ UNCHANGED <<goal, entry, rate, loose>>

(* Mutant: the allocations after the first fetch the rate again.           *)
RefetchedRate(r, g) == IF g = CHOOSE h \in DOMAIN req[r].allocations : TRUE
                       THEN req[r].fx ELSE rate

SharedRate(r, g) == req[r].fx

(* One entry per allocation, in one transaction.  A goal removed meanwhile *)
(* violates the foreign key and nothing is written.                        *)
NewEntry(r, g) ==
    LET x == req[r].allocations[g]
        f == Freeze(x.amount, x.currency, req[r].goalCurrency[g], SharedRate(r, g))
    IN [row |-> "present", userId |-> req[r].user, goalId |-> g,
        amount |-> Column(x.amount), currency |-> x.currency,
        amountInGoalCurrency |-> Column(f.amountInGoalCurrency), fxRateUsed |-> f.fxRateUsed]

(* Mutant: no foreign key from an entry to its goal.                       *)
Unreferenced(r) == TRUE

(* IsNumberString admits more decimals than the column keeps.              *)
TooFine(r, g) == LET x == req[r].allocations[g].amount IN Column(x) # x

References(r) == \A g \in DOMAIN req[r].allocations : Present(g)

Insert(r) ==
    LET G == DOMAIN req[r].allocations
        unused == {e \in Entries : entry[e].row = "absent"}
    IN
    /\ At(r, "insert")
    /\ \/ ~References(r) /\ UNCHANGED <<entry, loose>>
       \/ /\ References(r)
          /\ \E id \in [G -> unused] :
                /\ \A g, h \in G : id[g] = id[h] => g = h
                /\ entry' = [e \in Entries |->
                        IF \E g \in G : id[g] = e
                        THEN NewEntry(r, CHOOSE g \in G : id[g] = e) ELSE entry[e]]
                /\ loose' = loose \cup {id[g] : g \in {h \in G : TooFine(r, h)}}
    /\ Return(r)
    /\ UNCHANGED <<goal, rate>>

-----------------------------------------------------------------------------
(* update and remove                                                       *)

Update(r, u, e, dto) ==
    /\ At(r, "idle")
    /\ req' = [req EXCEPT ![r] = [Idle EXCEPT
                    !.pc = "findEntry", !.user = u, !.id = e, !.dto = dto]]
    /\ UNCHANGED <<goal, entry, rate, loose>>

Next1(dto, old) == IF dto = Nothing THEN old ELSE dto

(* Mutant: only a new amount is converted again.                           *)
AmountChanged(dto) == dto.amount # Nothing

AmountOrCurrencyChanged(dto) == dto.amount # Nothing \/ dto.currency # Nothing

FindEntry(r) ==
    LET e == req[r].id
        mine == Kept(e) /\ entry[e].userId = req[r].user
        to == goal[entry[e].goalId].currency
        from == Next1(req[r].dto.currency, entry[e].currency)
    IN
    /\ At(r, "findEntry")
    /\ \/ ~mine /\ Return(r)
       \/ /\ mine
          /\ req' = [req EXCEPT ![r] = [@ EXCEPT
                !.pc = IF AmountOrCurrencyChanged(req[r].dto) /\ from # to
                       THEN "rateForUpdate" ELSE "write",
                !.found = [amount |-> entry[e].amount, currency |-> entry[e].currency,
                           goalCurrency |-> to]]]
    /\ UNCHANGED <<goal, entry, rate, loose>>

(* Mutant: upsert, which puts a row back that was deleted meanwhile.       *)
WriteUpsert(r) ==
    LET e == req[r].id IN
    /\ At(r, "write")
    /\ entry' = [entry EXCEPT ![e].row = "present"]
    /\ Return(r)
    /\ UNCHANGED <<goal, rate, loose>>

(* updateMany({ id, userId }): the fields of the DTO and, if it has an     *)
(* amount or a currency, the conversion frozen from it and from the entry  *)
(* as it was read before the rate was fetched.  loose records whether the  *)
(* row had changed since.                                                  *)
Write(r) ==
    LET e == req[r].id
        dto == req[r].dto
        changed == AmountOrCurrencyChanged(dto)
        f == Freeze(Next1(dto.amount, req[r].found.amount),
                    Next1(dto.currency, req[r].found.currency),
                    req[r].found.goalCurrency, req[r].fx)
    IN
    /\ At(r, "write")
    /\ entry' = IF ~(Kept(e) /\ entry[e].userId = req[r].user) THEN entry
                ELSE [entry EXCEPT
                        ![e].amount = Column(Next1(dto.amount, @)),
                        ![e].currency = Next1(dto.currency, @),
                        ![e].amountInGoalCurrency =
                            IF changed THEN Column(f.amountInGoalCurrency) ELSE @,
                        ![e].fxRateUsed = IF changed THEN f.fxRateUsed ELSE @]
    /\ loose' = IF ~changed THEN loose
                ELSE IF [amount |-> entry[e].amount, currency |-> entry[e].currency]
                    = [amount |-> req[r].found.amount, currency |-> req[r].found.currency]
                THEN loose \ {e} ELSE loose \cup {e}
    /\ Return(r)
    /\ UNCHANGED <<goal, rate>>

RemoveEntry(u, e) ==
    /\ Kept(e) /\ entry[e].userId = u
    /\ entry' = [entry EXCEPT ![e].row = "deleted"]
    /\ UNCHANGED <<goal, rate, req, loose>>

(* The next daily snapshot. *)
NewRate(x) ==
    /\ x # rate
    /\ rate' = x
    /\ UNCHANGED <<goal, entry, req, loose>>

(* A database error, or the process stops: what is not written is dropped. *)
Fail(r) ==
    /\ ~At(r, "idle")
    /\ Return(r)
    /\ UNCHANGED <<goal, entry, rate, loose>>

-----------------------------------------------------------------------------
Handlers ==
    \/ \E r \in Reqs, u \in Users :
        \/ \E g \in Goals, a \in CreateAmounts, c \in Currencies : Create(r, u, g, a, c)
        \/ CreateSplit(r, u)
    \/ \E r \in Reqs : \/ FindGoals(r)
                       \/ FetchRate(r, "rate", "insert")
                       \/ Insert(r)
                       \/ Fail(r)
    \/ \E u \in Users, g \in Goals, c \in Currencies : CreateGoal(u, g, c)
    \/ \E u \in Users, g \in Goals : RemoveGoal(u, g)
    \/ \E u \in Users, e \in Entries : RemoveEntry(u, e)
    \/ \E x \in Rates : NewRate(x)

Updates ==
    \/ \E r \in Reqs, u \in Users, e \in Entries, dto \in Changes : Update(r, u, e, dto)
    \/ \E r \in Reqs : \/ FindEntry(r)
                       \/ FetchRate(r, "rateForUpdate", "write")
                       \/ Write(r)

Next == Handlers \/ Updates

Spec == Init /\ [][Next]_vars

-----------------------------------------------------------------------------
(* Every entry belongs to a goal that exists and to the owner of that      *)
(* goal: whatever a goal's removal interleaves with, no entry is left, or  *)
(* put, under a goal that is gone or is someone else's.                    *)
EntriesBelong ==
    \A e \in Entries : Kept(e) =>
        /\ Present(entry[e].goalId)
        /\ goal[entry[e].goalId].userId = entry[e].userId

(* What was deleted does not come back, also when an update or a creation  *)
(* that found it first writes after the deletion.                          *)
DeletedStaysDeleted ==
    [][/\ \A e \in Entries : entry[e].row = "deleted" => entry'[e].row = "deleted"
       /\ \A g \in Goals : goal[g].row = "deleted" => goal'[g].row = "deleted"]_vars

(* The frozen amount of an entry is its amount, converted from its         *)
(* currency to the goal's at the rate recorded beside it: the three fields *)
(* describe one conversion.                                                *)
Consistent(e) ==
    LET x == entry[e]
        converted == x.currency # goal[x.goalId].currency
    IN /\ converted <=> x.fxRateUsed # Nothing
       /\ x.amountInGoalCurrency =
              IF converted THEN Convert(x.amount, x.currency, x.fxRateUsed) ELSE x.amount

(* Through creations, splits, updates and new rates, two things only take  *)
(* an entry's conversion apart, until its next update: an update that      *)
(* writes over a change made since it read the entry, and a split amount   *)
(* finer than the column.                                                  *)
FrozenIsConversion == \A e \in Entries \ loose : Kept(e) => Consistent(e)

(* What docs/data-model.md claims of every entry.                          *)
AlwaysConsistent == \A e \in Entries : Kept(e) => Consistent(e)

(* The entries of one split that were converted share one rate, although a *)
(* new rate may arrive at any moment.                                      *)
SplitSharesRate ==
    [][\A e, f \in Entries :
        (~Kept(e) /\ ~Kept(f) /\ entry'[e].row = "present" /\ entry'[f].row = "present"
            /\ entry'[e].fxRateUsed # Nothing /\ entry'[f].fxRateUsed # Nothing)
        => entry'[e].fxRateUsed = entry'[f].fxRateUsed]_vars

(* Every entry saves a positive amount.                                    *)
AmountsPositive == \A e \in Entries : Kept(e) => entry[e].amount > 0

=============================================================================
