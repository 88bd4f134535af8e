SPECIFICATION Spec
CONSTANTS
    GoalIds = {1, 2}
    EntryIds = {1, 2}
    LastDay = 1
    Quote <- RisingQuote
    Targets = {2500, 4000}
    Amounts = {1500}
    GoalRows <- SmallGoals
    GoalEdits <- PutOff
    EntryDates = {0, 1}
    Settings <- SmallSettings
    PageSize = 1
    RecentLimit = 1
    MaxOverlap = 1
    Nothing = Nothing
INVARIANTS
    TypeOK
    FiguresAgree
    BudgetAddsUp
    FiguresWereTrue
    RatesAreDated
    PagesComplete
