SPECIFICATION Spec
CONSTANTS
    GoalIds = {1, 2}
    EntryIds = {1, 2}
    LastDay = 2
    Quote <- RisingQuote
    Targets = {2500, 4000}
    Amounts = {1500}
    GoalRows <- SmallGoals
    GoalEdits <- PutOff
    EntryDates = {0, 1}
    Settings <- OverspentSettings
    PageSize = 1
    RecentLimit = 1
    MaxOverlap = 1
    Nothing = Nothing
INVARIANTS
    IncomeReconciles
    FullHasNoGap
