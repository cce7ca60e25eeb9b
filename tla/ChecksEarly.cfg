SPECIFICATION Spec
CONSTANTS
    Accounts = {a}
    LastDay = 1
    CheckDays <- EveryDay
    Outcomes = {"ready", "blocked"}
    MaxWaiting = 1
    EarlyPress = TRUE
    HistoryLimit = 1
    NoAccount = NoAccount
    NoRecovery = NoRecovery
INVARIANT
    OncePerDay
