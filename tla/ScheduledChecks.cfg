SPECIFICATION FairSpec
CONSTANTS
    \* Two accounts, one day, a limit of one run in the history.
    Accounts = {a, b}
    LastDay = 1
    CheckDays <- EveryDay
    Outcomes = {"ready", "blocked"}
    HistoryLimit = 1
    MaxWaiting = 1
    EarlyPress = FALSE
    NoAccount = NoAccount
    NoRecovery = NoRecovery
INVARIANT JournalIsTrue
PROPERTIES ReservationsStay DueIsChecked
