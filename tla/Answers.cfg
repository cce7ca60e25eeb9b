SPECIFICATION MCSpec
CONSTANTS
    \* Replies about two zones, a user and an account that may be withdrawn.
    Count = 2
    Register = 10
    Accounts = {a1}
    Users = {u1}
    Contexts <- MCContexts
    Readings <- MCReadings
    PhotoSizes = {0}
    Sources = {FALSE}
    DraftLimit = 2
    PhotoBudget = 1
    Revocable = {u1}
    Unlinkable = {a1}
    MaxTokens = 2
    MaxAttempts = 2
    RepeatedCancel = FALSE
    NotLoaded = NotLoaded
    NoTask = NoTask
    NoOutcome = NoOutcome
    NoSignature = NoSignature
    \* The timer and the button, two published units of time and the end of the day.
    Groups = {g1}
    Refreshes = {timer, user}
    Schedules <- MCSchedules
    Horizon = 3
    Straddles = FALSE
    NoSchedule = NoSchedule
    NoReading = NoReading
    NoGroups = NoGroups
    NoTick = NoTick
INVARIANTS
    TruthfulJournal
    OneAttemptPerConfirmation
    ShownIsVerified
    ReportsAreNews
PROPERTIES
    AuthorizedSend
SYMMETRY Interchangeable
