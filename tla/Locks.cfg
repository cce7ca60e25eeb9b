SPECIFICATION FairSpec
CONSTANTS
    \* Two users of one account: tasks cancelled again, a draft whose photos make another go.
    Count = 1
    Register = 10
    Accounts = {a1}
    Users = {u1, u2}
    Contexts <- OneContext
    Readings <- OneReading
    PhotoSizes = {0, 1}
    Sources = {TRUE}
    DraftLimit = 2
    PhotoBudget = 1
    Revocable = {u1}
    Unlinkable = {a1}
    MaxTokens = 2
    MaxAttempts = 1
    RepeatedCancel = TRUE
    NotLoaded = NotLoaded
    NoTask = NoTask
    NoOutcome = NoOutcome
    NoSignature = NoSignature
INVARIANT
    DraftBudget
PROPERTY
    LocksAreFreed
