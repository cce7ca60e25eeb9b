SPECIFICATION Spec
CONSTANTS
    Count = 1
    Register = 10
    Accounts = {a1, a2}
    Users = {u1, u2}
    Contexts <- OneContext
    Readings <- OneReading
    PhotoSizes = {0}
    Sources = {FALSE}
    DraftLimit = 2
    PhotoBudget = 1
    Revocable = {}
    Unlinkable = {}
    MaxTokens = 2
    MaxAttempts = 2
    NotLoaded = NotLoaded
    NoTask = NoTask
    NoOutcome = NoOutcome
    NoSignature = NoSignature
    RepeatedCancel = FALSE
INVARIANTS
    TypeOK
    DurableBarrier
PROPERTIES
    KeepsBarrier
SYMMETRY Symmetry
