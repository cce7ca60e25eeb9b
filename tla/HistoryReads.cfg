SPECIFICATION FairSpec
CONSTANTS
    Accounts = {a}
    Readers = {r1, r2}
    MaxAttempts = 1
    CacheSize = 1
    LimitSize = 1
    NoRead = NoRead
    NoPost = NoPost
    NoAttempt = NoAttempt
INVARIANT CacheIsAfterSubmission
PROPERTIES TruthfulReadback RequestsEnd
