SPECIFICATION FairSpec
CONSTANTS
    Tasks = {t1, t2}
    MaxFaults = 2
    NoToken = NoToken
    NoTask = NoTask
INVARIANT TypeOK
PROPERTIES RefusalsAreHeeded StyleFound
