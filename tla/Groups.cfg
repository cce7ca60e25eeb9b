SPECIFICATION MCSpec
CONSTANTS
    \* One dialog with two requests at a time, one change by somebody else.
    Flows = {f1}
    Entries = {e1}
    Calls = {c1, c2}
    MaxConfirms = 2
    MaxChanges = 1
    NoCall = NoCall
    NoReview = NoReview
    Nobody = Nobody
    \* Two cabinets of one house, one of them with its form, two accounts, two groups.
    b1 = b1
    b2 = b2
    Cabinets = {b1, b2}
    Forms = {b1}
    MaxEntries = 2
    MaxOutages = 1
    Number = 2
    MaxPolls = 2
    MaxRefusals = 2
    Groups = {g1, g2}
    MaxMoves = 2
    MaxEdits = 2
    MaxStops = 1
    None = None
    \* One sensor, with a queue of two.
    Zones = {z1}
    Devices = {dev1}
    MaxMeter = 1
    MaxValue = 1
    MaxEpoch = 1
    MaxRefs = 1
    MaxQueue = 2
    MaxProposals = 1
INVARIANTS KnownIsCurrent ConfirmedOnce
PROPERTIES UnlinkedWhenUnused ChoicesStand AccountsSettle GroupsRecover FollowsTheHouse
           ResetNoticed
\* Without a poll or an edit left, a building waits for its user.
CHECK_DEADLOCK FALSE
