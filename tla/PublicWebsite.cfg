SPECIFICATION MCSpec
CONSTANTS
    \* The pauses 1, 2, 4, 8, 10 of the code, hints up to 12 instead of 60.
    Callers = {c1, c2, c3}
    Base = 1
    Cap = 10
    HintCap = 12
    Hints <- MCHints
    Spacing = 1
    MaxDuration = 1
    Pauses <- MCPauses
    Nobody = Nobody
    \* Overlapping refreshes of one address, two published versions.
    Refreshes = {timer, user}
    MaxVersion = 2
    MaxMalformed = 1
    NoOp = NoOp
INVARIANT PausesAreExact
PROPERTIES OperationsKeepDistance RequestsAreSound VerifiedIsCurrent OperationsEnd
