\* A queue in which two reports wait behind a view.
SPECIFICATION Spec
CONSTANTS
    Zones = {z1}
    Devices = {d1}
    MaxMeter = 2
    MaxValue = 2
    MaxEpoch = 1
    MaxRefs = 1
    MaxQueue = 3
    MaxTokens = 1
    NoBinding = NoBinding
    NoToken = NoToken
    NoOp = NoOp
INVARIANT ResetsAreReal
