SPECIFICATION Spec
CONSTANTS
    \* One zone, two references: a dip, a replacement and a rebound queue behind a write, a
    \* proposal outlives its pair.
    Zones = {z1}
    Devices = {d1, d2}
    MaxMeter = 2
    MaxValue = 2
    MaxEpoch = 1
    MaxRefs = 2
    MaxQueue = 2
    MaxTokens = 1
    NoBinding = NoBinding
    NoToken = NoToken
    NoOp = NoOp
INVARIANTS
    NeverSilentlyRepaired
    ResetsStay
PROPERTY
    SendsTruth
SYMMETRY Symmetry
