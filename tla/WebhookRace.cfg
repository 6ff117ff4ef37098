SPECIFICATION Spec
CONSTANTS
    NoEntry = NoEntry
    User = {ann}
    Worker = {w1, w2}
    TTL = 2
    MaxQueryTicks = 1
    MaxEdits = 2
    MaxFaults = 0
SYMMETRY WorkersAlike
PROPERTIES NextRequestIsRefused
