SPECIFICATION Spec
CONSTANTS
    NoEntry = NoEntry
    User = {ann}
    Worker = {w1, w2}
    TTL = 2
    MaxQueryTicks = 1
    MaxEdits = 2
    MaxFaults = 1
SYMMETRY WorkersAlike
INVARIANTS TypeOK
PROPERTIES RefusalsAreRecent AcceptancesAreRecent RefusedOnceAnnounced
