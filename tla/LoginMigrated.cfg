SPECIFICATION Spec
CONSTANTS
    Browser = {b1, b2}
    Account = {ann, bob}
    Uuid = {ann}
    Confirmed = {ann, bob}
    Mail = {m1, m2, m3}
    None = None
    MayMigrate = TRUE
    MaxFlows = 2
    MaxExchanges = 2
    MaxPages = 2
    MaxChanges = 1
    MaxFaults = 1
SYMMETRY Alike
CHECK_DEADLOCK FALSE
INVARIANT NobodyIsLockedOut
