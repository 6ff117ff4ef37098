SPECIFICATION Spec
CONSTANTS
    Browser = {b1, b2}
    Account = {ann, bob}
    Uuid = {ann}
    Confirmed = {ann, bob}
    Mail = {m1, m2, m3}
    None = None
    MayMigrate = FALSE
    MaxFlows = 2
    MaxExchanges = 2
    MaxPages = 2
    MaxChanges = 2
    MaxFaults = 1
SYMMETRY Alike
CHECK_DEADLOCK FALSE
INVARIANTS TypeOK IdsNameUsers SessionsComeFromOwnLogins OldPagesAreRefused NobodyIsLockedOut
