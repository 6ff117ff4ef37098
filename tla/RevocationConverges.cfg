SPECIFICATION FairSpec
CONSTANTS
    NoEntry = NoEntry
    User = {ann}
    Worker = {w1}
    TTL = 1
    MaxQueryTicks = 1
    MaxEdits = 2
    MaxFaults = 1
PROPERTIES TableFollowsProvider CacheFollowsTable
