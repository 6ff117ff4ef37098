SPECIFICATION Spec
CONSTANTS
    Stdio = Stdio
    Client = {ip}
    Caller = {c1, c2, c3}
    Cost = 2
    Burst = 2
    IdleTicks = 7
    MaxCallTicks = 1
    MaxDebt = 6
SYMMETRY CallersAlike
INVARIANTS TypeOK RateBound StdioOwesNothing
