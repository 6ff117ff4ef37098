SPECIFICATION Spec
CONSTANTS
    a = a
    b = b
    x = x
    y = y
    s1 = s1
    d1 = d1
    d2 = d2
    o1 = o1
    o2 = o2
    None = None
    Project = {1, 2}
    Global = 1
    Name = {a, b}
    Text = {x, y}
    RelType = {"uses", "supersedes"}
    Session = {s1}
    Seed <- MCSeed
    Db = {d1, d2}
    Fresh = {d2}
    Operator = {o1}
    Change <- MCChange
    Sheet <- MCSheet
    FixtureNodes <- MCFixtureNodes
    FixtureRelations <- MCFixtureRelations
    Errand <- MCCopy
    MaxWrites = 0
    MaxJobs = 2
INVARIANTS RelationsStayInProject
CHECK_DEADLOCK FALSE
