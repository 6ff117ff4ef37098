SPECIFICATION Spec
CONSTANTS
    a = a
    b = b
    c = c
    x = x
    y = y
    z = z
    s1 = s1
    r1 = r1
    r2 = r2
    None = None
    Project = {1, 2}
    Name = {a, b, c}
    Text = {x, y, z}
    RelType = {"uses", "supersedes"}
    Session = {s1}
    Seed <- MCSeed
    Reader = {r1, r2}
    Query <- MCQuery
    Mix <- MCMix
    Change <- MCChange
    Rank <- MCRank
    Distance <- MCDistance
    Embedded = {x, y, z}
    Likeness <- MCLikeness
    MinSim = 70
    TopK = 1
    Spread = 1
    SearchLimit = 2
    DefaultLimit = 2
    MaxLimit = 2
    MaxOffset = 5
    CentroidTTL = 1
    MaxCallTicks = 2
    MaxTime = 5
INVARIANTS TypeOK AnswersAreOfTheirTime AnswersHangTogether AnswersOmitNothing PagesMissNothing ClosestConflictIsReported SuggestionsAreRecent
SYMMETRY Alike
CHECK_DEADLOCK FALSE
