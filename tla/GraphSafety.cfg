SPECIFICATION Spec
CONSTANTS
    a = a
    b = b
    c = c
    x = x
    y = y
    secret = secret
    banned = banned
    s1 = s1
    s2 = s2
    None = None
    Project = {1, 2}
    Name = {a, b, c}
    Text = {x, y, secret, banned}
    RelType = {"uses", "supersedes"}
    Session = {s1, s2}
    Seed <- MCSeed
    Scrub <- MCScrub
    Refused = {banned}
    Client = {c1, c2}
    Request <- MCRequest
    Deletion <- MCDeletion
    MaxConns = 2
    MaxRequests = 3
SYMMETRY ClientsAlike
INVARIANTS TypeOK UniqueKeys ForeignKeys RelationsStayInProject WorkInv
PROPERTIES AnswersAreExact Implements
CHECK_DEADLOCK FALSE
