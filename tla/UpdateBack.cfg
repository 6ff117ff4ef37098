SPECIFICATION Spec
CONSTANTS
    a = a
    b = b
    c = c
    x = x
    y = y
    secret = secret
    banned = banned
    s1 = s1
    s2 = s2
    None = None
    Project = {1, 2}
    Name = {a, b, c}
    Text = {x, y, secret, banned}
    RelType = {"uses", "supersedes"}
    Session = {s1, s2}
    Seed <- MCSeed
    Scrub <- MCScrub
    Refused = {banned}
    Client = {c1}
    Request <- BackAndForth
    Deletion = {}
    MaxConns = 1
    MaxRequests = 2
PROPERTIES UpdateTakesEffect
CHECK_DEADLOCK FALSE
