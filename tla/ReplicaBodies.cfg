SPECIFICATION MCSpec
CONSTANTS
    Plans = {"messages"}
    root = root
    child = child
    leaf = leaf
    loc = loc
    body = body
    msg = msg
    ctl = ctl
    ann = ann
    bob = bob
    a1 = a1
    a2 = a2
    TreeTime = 2
    BodyLife = 2
    None = None
    Roots = {root}
    Children = {child, leaf}
    Objects = {loc, body, msg, ctl}
    Identities = {ann, bob}
    Accesses = {a1, a2}
    Kind <- KindOf
    BodyOf <- BodyOfLocator
    Subjects <- SubjectsOf
    Peer <- PeerOf
    Lifetime <- LifetimeOf
    Quota <- QuotaOf
    IssuedAt <- Issued
    Meta = 1
    Never = 99
    LocatorLife = 4
    RequestLife = 1
    ProofLife = 2
    AcceptLife = 3
    AccessLife = 2
    MaxNonces = 2
    MaxChildren = 2
    MaxTime = 5
INVARIANT
    FiniteBodiesEnd
CHECK_DEADLOCK FALSE
