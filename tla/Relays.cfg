SPECIFICATION RelaysSpec
CONSTANTS
    Plans = {"messages", "tree", "access"}
    root = root
    child = child
    leaf = leaf
    loc = loc
    body = body
    msg = msg
    ctl = ctl
    ann = ann
    bob = bob
    a1 = a1
    a2 = a2
    TreeTime = 2
    BodyLife = 1
    friend = friend
    stranger = stranger
    s1 = s1
    s2 = s2
    e1 = e1
    e2 = e2
    u1 = u1
    v1 = v1
    g1 = g1
    WakePlans = {"messages", "rings", "routes"}
    Scopes = {s1, s2}
    Events = {e1, e2, u1, v1}
    Rings = {g1}
    Senders = {friend, stranger}
    Brief = {e2}
    ScopeOf <- MCScopeOf
    SenderOf <- MCSenderOf
    Until <- MCUntil
    Policies <- MCPolicies
    LedgerLife = 2
    RingLife = 1
    RingMargin = 1
    GateWait = 1
    UntrustedGap = 1
    QueueLimit = 2
    EventLimit = 3
    MaxWakeTime = 3
    MaxRegistrations = 2
    None = None
    Roots = {root}
    Children = {child, leaf}
    Objects = {loc, body, msg, ctl}
    Identities = {ann, bob}
    Accesses = {a1, a2}
    Kind <- KindOf
    BodyOf <- BodyOfLocator
    Subjects <- SubjectsOf
    Peer <- PeerOf
    Lifetime <- LifetimeOf
    Quota <- QuotaOf
    IssuedAt <- Issued
    Meta = 1
    Never = 99
    LocatorLife = 3
    RequestLife = 1
    ProofLife = 2
    AcceptLife = 3
    AccessLife = 2
    MaxNonces = 2
    MaxChildren = 2
    MaxTime = 4
INVARIANTS
    MailboxesSound
    DeletionFinal
    Honoured
    ToldOnce
PROPERTIES
    RetentionKept
    NothingLost
CHECK_DEADLOCK FALSE
