CONSTANTS
    s1 = s1
    s2 = s2
    friend = friend
    stranger = stranger
    e1 = e1
    e2 = e2
    u1 = u1
    v1 = v1
    g1 = g1
    WakePlans = {"messages"}
    Scopes = {s1, s2}
    Events = {e1, e2, u1, v1}
    Rings = {g1}
    Senders = {friend, stranger}
    Brief = {e2}
    ScopeOf <- MCScopeOf
    SenderOf <- MCSenderOf
    Until <- MCUntil
    Policies <- MCPolicies
    LedgerLife = 2
    RingLife = 1
    RingMargin = 1
    GateWait = 1
    UntrustedGap = 1
    QueueLimit = 2
    EventLimit = 3
    MaxWakeTime = 3
    MaxRegistrations = 2
SPECIFICATION MCWakeSpec
INVARIANT
    UnknownTakeNoAlert
CHECK_DEADLOCK FALSE
