\* Calls in a direct and a group conversation, with three devices, a delegated key and a
\* configuration that drops a device; fences of two conversations, with a fork and a lost
\* recovery in one of them and memory for one fence.
CONSTANTS
    ann = ann  bob = bob  cas = cas  a1 = a1  a2 = a2  b1 = b1
    c1 = c1  group = group  direct = direct  key1 = key1  key2 = key2  Nothing = Nothing
    Owner <- DeviceOwner
    Members <- Roster
    Callers <- CallerSets
    DelegationBody <- KeyBodies
    KeyExpiry = 2
    RingTtl = 1
    ParticipantTtl = 1
    EmptyGrace = 1
    MaxDuration = 2
    MaxParticipants = 3
    MaxCameras = 0
    MaxScreens = 0
    MaxRooms = 2
    MaxIds = 2
    MaxEpoch = 3
    MaxSignals = 0
    LastStart = 1
    MaxCallTime = 3
    CallScopes = {group, direct}
    DirectScopes = {direct}
    Identities = {ann, bob}
    Devices = {a1, a2, b1}
    CallConfigs = {1, 2}
    Delegations = {key1}
    s1 = s1  s2 = s2  g1 = g1  g2 = g2  f2 = f2  x3 = x3  h1 = h1  h2 = h2  r1 = r1  m1 = m1
    m2 = m2  m3 = m3  m4 = m4  m5 = m5  m6 = m6  None = None
    Ancestors <- History
    Recoveries <- Recovered
    Recovery <- LastRecovery
    CommandBody <- Bodies
    FirstExpiry = 1
    LastExpiry = 3
    Scopes = {s1, s2}
    Configs = {g1, g2, f2, x3, h1, h2}
    Commands = {m1, m2, m3, m4, m5, m6}
    MaxScopes = 1
    MaxProofs = 2
    IdleTime = 1
    MaxJobs = 2
    MaxRestarts = 1
    MaxTime = 2
SPECIFICATION ServiceSpec
INVARIANTS
    CallsSound
    FencesSound
    RoomsFenced
    AppliedOnce
PROPERTIES
    AnswersAreTimely
    CallsEnd
    FencesAdvance
