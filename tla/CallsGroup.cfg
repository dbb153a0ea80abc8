\* Three people, their invitations and signals in one group conversation.
CONSTANTS
    ann = ann  bob = bob  cas = cas  a1 = a1  a2 = a2  b1 = b1
    c1 = c1  group = group  direct = direct  key1 = key1  key2 = key2  Nothing = Nothing
    Owner <- DeviceOwner
    Members <- Roster
    Callers <- CallerSets
    DelegationBody <- KeyBodies
    KeyExpiry = 1
    RingTtl = 1
    ParticipantTtl = 2
    EmptyGrace = 1
    MaxDuration = 4
    MaxParticipants = 2
    MaxCameras = 1
    MaxScreens = 0
    MaxRooms = 2
    MaxIds = 3
    MaxEpoch = 3
    MaxSignals = 1
    LastStart = 0
    MaxCallTime = 2
    CallScopes = {group}
    DirectScopes = {}
    Identities = {ann, bob, cas}
    Devices = {a1, b1, c1}
    CallConfigs = {1, 2}
    Delegations = {key1}
SPECIFICATION GroupSpec
INVARIANTS
    GroupCallSound
    SignalsStayInGeneration
