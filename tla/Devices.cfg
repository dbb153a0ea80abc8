\* The inbox and store of a device, and the owner-managed Space service.
CONSTANTS
    x = x
    y = y
    Objects = {x, y}
    Own = {x}
    NeedsProof = {y}
    Mirrored = {x}
    PageSize = 1
    MaxSeq = 2
    MaxGeneration = 2
    MaxTroubles = 3
    pat = pat  mia = mia  ned = ned
    p1 = p1  p2 = p2  m1 = m1  m2 = m2  n1 = n1
    door = door  gate = gate
    NoDevice = NoDevice  NoInvitation = NoInvitation
    Persons = {pat, mia}
    Primary = pat
    SpaceDevices = {p1, p2, m1, m2}
    FirstDevice = p1
    HolderOf <- Holders
    LinkedBy <- Links
    Invitations = {door, gate}
    FirstInvitation = door
    Elsewhere <- OtherSpaces
    RowLimit = 2
    JournalLimit = 3
    MaxHeads = 4
    SpacePlans = {"links", "host", "offers"}
SPECIFICATION DevicesSpec
INVARIANTS
    InboxSound
    NoResurrection
    SpaceSound
    HeadsJustified
    IntentsLand
    CommittedReplays
PROPERTIES
    AllReceived
    Restored
    Settled
CHECK_DEADLOCK FALSE
