\* One device each of three people, one of whom has just been made an owner.
CONSTANTS
    pat = pat  mia = mia  ned = ned
    p1 = p1  p2 = p2  m1 = m1  m2 = m2  n1 = n1
    door = door  gate = gate
    NoDevice = NoDevice  NoInvitation = NoInvitation
    Persons = {pat, mia, ned}
    Primary = pat
    SpaceDevices = {p1, m1, n1}
    FirstDevice = p1
    HolderOf <- Holders
    LinkedBy <- Links
    Invitations = {door}
    FirstInvitation = door
    Elsewhere = {}
    RowLimit = 5
    JournalLimit = 3
    MaxHeads = 4
    SpacePlans = {"owners"}
SPECIFICATION MCSpaceSpec
INVARIANTS
    JournalReplays
CHECK_DEADLOCK FALSE
