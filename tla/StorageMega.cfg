\* A provider whose helper outlives the request it works for.
CONSTANTS
    s1 = s1  o1 = o1  owner = owner  member = member  w1 = w1  w2 = w2  None = None
    r1 = r1  r2 = r2  r3 = r3  r4 = r4  r5 = r5  r6 = r6  r7 = r7  r8 = r8
    Spaces = {s1}
    Objects = {o1}
    SpaceOf <- HomeOf
    Devices = {owner, member}
    Heads = {1}
    Roles <- RolesAt
    Requests = {r1, r2}
    Body <- SignedBodies
    FirstExpiry = 1
    LastExpiry = 3
    Workers = {w1}
    MaxSpaces = 1
    MaxProviders = 2
    MaxObjects = 1
    LeaseLife = 1
    TransferLife = 2
    PutLife = 2
    HelperLife = 2
    Detached = TRUE
    BusyLife = 2
    ReceiptGrace = 0
    Batch = 1
    MaxPosition = 1
    MaxRestarts = 0
    MaxTime = 3
SPECIFICATION Spec
INVARIANTS
    NoOrphans
SYMMETRY Symmetric
CHECK_DEADLOCK FALSE
