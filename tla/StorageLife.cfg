\* Uploads, cancellations, crashes and sweeps while membership changes.
CONSTANTS
    s1 = s1  o1 = o1  owner = owner  member = member  w1 = w1  w2 = w2  None = None
    r1 = r1  r2 = r2  r3 = r3  r4 = r4  r5 = r5  r6 = r6  r7 = r7  r8 = r8
    Spaces = {s1}
    Objects = {o1}
    SpaceOf <- HomeOf
    Devices = {owner, member}
    Heads = {1, 2}
    Roles <- RolesAt
    Requests = {r1, r2, r3, r4, r5, r6}
    Body <- SignedBodies
    FirstExpiry = 1
    LastExpiry = 2
    Workers = {w1, w2}
    MaxSpaces = 1
    MaxProviders = 2
    MaxObjects = 1
    LeaseLife = 1
    TransferLife = 2
    PutLife = 1
    HelperLife = 1
    Detached = FALSE
    BusyLife = 1
    ReceiptGrace = 0
    Batch = 1
    MaxPosition = 2
    MaxRestarts = 1
    MaxTime = 2
SPECIFICATION Spec
SYMMETRY Symmetric
INVARIANTS
    RowsSound
    NoOrphans
PROPERTIES
    WithdrawalHonoured
    ImplementsLife
CHECK_DEADLOCK FALSE
