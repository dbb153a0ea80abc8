\* Four plans: memberships (two), admissions in time, a journal that fills up.
CONSTANTS
    s1 = s1  s2 = s2  s3 = s3  alice = alice  bob = bob  carol = carol  a1 = a1
    b1 = b1  b2 = b2  b3 = b3  b4 = b4  c1 = c1  p1 = p1  p2 = p2  r1 = r1  NoOne = NoOne
    Primary = alice
    Founder = a1
    IdentityOf <- IdentityOfCreds
    KeyOf <- KeyOfCreds
    AuthorizerOf <- AuthorizerOfCreds
    PolicyBody <- PolicyBodies
    RequestBody <- RequestBodies
    Spaces = {s1, s2, s3}
    Identities = {alice, bob, carol}
    Creds = {a1, b1, b2, b3, b4, c1}
    CapSets <- BothCapSets
    Rosters <- MembershipRosters
    PolicyIds = {p1, p2}
    RequestIds = {r1}
    ChallengeLife = 1
    Retention = 0
    MaxPolicies = 1
    MaxOpen = 1
    NormalEvents = 2
    ReservedEvents = 3
    JournalEvents = 7
    MaxSpaces = 3
    MaxTime = 2
    Plans = {"linked", "others", "admission", "capacity"}
SPECIFICATION MCSpec
INVARIANTS
    TablesSound
    RemovedStayOut
    OldGrantsStayDead
    InvitationsNeverMakeOwners
    RevocationHeadroom
PROPERTIES
    RevokedIsFinal
CHECK_DEADLOCK FALSE
