\* Two conversations and memory for one proof.
CONSTANTS
    s1 = s1  s2 = s2  g1 = g1  g2 = g2  f2 = f2  x3 = x3  h1 = h1  h2 = h2  r1 = r1  m1 = m1
    m2 = m2  m3 = m3  m4 = m4  m5 = m5  m6 = m6  None = None
    Ancestors <- History
    Recoveries <- Recovered
    Recovery <- LastRecovery
    CommandBody <- Bodies
    FirstExpiry = 3
    LastExpiry = 3
    Scopes = {s1, s2}
    Configs = {g1, g2, f2, x3, h1, h2}
    Commands = {m1, m2, m5}
    MaxScopes = 2
    MaxProofs = 1
    IdleTime = 1
    MaxJobs = 2
    MaxRestarts = 1
    MaxTime = 2
SPECIFICATION Spec
INVARIANTS
    ProofCacheBounded
