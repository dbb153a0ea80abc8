\* Restores and retries in one plan, clock steps in the other.
CONSTANTS
    s1 = s1  s2 = s2  c1 = c1  c2 = c2  c3 = c3  c4 = c4
    NoHead = NoHead
    Plans = {"restoring", "clocks"}
    Spaces = {s1, s2}
    Commands = {c1, c2, c3, c4}
    CommandBody <- Bodies
    Skew = 1
    NonceRetention = 0
    ActivationLife = 1
    MaxDocuments = 2
    MaxEvents = 3
    MaxStarts = 2
    MaxTime = 3
    MaxElapsed = 2
SPECIFICATION MCSpec
INVARIANTS
    OneJournal
    RepliesCurrent
    NoncesSpaced
    TimesSound
CHECK_DEADLOCK FALSE
