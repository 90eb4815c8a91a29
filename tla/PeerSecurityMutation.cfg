\* Two ids that may or may not share an identity, from every initial store.
SPECIFICATION FairSpec
CONSTANTS
    Ids = {i1, i2}
    Identities = {k1, k2}
    NONE = NONE
    MaxMutations = 2
    MaxPairings = 2
    MaxFaults = 2
INVARIANTS WriteAhead IdentityForgotten
PROPERTIES AtomicForget PendingResolves
