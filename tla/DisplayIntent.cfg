\* Two views on three displays, one of which the host does not have.
SPECIFICATION FairSpec
CONSTANTS
    Displays = {0, 1, 9}
    Available = {0, 1}
    Primary = 0
    Views = {v1, v2}
    NONE = NONE
    RefreshReplacement = TRUE
    MaxQueue = 2
    MaxChanges = 4
    MaxRounds = 2
INVARIANTS TypeOK Settled
PROPERTIES SwitchAddsNothing Converges
