\* Two connections ask for different capture backends at the same time.
SPECIFICATION Spec
CONSTANTS
    Displays = {0}
    CAPTURERS = 1
    Backends = {"Wgc"}
    Contexts = {"user"}
    Preferences = {"Auto", "Gdi"}
    Connections = {c1, c2}
    ABANDONED_TIMEOUT = 2
    FIRST_COOLDOWN = 1
    SECOND_COOLDOWN = 2
    MAX_FAILURES = 3
    MAX_STARTING = 1
    MAX_KEYS = 2
    U64_MAX = 4
    MaxTime = 0
    MaxChanges = 2
INVARIANTS GateFollowsPreference
CHECK_DEADLOCK FALSE
