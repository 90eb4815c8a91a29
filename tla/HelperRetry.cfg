\* Two displays, two capturers alive per display, desktop and preference changes.
SPECIFICATION Spec
CONSTANTS
    Displays = {0, 1}
    CAPTURERS = 2
    Backends = {"Wgc"}
    Contexts = {"user", "secure"}
    Preferences = {"Auto", "Gdi"}
    Connections = {c1}
    ABANDONED_TIMEOUT = 2
    FIRST_COOLDOWN = 1
    SECOND_COOLDOWN = 2
    MAX_FAILURES = 3
    MAX_STARTING = 1
    MAX_KEYS = 2
    U64_MAX = 3
    MaxTime = 3
    MaxChanges = 1
INVARIANTS TypeOK AttemptsOwned RestartHonoured
PROPERTIES BackOffKept LeaseIsolation
CHECK_DEADLOCK FALSE
