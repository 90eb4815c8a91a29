\* Two capture runs of two frames, one frame and two control messages on their way;
\* one reissue, one reference and one capture request, short times.  The last capture
\* request and the startup limit fall on the same tick.
SPECIFICATION FairSpec
CONSTANTS
    PROGRESS_TIMEOUT = 1
    REFRESH_COOLDOWN = 1
    REISSUE_MULTIPLIER = 2
    MAX_REISSUES = 1
    CYCLE_COOLDOWN = 2
    SLACK_FRAMES = 0
    REFERENCE_INTERVAL = 1
    DECODE_GRACE = 1
    FIRST_CAPTURE_RETRY = 1
    CAPTURE_RETRY_INTERVAL = 1
    STARTUP_LIMIT = 2
    MAX_REFERENCES = 1
    MAX_CAPTURE_RETRIES = 1
    SCOPED = TRUE
    MaxStreams = 2
    MaxFrame = 2
    MaxInFlight = 1
    MaxControl = 2
INVARIANTS StormBounded StartupBudget
PROPERTIES CyclesEnd StartupResolves
