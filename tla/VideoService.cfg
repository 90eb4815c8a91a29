\* Two connections come and go while the run is disturbed three times.
SPECIFICATION FairSpec
CONSTANTS
    Conns = {c1, c2}
    REPEAT_ENCODE_MAX = 2
    LatencyFree = TRUE
    MaxDisturbances = 3
INVARIANTS FirstIsReference Subscribed
PROPERTIES JoinServed StopEnds
