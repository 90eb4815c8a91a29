\* Room for two deltas, a stream of four frames.
SPECIFICATION Spec
CONSTANTS
    MOVIE_VIDEO_QUEUE_MAX_FRAMES = 2
    MaxFrame = 4
INVARIANT OrphansDiscarded
CHECK_DEADLOCK FALSE
