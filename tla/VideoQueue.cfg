\* Two displays, two capture runs of two frames and a barrier compete for slots, bytes and
\* round-robin turns, with losses, display switches and refresh requests.
SPECIFICATION Spec
CONSTANTS
    DISPLAYS = 2
    CONTROL_RESERVE = 1
    TRACK_FRAMES = 2
    TRACKS = 1
    MAX_FRAME_BYTES = 4
    MAX_BYTES = 5
    QUANTUM = 1
    MAX_REFRESHES = 1
    FrameSizes = {2}
    BarrierSizes = {1}
    Selections = {{0}}
    MaxStreams = 2
    MaxFrame = 2
    MaxBarriers = 1
INVARIANTS Budgets BarrierOrder
PROPERTIES DecodableDelivery ForwardDelivery FreshRecovery
CHECK_DEADLOCK FALSE
