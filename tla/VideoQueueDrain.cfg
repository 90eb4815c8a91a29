\* The drain: two displays, frames of up to the largest admissible size, and two barriers.
\* Two large frames leave no byte for a barrier; two small ones and a barrier no slot.
SPECIFICATION FairSpec
CONSTANTS
    DISPLAYS = 2
    CONTROL_RESERVE = 1
    TRACK_FRAMES = 1
    TRACKS = 2
    MAX_FRAME_BYTES = 3
    MAX_BYTES = 6
    QUANTUM = 1
    MAX_REFRESHES = 0
    FrameSizes = {2, 3}
    BarrierSizes = {1}
    Selections = {}
    MaxStreams = 2
    MaxFrame = 1
    MaxBarriers = 2
INVARIANT NoLostWakeup
PROPERTIES EveryEntrySettles BarrierReserve
CHECK_DEADLOCK FALSE
