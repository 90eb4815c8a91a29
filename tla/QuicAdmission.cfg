\* Three sources below a total of three, two per source, and a retry threshold of two: the
\* load, the source's own tickets and its limit each decide some admission alone.
SPECIFICATION FairSpec
CONSTANTS
    Connections = {c1, c2, c3}
    Sources = {s1, s2, s3}
    MAX_QUIC_PENDING = 3
    MAX_QUIC_PENDING_PER_SOURCE = 2
    QUIC_RETRY_THRESHOLD = 2
    MAX_TRUSTED_PIN_AUTHENTICATIONS = 1
    MAX_FIRST_CONTACT_AUTHENTICATIONS = 1
    LISTENERS = 2
INVARIANTS Counted SpoofingBounded
PROPERTY TicketsReturn
