SPECIFICATION Spec
CONSTANTS
    LocalHellos <- MCLocalHellos
    Offers <- MCOffers
    RawFrames <- MCRawFrames
    Events <- MCEvents
    Clickable <- MCClickable
    IdModulus = 2
    MaxUp = 3
    MaxAhead = 1
    MaxUnread = 2
    MaxEvents = 2
    NoFrame = NoFrame
INVARIANTS
    TypeOK
    HandledAsSent
    OwnFramesKeepSession
    EventsAreSent
    AcksMatch
    GesturesFollowEvents
PROPERTIES
    HeartbeatAnswered
CHECK_DEADLOCK FALSE
