SPECIFICATION FairSpec
CONSTANTS
    Base = 2
    MaxLen = 2
    Bodies <- SmallBodies
    BadLens <- SmallBadLens
    Parseable <- SmallParseable
    MaxFrames = 3
INVARIANTS FrameInv RestIsShort
PROPERTIES ChannelSpec
CHECK_DEADLOCK FALSE
