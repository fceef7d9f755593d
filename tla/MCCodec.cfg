CONSTANTS
    MaxPayload = 3
    Payloads <- MCPayloads
    Bytes <- MCBytes
    MaxFrames = 3
    MaxFaults = 1
SPECIFICATION Spec
CHECK_DEADLOCK FALSE
INVARIANTS
    FramesAreGenuine
    IntactFramesSurvive
    LessThanAFrameWaits
PROPERTIES
    IsALossyLink
