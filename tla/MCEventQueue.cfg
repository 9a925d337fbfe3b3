SPECIFICATION EqSpec
CONSTANTS
    Times = {1, 2, 3}
    Actions <- MCActions
    max_events = 0
    LaterOnly = TRUE
    MaxId = 4
    MaxDepth = 2
    NoTime = NoTime
    NoEvent = NoEvent
INVARIANTS EqTypeOK DescriptorsAccounted
PROPERTY QueueImplemented
