SPECIFICATION EqSpec
CONSTANTS
    Times = {1, 2, 3}
    Actions <- MCActions
    max_events = 0
    LaterOnly = FALSE
    MaxId = 4
    MaxDepth = 2
    NoTime = NoTime
    NoEvent = NoEvent
PROPERTY OnlyServedLeaves
