CONSTANTS
    Events = {e1, e2}
    Handlers = {h1, h2}
    MaxRetries = 1
    Capacity = 1
    Window = 1
    MaxFanouts = 3
SPECIFICATION FairSpec
INVARIANTS
    DedupWithinWindow
    OneFate
PROPERTIES
    LettersLeaveForCause
    PublishersReturn
CHECK_DEADLOCK FALSE
