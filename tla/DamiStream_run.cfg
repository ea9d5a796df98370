CONSTANTS
    Listeners = 2
    Async = {1}
    MaxItems = 2
    Capacity = 2
SPECIFICATION FairSpec
CHECK_DEADLOCK FALSE
INVARIANTS
    ErrorIsLast
    NothingIsLost
PROPERTIES
    OnlyLatePushPanics
    CancelEndsStream
    CompletionEndsStream
