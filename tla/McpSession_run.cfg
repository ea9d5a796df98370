CONSTANTS
    c1 = c1
    h1 = h1
    k1 = k1
    r1 = r1
    NoCall = NoCall
    AppCalls <- MCAppCalls
    HandlerCalls <- MCHandlerCalls
    Closers <- MCClosers
    Inbound <- MCInbound
    MaxFrames = 3
SPECIFICATION FairSpec
CHECK_DEADLOCK FALSE
INVARIANTS
    ReplyIsMine
    PumpNeverBlocks
    NoPendingLeak
PROPERTIES
    KeepsFairPromise
    EndReleasesCalls
    ResponseReleasesCall
