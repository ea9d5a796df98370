CONSTANTS
    u1 = u1
    u2 = u2
    Users <- MCUsers
    Heartbeat = heartbeat
    HasHeartbeat = TRUE
    Nobody = Nobody
    MaxFaults = 2
    MaxSessions = 10
SPECIFICATION FairSpec
CHECK_DEADLOCK FALSE
INVARIANTS
    NoSessionLeft
    ClosedForGood
    ReconnectsAreBounded
PROPERTIES
    CallsEnd
    HeartbeatReconnects
