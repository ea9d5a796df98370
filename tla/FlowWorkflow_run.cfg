CONSTANTS
    u1 = u1
    u2 = u2
    a = a
    b = b
    c = c
    h1 = h1
    h2 = h2
    d = d
    fork = fork
    join = join
    Users = {u1, u2}
    Activities <- MCActivities
    Gateways = {fork, join}
    First <- MCFirst
    Links <- MCLinks
    Automatic = {fork, join, d}
    Operates <- MCOperates
    Actions = {"FORWARD", "BACK", "TERMINATE", "RESTART"}
    Intents <- MCIntents
    MaxFaults = 1
    NoNode = NoNode
    Nobody = Nobody
SPECIFICATION FairSpec

INVARIANTS
    HandledOnce
PROPERTIES
    InOrder
    InstanceEnds
