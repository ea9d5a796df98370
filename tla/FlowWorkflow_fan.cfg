CONSTANTS
    u1 = u1
    u2 = u2
    a = a
    b = b
    c = c
    h1 = h1
    h2 = h2
    d = d
    fork = fork
    join = join
    Users = {u1}
    Activities <- FanActivities
    Gateways = {join}
    First <- FanFirst
    Links <- FanLinks
    Automatic = {b, c, join, d}
    Operates <- FanOperates
    Actions = {"FORWARD"}
    Intents <- FanIntents
    MaxFaults = 0
    NoNode = NoNode
    Nobody = Nobody
SPECIFICATION Spec
PROPERTIES
    InOrder
