CONSTANTS
    r1 = r1
    r2 = r2
    m1 = m1
    m2 = m2
    l1 = l1
    l2 = l2
    g1 = g1
    g2 = g2
    Registrars <- MCRegistrars
    Unregistrars = {u1}
    Methods <- MCMethods
    Careful = TRUE
    Listeners <- MCListeners
    Removes <- MCRemoves
    Matchers = {c1}
    Nil = Nil
    Nobody = Nobody
    Topic = m1
    Others <- MCOthers
    Holders <- MCHolders
    NoReply = NoReply
SPECIFICATION BusSpec
SYMMETRY MCSymmetry
CHECK_DEADLOCK FALSE
INVARIANTS
    RegisteredOnce
    SlotListsListeners
    MatchIsRegular
    FirstReplyWins
    CallIsAnswered
