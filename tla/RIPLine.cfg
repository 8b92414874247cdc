CONSTANTS
    o = o
    a = a
    b = b
    Nodes = {o, a, b}
    Links <- Line
    Owner = o
    OwnerPeer = a
    INFINITY = 4
    Commands = 2
    Losses = 1
    Races = {"check", "late"}
SPECIFICATION FairSpec
INVARIANTS TypeOK NeverTooGood NoLoops
PROPERTIES Settles RoutesStay
