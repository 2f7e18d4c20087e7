CONSTANTS
    k1 = k1
    k2 = k2
    u1 = u1
    u2 = u2
    Users = {u1, u2}
    CallIds = {c1}
    NoTime = NoTime
    RingTimeout = 1
    NegotiationTimeout = 1
    CleanupAfter = 1
    MaxICECandidates = 1
    MaxLag = 0
    NoConn = NoConn
    NoUser = NoUser
    NoCall = NoCall
    Sweeper = Sweeper
    QueueSize = 1
    Conns = {k1, k2}
    Signals = {"ACCEPT", "OFFER", "ANSWER"}
SPECIFICATION FairSpec
CONSTRAINTS OwnUser OneCaller
ACTION_CONSTRAINT StopsAtWait
PROPERTIES AbandonedCallEnds ShutdownDrains
CHECK_DEADLOCK FALSE
