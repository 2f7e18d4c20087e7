CONSTANTS
    Users = {u1, u2}
    CallIds = {c1}
    NoTime = NoTime
    RingTimeout = 1
    NegotiationTimeout = 1
    CleanupAfter = 1
    MaxICECandidates = 1
    MaxLag = 0
    Conns = {k1, k2, k3}
    NoConn = NoConn
    NoUser = NoUser
    NoCall = NoCall
    Sweeper = Sweeper
    Signals = {"ACCEPT", "DECLINE", "CANCEL", "OFFER", "ANSWER", "ICE", "ICE_COMPLETE", "END"}
    QueueSize = 1
SPECIFICATION Spec
CONSTRAINT Steady
ACTION_CONSTRAINTS EndsAtOnce GetsReady
SYMMETRY Interchangeable
INVARIANTS TypeOK RegistryOwned EveryCallWatched
CHECK_DEADLOCK FALSE
