CONSTANTS
    Users = {u1, u2}
    Caller = u1
    Callee = u2
    CallIds = {c1}
    Id = c1
    NoTime = NoTime
    RingTimeout = 1
    NegotiationTimeout = 1
    CleanupAfter = 1
    MaxICECandidates = 1
    MaxLag = 0
    QueueSize = 1
    Trickle = {u1}
    MaxOutages = 1
SPECIFICATION FairSpec
CONSTRAINT OneSilent
ACTION_CONSTRAINT TrickledAtFirst
INVARIANTS MediaAfterConsent OfferFits
PROPERTIES BothEnd NegotiationEnds WaitingEnds
CHECK_DEADLOCK FALSE
