CONSTANTS
    Calls = {c1}
    Windows = {w1, w2}
    NoCall = NoCall
    ReconnectMin = 1
    ReconnectMax = 3
    MaxConn = 2
    MaxAttempts = 4
SPECIFICATION FairSpec
INVARIANTS NoStuckClaim OneSpeaker DiscardedOnLoss BackoffDoubles
PROPERTIES OwnConnection CutWindowEnds WindowLearns
