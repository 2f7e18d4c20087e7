CONSTANTS
    Senders = {s1, s2}
    Reader = reader
    Nobody = Nobody
    QueueSize = 1
SPECIFICATION FairSpec
INVARIANT NoSilentClose
PROPERTIES EverySendReturns LoopsStop LossReported
CHECK_DEADLOCK FALSE
