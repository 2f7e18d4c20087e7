CONSTANTS
    Users = {u1, u2, u3}
    CallIds = {c1, c2}
    NoTime = NoTime
    RingTimeout = 2
    NegotiationTimeout = 1
    CleanupAfter = 1
    MaxICECandidates = 1
    MaxLag = 1
SPECIFICATION ManagerFairSpec
INVARIANTS ManagerTypeOK BusyConsistent SweepCanFinish
PROPERTIES TerminalIsFinal TimeoutOnlyWhenDue BudgetOnlyByRestart ImplementsContract
PROPERTIES SetupResolves TerminalIsCleaned
