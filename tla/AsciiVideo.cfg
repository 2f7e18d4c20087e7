CONSTANTS
    CellCount = 2
    Cell = {x, y}
    MaxRun = 3
    EntrySize = 0
    MaxSize = 5
    KeyInterval = 3
    MaxInFlight = 2
    MaxLate = 1
    MaxRequests = 1
    NoFrame = NoFrame
SPECIFICATION FairSpec
INVARIANTS RoundTrip PictureFaithful
PROPERTY FreezeEnds
