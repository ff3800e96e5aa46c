SPECIFICATION FairSpec
CONSTANTS
    Members = {c1, c2}
    MaxEntries = 4
    Failing = {1, 2}
    HandleTime = 2
    MinIdle = 3
    BlockTime = 1
    ReadCount = 2
    Scan = 3
    MaxFaults = 1
    MaxCrashes = 1
    MaxLosses = 1

PROPERTY ImplementsBroker
INVARIANT DisjointBatches
PROPERTY PublishedIsHandled
