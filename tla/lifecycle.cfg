SPECIFICATION FairSpec
CONSTANTS
    Services = {s1, s2, s3}
    Apis = {s1}
    Files = 2
    MaxAttempts = 2

INVARIANT MigrationInv
INVARIANT OneCreator
INVARIANT RunsOnFullSchema
PROPERTY LockIsReleased
PROPERTY ComesUpOrExits
PROPERTY StopsWhenTold
