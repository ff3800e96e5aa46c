SPECIFICATION FairSpec
CONSTANTS
    empty = empty
    short = short
    long = long
    ent1 = ent1
    ent2 = ent2
    Docs = {doc1}
    Texts = {empty, short}
    Entities = {ent1}
    Extract <- MCExtract
    Categories = {org}
    Extractors = {x1, x2}
    Classifiers = {k1}
    Relays = {r1}
    ReadCount = 1
    BatchSize = 1
    MaxSubmits = 2
    MaxEnqueues = 0
    MaxAborts = 0
INVARIANT StampsFollowStage
INVARIANT CompletionIsMarked
PROPERTY SettledIsFinal
PROPERTY WorkCompletes
