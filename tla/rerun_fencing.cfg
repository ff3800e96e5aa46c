SPECIFICATION OperatorSpec
CONSTANTS
    empty = empty
    short = short
    long = long
    ent1 = ent1
    ent2 = ent2
    Extract <- MCExtract
    Docs = {doc1}
    Texts = {empty, short}
    Entities = {ent1}
    Categories = {org}
    Extractors = {x1, x2}
    Classifiers = {k1}
    Relays = {r1}
    ReadCount = 1
    BatchSize = 2
    MaxSubmits = 2
    MaxEnqueues = 3
    MaxAborts = 0
SYMMETRY ProcessSymmetry
INVARIANT TypeOK
INVARIANT RunsDoNotMix
INVARIANT CompletedIsComplete
INVARIANT StoreInv
INVARIANT DeliveryInv
INVARIANT NoLostDocument
PROPERTY ImplementsResults
