SPECIFICATION ApiSpec
CONSTANTS
    empty = empty
    short = short
    long = long
    ent1 = ent1
    ent2 = ent2
    Extract <- MCExtract
    Docs = {doc1}
    Texts = {long}
    Entities = {ent1, ent2}
    Categories = {org}
    Clients = {u1, u2}
    Extractors = {x1, x2}
    Classifiers = {k1}
    MaxRequests = 2
    MaxTime = 0
    Readers = {u1}
    Rank <- MCRank
    Limits = {0, 1}
SYMMETRY WorkerSymmetry
INVARIANT ApiTypeOK
INVARIANT PagesAreExact
INVARIANT CompletedMeansAnswered
