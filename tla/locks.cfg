SPECIFICATION Spec
CONSTANTS
    empty = empty
    short = short
    long = long
    ent1 = ent1
    ent2 = ent2
    Extract <- MCExtract
    Docs = {doc1}
    Texts = {long}
    Entities = {ent1, ent2}
    Categories = {org, person}
    Clients = {u1, u2}
    Extractors = {x1, x2}
    Classifiers = {k1, k2}
    MaxRequests = 2
    MaxTime = 1
CHECK_DEADLOCK FALSE
SYMMETRY SessionSymmetry
INVARIANT TokenLockFencesRun
PROPERTY ImplementsResults
INVARIANT NoStandstill
INVARIANT DurationsAreHonest
