SPECIFICATION Spec
CONSTANTS
    empty = empty
    short = short
    long = long
    ent1 = ent1
    ent2 = ent2
    Extract <- MCExtract
    Docs = {doc1}
    Texts = {long}
    Entities = {ent1, ent2}
    Categories = {org, person}
    Extractors = {x1}
    Classifiers = {k1, k2}
    Relays = {r1, r2}
    ReadCount = 1
    BatchSize = 1
    MaxSubmits = 1
    MaxEnqueues = 0
    MaxAborts = 1
SYMMETRY DataSymmetry
INVARIANT ProgressIsExact
INVARIANT NoLostToken
PROPERTY FinishedWorkIsKept
