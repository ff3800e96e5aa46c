SPECIFICATION RefusingSpec
CONSTANTS
    empty = empty
    short = short
    long = long
    ent1 = ent1
    ent2 = ent2
    Docs = {doc1}
    Texts = {long}
    Entities = {ent1, ent2}
    Extract <- MCExtract
    Categories = {org, person}
    Poison = {ent2}
    Extractors = {x1}
    Classifiers = {k1}
    Relays = {r1}
    ReadCount = 1
    BatchSize = 1
    MaxSubmits = 1
    MaxEnqueues = 0
    MaxAborts = 0

PROPERTY DocumentEnds
