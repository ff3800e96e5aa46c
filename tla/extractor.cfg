SPECIFICATION Spec
CONSTANTS
    MaxBytes = 6
    Rules = 2

INVARIANT SentencesAreExact
INVARIANT EarlierRuleWins
INVARIANT NaturalKeysAreUnique
INVARIANT OffsetsCountRunes
