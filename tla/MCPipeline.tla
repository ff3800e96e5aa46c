----------------------------- MODULE MCPipeline -----------------------------
(***************************************************************************)
(* Instances of Pipeline for TLC.                                          *)
(***************************************************************************)
EXTENDS Pipeline, TLC

CONSTANTS empty, short, long, ent1, ent2   \* model values for texts and entities

\* A text without entities, one with one and one with two.
MCExtract == [x \in Texts |-> CASE x = empty -> {}
                                [] x = short -> {ent1}
                                [] x = long  -> {ent1, ent2}]

\* Documents are interchangeable, and so are goroutines of a kind.
ProcessSymmetry ==
    Permutations(Docs) \cup Permutations(Extractors)
      \cup Permutations(Classifiers) \cup Permutations(Relays)

\* So are entities and categories, if every text has all the entities.
DataSymmetry == ProcessSymmetry \cup Permutations(Entities) \cup Permutations(Categories)
============================================================================
