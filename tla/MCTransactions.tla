--------------------------- MODULE MCTransactions ---------------------------
(***************************************************************************)
(* Instances of Transactions for TLC.                                      *)
(***************************************************************************)
EXTENDS Transactions, TLC

CONSTANTS empty, short, long, ent1, ent2   \* model values for texts and entities

MCExtract == [x \in Texts |-> CASE x = empty -> {}
                                [] x = short -> {ent1}
                                [] x = long  -> {ent1, ent2}]

\* Sessions of a kind are interchangeable, and so are the answers.
SessionSymmetry ==
    Permutations(Clients) \cup Permutations(Extractors)
      \cup Permutations(Classifiers) \cup Permutations(Categories)
============================================================================
