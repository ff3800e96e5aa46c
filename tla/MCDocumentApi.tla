--------------------------- MODULE MCDocumentApi ---------------------------
(***************************************************************************)
(* Instances of DocumentApi for TLC.                                       *)
(***************************************************************************)
EXTENDS MCTransactions, DocumentApi

MCRank == [e \in Entities |-> IF e = ent1 THEN 1 ELSE 2]

\* One extraction worker is like the other.
WorkerSymmetry == Permutations(Extractors)
============================================================================
