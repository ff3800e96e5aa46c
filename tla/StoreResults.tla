---------------------------- MODULE StoreResults ----------------------------
(***************************************************************************)
(* The refinement mapping from the tables to DocumentResults: the results  *)
(* of a document are read off its row and its token rows.  Two models are  *)
(* shown to implement DocumentResults through it: Pipeline, whose          *)
(* transactions are atomic, and Transactions, whose transactions are       *)
(* interleaved statement by statement.                                     *)
(***************************************************************************)
EXTENDS Store

RowsOf(d) == {t \in tokens : t.document_id = d}

ResultOf(d) ==
    [run     |-> documents[d].run_version,
     text    |-> documents[d].text,
     found   |-> {t.entity : t \in RowsOf(d)},
     answers |-> {<<t.entity, t.classification>> :
                     t \in {u \in RowsOf(d) : u.status = "CLASSIFIED"}}]

Results == INSTANCE DocumentResults WITH results <- [d \in Docs |-> ResultOf(d)]

\* Whatever workers, relays, locks and redeliveries do, the tables only ever
\* show a document's runs being opened, found and answered one entity at a
\* time, each entity once, the way DocumentResults describes it.
ImplementsResults == Results!Spec
============================================================================
