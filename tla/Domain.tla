------------------------------ MODULE Domain ------------------------------
(***************************************************************************)
(* The vocabulary of the document pipeline (internal/domain/domain.go and  *)
(* internal/pipeline/jobs.go): document and token statuses, the rows of    *)
(* the three tables, and the jobs carried by the two streams.              *)
(*                                                                         *)
(* Data is abstracted to what the pipeline's decisions tell apart.  A text *)
(* is a model value; what the NLP extractor finds in it is the constant    *)
(* function Extract (extraction is deterministic, nlp/mock.go); an entity  *)
(* stands for its text, context and position.  A token's surrogate id is   *)
(* represented by the table's natural key, which the UNIQUE constraint of  *)
(* migrations/0001_init.sql makes equivalent.                              *)
(***************************************************************************)
EXTENDS Naturals, FiniteSets

CONSTANTS
    Docs,        \* document ids a client may submit
    Texts,       \* texts a client may submit
    Entities,    \* entities a text may contain
    Extract,     \* Extract[x]: the entities the NLP extractor finds in text x
    Categories   \* the answers of the LLM classifier

ASSUME ExtractAssumption == Extract \in [Texts -> SUBSET Entities]
ASSUME EntitiesAssumption == IsFiniteSet(Entities)

(***************************************************************************)
(* Document rows.  "NONE" is the absence of a row with that id.            *)
(***************************************************************************)
ActiveStatus == {"PENDING", "EXTRACTING", "CLASSIFYING"}
DocStatus == ActiveStatus \cup {"COMPLETED", "FAILED"}

\* The four nullable timestamp columns; a row's `stamped' is the set of those
\* that are not NULL.
Stamps == {"extraction_started_at", "extraction_completed_at",
           "classification_started_at", "classification_completed_at"}

\* content_hash is a function of text and no code compares it, so text stands
\* for both.
NoText == "no text"

Document == [status : DocStatus \cup {"NONE"},
             run_version : Nat,
             text : Texts \cup {NoText},
             total_tokens : Nat,
             classified_count : Nat,
             stamped : SUBSET Stamps]

NoDocument == [status |-> "NONE", run_version |-> 0, text |-> NoText,
               total_tokens |-> 0, classified_count |-> 0, stamped |-> {}]

(***************************************************************************)
(* Token rows.                                                             *)
(***************************************************************************)
TokenStatus == {"PENDING", "CLASSIFIED"}

NoCategory == "no category"

ASSUME CategoriesAssumption == NoCategory \notin Categories

Token == [document_id : Docs,
          run_version : Nat,
          entity : Entities,
          status : TokenStatus,
          classification : Categories \cup {NoCategory}]

TokenId == Docs \X Nat \X Entities

IdOf(t) == <<t.document_id, t.run_version, t.entity>>

(***************************************************************************)
(* Jobs.                                                                   *)
(***************************************************************************)
StreamExtract == "extract"
StreamClassify == "classify"
Streams == {StreamExtract, StreamClassify}

ExtractJob == [document_id : Docs, run_version : Nat]

ClassifyJob == [token_id : TokenId, document_id : Docs, run_version : Nat]

Job(s) == IF s = StreamExtract THEN ExtractJob ELSE ClassifyJob
============================================================================
