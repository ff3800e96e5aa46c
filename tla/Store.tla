------------------------------- MODULE Store -------------------------------
(***************************************************************************)
(* The Postgres store (internal/store): the tables documents, tokens and   *)
(* outbox, and the single-purpose primitives of store.Tx.  A primitive is  *)
(* an operator from the contents of a table to its new contents; the       *)
(* service, the relay and the workers compose them.                        *)
(*                                                                         *)
(* A closure passed to WithinTx runs as one atomic action.  Every closure  *)
(* that writes a document or its tokens first takes the document's row     *)
(* lock (SELECT ... FOR UPDATE) or, in the classifier, takes it before its *)
(* first write, so the committed effects of two closures on one document   *)
(* are those of some serial order.  The relay's transaction, which is long *)
(* because it calls the broker, is not atomic: see Relay.                  *)
(***************************************************************************)
EXTENDS Domain

VARIABLES
    documents,   \* [Docs -> Document]
    tokens,      \* set of Token rows
    outbox,      \* set of OutboxRow
    outboxSeq    \* the last value handed out for OutboxRow.id

storeVars == <<documents, tokens, outbox, outboxSeq>>

\* Rows written by one transaction share an id; the payload tells them apart.
\* Their order inside the transaction is left open.
OutboxRow == [id : Nat, stream : {StreamExtract}, payload : ExtractJob]
               \cup [id : Nat, stream : {StreamClassify}, payload : ClassifyJob]

StoreTypeOK ==
    /\ documents \in [Docs -> Document]
    /\ tokens \subseteq Token
    /\ outbox \subseteq OutboxRow
    /\ outboxSeq \in Nat

StoreInit ==
    /\ documents = [d \in Docs |-> NoDocument]
    /\ tokens = {}
    /\ outbox = {}
    /\ outboxSeq = 0

----------------------------------------------------------------------------
(* Mutants: plausible bugs in the primitives below.  No specification uses  *)
(* them; each shows that a property of Pipeline can fail.                   *)

\* A rerun that keeps the run version: stale writers pass the fence.
ResetDocumentSameRun(docs, d, text) ==
    [docs EXCEPT ![d] = [NoDocument EXCEPT !.status = "PENDING",
                                           !.run_version = docs[d].run_version,
                                           !.text = text]]

\* A rerun that forgets the timestamps.
ResetDocumentKeepsStamps(docs, d, text) ==
    [docs EXCEPT ![d] = [NoDocument EXCEPT !.status = "PENDING",
                                           !.run_version = docs[d].run_version + 1,
                                           !.text = text,
                                           !.stamped = docs[d].stamped]]

\* A resume that restarts the progress count.
SetDocumentPendingZeroed(docs, d) ==
    [docs EXCEPT ![d].status = "PENDING", ![d].classified_count = 0]

\* A token's status written to a document.
AdvanceToClassified(docs, d, total) == [docs EXCEPT ![d].status = "CLASSIFIED"]

\* A rerun that forgets the tokens.
DeleteNoTokens(toks, d) == toks

\* An UPDATE by document instead of by token.
SetDocumentClassified(toks, id, category) ==
    {IF t.document_id = id[1]
     THEN [t EXCEPT !.status = "CLASSIFIED", !.classification = category] ELSE t : t \in toks}

----------------------------------------------------------------------------
(* Documents. *)

Exists(d) == documents[d].status # "NONE"

InsertDocument(docs, d, text) ==
    [docs EXCEPT ![d] = [NoDocument EXCEPT !.status = "PENDING",
                                           !.run_version = 1,
                                           !.text = text]]

\* The documents half of ResetDocument; DeleteTokens is the other.
ResetDocument(docs, d, text) ==
    [docs EXCEPT ![d] = [status |-> "PENDING",
                         run_version |-> @.run_version + 1,
                         text |-> text,
                         total_tokens |-> 0,
                         classified_count |-> 0,
                         stamped |-> {}]]

SetDocumentPending(docs, d) == [docs EXCEPT ![d].status = "PENDING"]

SetExtractionStarted(docs, d) ==
    [docs EXCEPT ![d] = [docs[d] EXCEPT !.status = "EXTRACTING",
                                        !.stamped = @ \cup {"extraction_started_at"}]]

AdvanceToClassifying(docs, d, total) ==
    [docs EXCEPT ![d] = [docs[d] EXCEPT !.status = "CLASSIFYING",
                                        !.total_tokens = total,
                                        !.stamped = @ \cup {"extraction_completed_at",
                                                           "classification_started_at"}]]

MarkExtractionCompletedEmpty(docs, d) ==
    [docs EXCEPT ![d] = [docs[d] EXCEPT !.status = "COMPLETED",
                                        !.total_tokens = 0,
                                        !.stamped = @ \cup {"extraction_completed_at",
                                                           "classification_started_at",
                                                           "classification_completed_at"}]]

IncrementClassifiedCount(docs, d) ==
    [docs EXCEPT ![d] = [docs[d] EXCEPT !.classified_count = @ + 1]]

MarkDocumentCompleted(docs, d) ==
    [docs EXCEPT ![d] = [docs[d] EXCEPT !.status = "COMPLETED",
                                        !.stamped = @ \cup {"classification_completed_at"}]]

\* No code path calls MarkFailed; an operator may.
MarkFailed(d) ==
    /\ Exists(d)
    /\ documents' = [documents EXCEPT ![d].status = "FAILED"]
    /\ UNCHANGED <<tokens, outbox, outboxSeq>>

----------------------------------------------------------------------------
(* Tokens. *)

DeleteTokens(toks, d) == {t \in toks : t.document_id # d}

TokensForRun(toks, d, v) == {t \in toks : t.document_id = d /\ t.run_version = v}

NewToken(d, v, e) ==
    [document_id |-> d, run_version |-> v, entity |-> e,
     status |-> "PENDING", classification |-> NoCategory]

\* ON CONFLICT (natural key) DO NOTHING.
UpsertTokens(toks, d, v, entities) ==
    toks \cup {NewToken(d, v, e) :
                  e \in {f \in entities : \A t \in toks : IdOf(t) # <<d, v, f>>}}

CountTokens(toks, d, v) == Cardinality(TokensForRun(toks, d, v))

SetTokenClassified(toks, id, category) ==
    {t \in toks : IdOf(t) # id}
      \cup {[t EXCEPT !.status = "CLASSIFIED", !.classification = category] :
               t \in {u \in toks : IdOf(u) = id}}

----------------------------------------------------------------------------
(* Outbox. *)

EnqueueOutbox(box, s, jobs) ==
    box \cup {[id |-> outboxSeq + 1, stream |-> s, payload |-> j] : j \in jobs}

DeleteOutbox(box, rows) == box \ rows
============================================================================
