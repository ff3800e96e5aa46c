-------------------------- MODULE DocumentService --------------------------
(***************************************************************************)
(* DocumentService.Submit (internal/service/document.go), the write side   *)
(* of POST /process: one transaction that decides between insert, full     *)
(* rerun, resume and no-op, and that enqueues the extract job in the       *)
(* outbox.  One action per branch of the switch.                           *)
(***************************************************************************)
EXTENDS Store

CONSTANT MaxSubmits   \* bound: how many requests clients send

ASSUME MaxSubmitsAssumption == MaxSubmits \in Nat

VARIABLE submits      \* requests handled so far

EnqueueExtract(d, v) ==
    /\ outbox' = EnqueueOutbox(outbox, StreamExtract,
                               {[document_id |-> d, run_version |-> v]})
    /\ outboxSeq' = outboxSeq + 1

Request ==
    /\ submits < MaxSubmits
    /\ submits' = submits + 1

\* Either mode on an unknown id.
SubmitNew(d, text) ==
    /\ Request
    /\ ~Exists(d)
    /\ documents' = InsertDocument(documents, d, text)
    /\ EnqueueExtract(d, 1)
    /\ UNCHANGED tokens

SubmitFull(d, text) ==
    /\ Request
    /\ Exists(d)
    /\ documents' = ResetDocument(documents, d, text)
    /\ tokens' = DeleteTokens(tokens, d)
    /\ EnqueueExtract(d, documents'[d].run_version)

\* Mutant (no specification uses it): a resume that enqueues no job.
SubmitFailedNoJob(d) ==
    /\ Request
    /\ documents[d].status = "FAILED"
    /\ documents' = SetDocumentPending(documents, d)
    /\ UNCHANGED <<tokens, outbox, outboxSeq>>

\* Partial mode: the submitted text is not used on any of these branches.
SubmitCompleted(d) ==
    /\ Request
    /\ documents[d].status = "COMPLETED"
    /\ UNCHANGED storeVars

SubmitFailed(d) ==
    /\ Request
    /\ documents[d].status = "FAILED"
    /\ documents' = SetDocumentPending(documents, d)
    /\ EnqueueExtract(d, documents[d].run_version)
    /\ UNCHANGED tokens

SubmitActive(d) ==
    /\ Request
    /\ documents[d].status \in ActiveStatus
    /\ EnqueueExtract(d, documents[d].run_version)
    /\ UNCHANGED <<documents, tokens>>

Submit(d) ==
    \/ \E text \in Texts : SubmitNew(d, text) \/ SubmitFull(d, text)
    \/ SubmitCompleted(d)
    \/ SubmitFailed(d)
    \/ SubmitActive(d)
============================================================================
