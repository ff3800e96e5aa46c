------------------------ MODULE ClassificationWorker ------------------------
(***************************************************************************)
(* The classification worker (internal/pipeline/classifier.go).  For each  *)
(* message, Process looks the token up without a lock, asks the LLM, and   *)
(* applies the answer in one transaction that looks again under locks.     *)
(* What the LLM answers is any category, chosen when it is applied; that   *)
(* it fails after its retries is ClassifierError.                          *)
(***************************************************************************)
EXTENDS Store, Broker

VARIABLE classification   \* [Classifiers -> the handler's position]

\* "classifying": between the look-up and apply.  Others as in the extractor.
ClassifierPc == {"idle", "classifying", "done"}

ClassificationTypeOK == classification \in [Classifiers -> ClassifierPc]

ClassificationInit == classification = [c \in Classifiers |-> "idle"]

SetClassifier(c, pc) == classification' = [classification EXCEPT ![c] = pc]

ClassifierStart(c) ==
    /\ StartConsumer(c)
    /\ SetClassifier(c, "idle")
    /\ UNCHANGED storeVars

ClassifierRead(c) ==
    /\ classification[c] = "idle"
    /\ ReadNew(c)
    /\ UNCHANGED <<storeVars, classification>>

ClassifierReclaim(c, batch) ==
    /\ classification[c] = "idle"
    /\ Reclaim(c, batch)
    /\ UNCHANGED <<storeVars, classification>>

\* The token row with this id exists and is PENDING.
IsPending(id) == \E t \in tokens : IdOf(t) = id /\ t.status = "PENDING"

\* GetToken: a deleted token (ErrNotFound) and a classified one both end with
\* the message acked.
LookUpSkips(c, e) ==
    /\ classification[c] = "idle"
    /\ Current(c, e)
    /\ ~IsPending(JobAt(c, e).token_id)
    /\ SetClassifier(c, "done")
    /\ UNCHANGED <<storeVars, brokerVars>>

LookUpClassifies(c, e) ==
    /\ classification[c] = "idle"
    /\ Current(c, e)
    /\ IsPending(JobAt(c, e).token_id)
    /\ SetClassifier(c, "classifying")
    /\ UNCHANGED <<storeVars, brokerVars>>

ApplyGuard(c, e) == classification[c] = "classifying" /\ Current(c, e)

\* Mutants (no specification uses them): apply without the status re-check ...
ApplicableTwice(t, job) ==
    /\ IdOf(t) = job.token_id
    /\ t.run_version = job.run_version
    /\ documents[t.document_id].run_version = job.run_version

\* ... and completion one answer too late.
RecordResultLate(t, category) ==
    LET counted == IncrementClassifiedCount(documents, t.document_id) IN
    /\ tokens' = SetTokenClassified(tokens, IdOf(t), category)
    /\ documents' = IF documents[t.document_id].classified_count
                          >= documents[t.document_id].total_tokens
                    THEN MarkDocumentCompleted(counted, t.document_id)
                    ELSE counted

\* Apply may write the job's token: it is there, of the job's run, not yet
\* classified, and its document still is at that run.
Applicable(t, job) ==
    /\ IdOf(t) = job.token_id
    /\ t.run_version = job.run_version
    /\ t.status # "CLASSIFIED"
    /\ documents[t.document_id].run_version = job.run_version

\* ErrNotFound, ErrStaleWrite, or classified by another consumer meanwhile:
\* nothing is written and the message is acked.
ApplyDrops(c, e) ==
    /\ ApplyGuard(c, e)
    /\ \A t \in tokens : ~Applicable(t, JobAt(c, e))
    /\ SetClassifier(c, "done")
    /\ UNCHANGED <<storeVars, brokerVars>>

\* The answer is stored and counted; the last one completes the document.
RecordResult(t, category) ==
    LET d == t.document_id
        counted == IncrementClassifiedCount(documents, d)
    IN  /\ tokens' = SetTokenClassified(tokens, IdOf(t), category)
        /\ documents' = IF counted[d].classified_count >= documents[d].total_tokens
                        THEN MarkDocumentCompleted(counted, d)
                        ELSE counted

ApplyResult(c, e, category) ==
    /\ ApplyGuard(c, e)
    /\ \E t \in tokens : Applicable(t, JobAt(c, e)) /\ RecordResult(t, category)
    /\ SetClassifier(c, "done")
    /\ UNCHANGED <<outbox, outboxSeq, brokerVars>>

ClassifierAck(c, e) ==
    /\ classification[c] = "done"
    /\ Ack(c, e)
    /\ SetClassifier(c, "idle")
    /\ UNCHANGED storeVars

\* The look-up, the LLM or apply fails with a transient error, or XACK does.
ClassifierError(c, e) ==
    /\ LeavePending(c, e)
    /\ SetClassifier(c, "idle")
    /\ UNCHANGED storeVars

ClassifierNext(c) ==
    \/ ClassifierStart(c)
    \/ ClassifierRead(c)
    \/ \E batch \in SUBSET pel[StreamClassify] : ClassifierReclaim(c, batch)
    \/ \E e \in inbox[c] :
          \/ LookUpSkips(c, e)
          \/ LookUpClassifies(c, e)
          \/ ApplyDrops(c, e)
          \/ \E category \in Categories : ApplyResult(c, e, category)
          \/ ClassifierAck(c, e)
          \/ ClassifierError(c, e)
============================================================================
