-------------------------- MODULE ExtractionWorker --------------------------
(***************************************************************************)
(* The extraction worker (internal/pipeline/extractor.go).  For each       *)
(* message, Process runs two transactions with the NLP call between them:  *)
(* claim, which takes a snapshot of the document, and persist, which       *)
(* writes tokens, stage and classify jobs at once.  Other consumers act    *)
(* between the two.                                                        *)
(*                                                                         *)
(* Branches that no message of this system reaches are folded into others: *)
(* a missing document (rows are never deleted) is acked like a skip, and   *)
(* an undecodable payload does not occur (only EnqueueExtract writes this  *)
(* stream).                                                                *)
(***************************************************************************)
EXTENDS Store, Broker

VARIABLE extraction   \* [Extractors -> what the handler has in memory]

NoId == "no id"

\* pc: "idle" in the Consume loop; "extracting" between claim and persist;
\* "done" the handler returned nil, XACK comes next.
ExtractorState == [pc : {"idle", "extracting", "done"},
                   document_id : Docs \cup {NoId},
                   run_version : Nat,
                   text : Texts \cup {NoText}]

\* The handler holds no document.
AtPc(pc) == [pc |-> pc, document_id |-> NoId, run_version |-> 0, text |-> NoText]

\* The document that claim returned to Process.
Extracting(d) == [pc |-> "extracting", document_id |-> d,
                  run_version |-> documents[d].run_version,
                  text |-> documents[d].text]

ExtractionTypeOK == extraction \in [Extractors -> ExtractorState]

ExtractionInit == extraction = [c \in Extractors |-> AtPc("idle")]

SetExtractor(c, state) == extraction' = [extraction EXCEPT ![c] = state]

\* Start, or death and restart: a dead process is one that takes no step.
ExtractorStart(c) ==
    /\ StartConsumer(c)
    /\ SetExtractor(c, AtPc("idle"))
    /\ UNCHANGED storeVars

ExtractorRead(c) ==
    /\ extraction[c].pc = "idle"
    /\ ReadNew(c)
    /\ UNCHANGED <<storeVars, extraction>>

ExtractorReclaim(c, batch) ==
    /\ extraction[c].pc = "idle"
    /\ Reclaim(c, batch)
    /\ UNCHANGED <<storeVars, extraction>>

\* Mutant (no specification uses it): a completed document is extracted again.
NothingToExtractYet == {"NONE", "CLASSIFYING"}

\* Statuses for which Process stops after claim.
NothingToExtract == {"NONE", "CLASSIFYING", "COMPLETED"}

\* claim on a document whose extraction is over: Process returns nil.
ClaimSkips(c, e) ==
    LET d == JobAt(c, e).document_id IN
    /\ extraction[c].pc = "idle"
    /\ Current(c, e)
    /\ documents[d].status \in NothingToExtract
    /\ SetExtractor(c, AtPc("done"))
    /\ UNCHANGED <<storeVars, brokerVars>>

\* claim on any other document.  The run version that the job carries is not
\* compared with the row's.
ClaimExtracts(c, e) ==
    LET d == JobAt(c, e).document_id IN
    /\ extraction[c].pc = "idle"
    /\ Current(c, e)
    /\ documents[d].status \notin NothingToExtract
    /\ documents' = IF documents[d].status = "PENDING"
                    THEN SetExtractionStarted(documents, d)
                    ELSE documents
    /\ SetExtractor(c, Extracting(d))
    /\ UNCHANGED <<tokens, outbox, outboxSeq, brokerVars>>

PersistGuard(c, e) == extraction[c].pc = "extracting" /\ Current(c, e)

\* persist of a superseded run: ErrStaleWrite, which handle drops.
PersistStale(c, e) ==
    LET d == extraction[c].document_id IN
    /\ PersistGuard(c, e)
    /\ documents[d].run_version # extraction[c].run_version
    /\ SetExtractor(c, AtPc("done"))
    /\ UNCHANGED <<storeVars, brokerVars>>

\* EnqueueClassify for every token of the run that is not classified yet.
ClassifyJobs(toks, d, v) ==
    {[token_id |-> IdOf(t), document_id |-> d, run_version |-> v] :
        t \in {u \in TokensForRun(toks, d, v) : u.status # "CLASSIFIED"}}

\* persist of the current run.  The status the document has by now is not
\* looked at.
PersistTokens(c, e) ==
    LET d == extraction[c].document_id
        v == extraction[c].run_version
        total == CountTokens(tokens', d, v)
    IN  /\ PersistGuard(c, e)
        /\ documents[d].run_version = v
        /\ tokens' = UpsertTokens(tokens, d, v, Extract[extraction[c].text])
        /\ documents' = IF total = 0
                        THEN MarkExtractionCompletedEmpty(documents, d)
                        ELSE AdvanceToClassifying(documents, d, total)
        /\ outbox' = EnqueueOutbox(outbox, StreamClassify, ClassifyJobs(tokens', d, v))
        /\ outboxSeq' = outboxSeq + 1
        /\ SetExtractor(c, AtPc("done"))
        /\ UNCHANGED brokerVars

ExtractorAck(c, e) ==
    /\ extraction[c].pc = "done"
    /\ Ack(c, e)
    /\ SetExtractor(c, AtPc("idle"))
    /\ UNCHANGED storeVars

\* The claim, the extractor or persist fails with a transient error, or XACK
\* does: the handler's work ends and the entry stays pending.
ExtractorError(c, e) ==
    /\ LeavePending(c, e)
    /\ SetExtractor(c, AtPc("idle"))
    /\ UNCHANGED storeVars

ExtractorNext(c) ==
    \/ ExtractorStart(c)
    \/ ExtractorRead(c)
    \/ \E batch \in SUBSET pel[StreamExtract] : ExtractorReclaim(c, batch)
    \/ \E e \in inbox[c] :
          \/ ClaimSkips(c, e)
          \/ ClaimExtracts(c, e)
          \/ PersistStale(c, e)
          \/ PersistTokens(c, e)
          \/ ExtractorAck(c, e)
          \/ ExtractorError(c, e)
============================================================================
