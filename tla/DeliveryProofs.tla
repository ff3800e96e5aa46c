--------------------------- MODULE DeliveryProofs ---------------------------
(***************************************************************************)
(* Proof that no work is lost: NoLostToken and NoLostDocument, for every   *)
(* number of relays and consumers, any interleaving, any finite number of  *)
(* relay failures and any number of worker deaths, handler errors and      *)
(* redeliveries.                                                           *)
(***************************************************************************)
EXTENDS PipelineProofs

\* An entry stays safe if it stays outstanding and nobody new is about to
\* acknowledge it.
LEMMA SafeKept ==
    ASSUME NEW s, NEW i \in Safe(s), i \in Outstanding(s)',
           \A x \in AboutToAck' : StreamOf(x) = s =>
              (x \in AboutToAck /\ inbox'[x] = inbox[x]) \/ ~Current(x, i)'
    PROVE  i \in Safe(s)'
  BY DEF Safe, Current

LEMMA ClassifyKept ==
    ASSUME NEW id, ClassifyJobSafe(id),
           \A row \in Unpublished : row \in Unpublished',
           \A i \in Safe(StreamClassify) : log[StreamClassify][i].token_id = id =>
              i \in Safe(StreamClassify)' /\ log'[StreamClassify][i] = log[StreamClassify][i]
    PROVE  ClassifyJobSafe(id)'
  BY DEF ClassifyJobSafe

LEMMA ExtractKept ==
    ASSUME NEW job, ExtractJobSafe(job),
           \A row \in Unpublished : row \in Unpublished',
           \A i \in Safe(StreamExtract) : log[StreamExtract][i] = job =>
              i \in Safe(StreamExtract)' /\ log'[StreamExtract][i] = log[StreamExtract][i]
    PROVE  ExtractJobSafe(job)'
  BY DEF ExtractJobSafe

\* run_version never decreases.
LEMMA VersionsGrow ==
    ASSUME StoreInv, OperatorNext
    PROVE  \A d \in Docs : documents[d].run_version <= documents'[d].run_version
  <1>0. /\ documents \in [Docs -> Document]
        /\ \A d \in Docs : documents[d].run_version \in Nat
    BY DEF StoreInv, TypeOK, StoreTypeOK, Document
  <1>1. CASE ServiceStep
    <2>1. PICK d \in Docs : Submit(d)
      BY <1>1 DEF ServiceStep
    <2>2. ASSUME NEW text \in Texts, SubmitNew(d, text)
          PROVE  \A x \in Docs : documents[x].run_version <= documents'[x].run_version
      <3>1. documents[d] = NoDocument
        BY <2>2 DEF SubmitNew, Exists, StoreInv, DocumentRowsInv
      <3> QED BY <1>0, <2>2, <3>1 DEF SubmitNew, InsertDocument, NoDocument
    <2>3. ASSUME NEW text \in Texts, SubmitFull(d, text)
          PROVE  \A x \in Docs : documents[x].run_version <= documents'[x].run_version
      BY <1>0, <2>3 DEF SubmitFull, ResetDocument
    <2>4. CASE SubmitCompleted(d) \/ SubmitActive(d)
      BY <1>0, <2>4 DEF SubmitCompleted, SubmitActive, storeVars
    <2>5. CASE SubmitFailed(d)
      BY <1>0, <2>5 DEF SubmitFailed, SetDocumentPending, Document
    <2> QED BY <2>1, <2>2, <2>3, <2>4, <2>5 DEF Submit
  <1>2. CASE UNCHANGED documents
    BY <1>0, <1>2
  <1>3. ASSUME NEW c \in Extractors, NEW e \in inbox[c], ClaimExtracts(c, e)
        PROVE  \A x \in Docs : documents[x].run_version <= documents'[x].run_version
    BY <1>0, <1>3 DEF ClaimExtracts, SetExtractionStarted, Document
  <1>4. ASSUME NEW c \in Extractors, NEW e \in inbox[c], PersistTokens(c, e)
        PROVE  \A x \in Docs : documents[x].run_version <= documents'[x].run_version
    BY <1>0, <1>4 DEF PersistTokens, MarkExtractionCompletedEmpty, AdvanceToClassifying, Document
  <1>5. ASSUME NEW t \in tokens, NEW category \in Categories, RecordResult(t, category)
        PROVE  \A x \in Docs : documents[x].run_version <= documents'[x].run_version
    BY <1>0, <1>5 DEF RecordResult, IncrementClassifiedCount, MarkDocumentCompleted, Document
  <1>6. CASE OperatorStep
    BY <1>0, <1>6 DEF OperatorStep, MarkFailed, Document
  <1>7. CASE RelayStep
    BY <1>2, <1>7 DEF RelayStep, RelayNext, ClaimOutboxBatch, PublishRow, CommitBatch, AbortBatch, storeVars
  <1>8. CASE ExtractorStep
    BY <1>2, <1>3, <1>4, <1>8 DEF ExtractorStep, ExtractorNext, ExtractorStart, ExtractorRead,
       ExtractorReclaim, ClaimSkips, PersistStale, ExtractorAck, ExtractorError, storeVars
  <1>9. CASE ClassifierStep
    BY <1>2, <1>5, <1>9 DEF ClassifierStep, ClassifierNext, ClassifierStart, ClassifierRead,
       ClassifierReclaim, LookUpSkips, LookUpClassifies, ApplyDrops, ApplyResult, ClassifierAck,
       ClassifierError, storeVars
  <1> QED
    BY <1>1, <1>6, <1>7, <1>8, <1>9 DEF OperatorNext, Next

----------------------------------------------------------------------------
(* JobsInv: jobs never name a future run. *)

OutboxRowOK(row) ==
    /\ row.id <= outboxSeq
    /\ row.stream = StreamExtract => ExtractJobOK(row.payload)
    /\ row.stream = StreamClassify => ClassifyJobOK(row.payload)

\* Old rows stay good as versions and ids grow.
LEMMA RowsKept ==
    ASSUME StoreInv, OperatorNext, NEW row \in OutboxRow, OutboxRowOK(row),
           outboxSeq <= outboxSeq', outboxSeq' \in Nat
    PROVE  OutboxRowOK(row)'
  <1>1. row.id \in Nat /\ outboxSeq \in Nat
    BY RowTypes DEF StoreInv, TypeOK, StoreTypeOK
  <1>2. row.stream = StreamExtract => row.payload \in ExtractJob
    BY RowTypes DEF Job
  <1>3. row.stream = StreamExtract => ExtractJobOK(row.payload)'
    <2> SUFFICES ASSUME row.stream = StreamExtract PROVE ExtractJobOK(row.payload)'
      OBVIOUS
    <2>1. PICK d \in Docs : d = row.payload.document_id
      BY <1>2 DEF ExtractJob
    <2>2. row.payload.run_version <= documents[d].run_version
      BY <2>1 DEF OutboxRowOK, ExtractJobOK
    <2>3. documents[d].run_version <= documents'[d].run_version
      BY VersionsGrow
    <2>4. /\ row.payload.run_version \in Nat /\ documents[d].run_version \in Nat
          /\ documents'[d].run_version \in Nat
      <3>1. TypeOK'
        BY TypeStep DEF AdverseNext
      <3> QED BY <1>2, <3>1 DEF ExtractJob, StoreInv, TypeOK, StoreTypeOK, Document
    <2> QED BY <2>1, <2>2, <2>3, <2>4 DEF ExtractJobOK
  <1> QED
    BY <1>1, <1>3 DEF OutboxRowOK, ClassifyJobOK

\* Entries already in a stream stay good.
LEMMA EntriesKept ==
    ASSUME StoreInv, OperatorNext, JobsInv
    PROVE  \A i \in Entries(StreamExtract) :
              log[StreamExtract][i].run_version
                <= documents'[log[StreamExtract][i].document_id].run_version
  <1> SUFFICES ASSUME NEW i \in Entries(StreamExtract)
               PROVE  log[StreamExtract][i].run_version
                        <= documents'[log[StreamExtract][i].document_id].run_version
    OBVIOUS
  <1>1. PICK j : j = log[StreamExtract][i]
    OBVIOUS
  <1>2. j \in ExtractJob
    BY <1>1, LogTypes, StreamTypes DEF StoreInv, TypeOK, Entries, Job
  <1>3. PICK d \in Docs : d = j.document_id
    BY <1>2 DEF ExtractJob
  <1>4. j.run_version <= documents[d].run_version
    BY <1>1, <1>3 DEF JobsInv, ExtractJobOK
  <1>5. documents[d].run_version <= documents'[d].run_version
    BY VersionsGrow
  <1>6. /\ j.run_version \in Nat /\ documents[d].run_version \in Nat
        /\ documents'[d].run_version \in Nat
    <2>1. TypeOK'
      BY TypeStep DEF AdverseNext
    <2> QED BY <1>2, <2>1 DEF ExtractJob, StoreInv, TypeOK, StoreTypeOK, Document
  <1> QED BY <1>1, <1>3, <1>4, <1>5, <1>6

\* What the outbox gains in each step.
LEMMA SubmitEnqueues ==
    ASSUME StoreInv, NEW d \in Docs, Submit(d)
    PROVE  \/ UNCHANGED <<outbox, outboxSeq>> /\ UNCHANGED documents
           \/ EnqueueExtract(d, documents'[d].run_version)
  <1>0. documents \in [Docs -> Document] /\ documents[d] \in Document
    BY DEF StoreInv, TypeOK, StoreTypeOK
  <1>1. ASSUME NEW text \in Texts, SubmitNew(d, text)
        PROVE  EnqueueExtract(d, documents'[d].run_version)
    <2>1. documents'[d].run_version = 1
      BY <1>0, <1>1 DEF SubmitNew, InsertDocument, NoDocument
    <2> QED BY <1>1, <2>1 DEF SubmitNew
  <1>2. ASSUME NEW text \in Texts, SubmitFull(d, text)
        PROVE  EnqueueExtract(d, documents'[d].run_version)
    BY <1>2 DEF SubmitFull
  <1>3. CASE SubmitCompleted(d)
    BY <1>3 DEF SubmitCompleted, storeVars
  <1>4. CASE SubmitFailed(d)
    <2>1. documents'[d].run_version = documents[d].run_version
      BY <1>0, <1>4 DEF SubmitFailed, SetDocumentPending, Document
    <2> QED BY <1>4, <2>1 DEF SubmitFailed
  <1>5. CASE SubmitActive(d)
    BY <1>5 DEF SubmitActive
  <1> QED
    BY <1>1, <1>2, <1>3, <1>4, <1>5 DEF Submit

LEMMA PersistEnqueues ==
    ASSUME StoreInv, NEW c \in Extractors, NEW e, PersistTokens(c, e)
    PROVE  \A row \in outbox' \ outbox :
              row.id = outboxSeq + 1 /\ row.stream = StreamClassify /\ ClassifyJobOK(row.payload)
  <1>1. PICK jobs : jobs = ClassifyJobs(tokens', extraction[c].document_id, extraction[c].run_version)
    OBVIOUS
  <1>2. \A j \in jobs : j.run_version = j.token_id[2]
    BY <1>1 DEF ClassifyJobs, TokensForRun, IdOf
  <1>3. outbox' = outbox \cup {[id |-> outboxSeq + 1, stream |-> StreamClassify, payload |-> j] : j \in jobs}
    BY <1>1 DEF PersistTokens, EnqueueOutbox
  <1> QED
    BY <1>2, <1>3 DEF ClassifyJobOK

LEMMA JobsStep ==
    ASSUME StoreInv, JobsInv, OperatorNext
    PROVE  JobsInv'
  <1>0. /\ KnownRows \subseteq OutboxRow /\ outboxSeq \in Nat /\ TypeOK' /\ TypeOK
        /\ \A row \in KnownRows : OutboxRowOK(row)
    <2>1. TypeOK'
      BY TypeStep DEF AdverseNext
    <2>2. KnownRows \subseteq OutboxRow
      BY DEF KnownRows, StoreInv, TypeOK, StoreTypeOK, RelayTypeOK
    <2> QED BY <2>1, <2>2 DEF JobsInv, OutboxRowOK, StoreInv, TypeOK, StoreTypeOK
  <1>1. outboxSeq' \in Nat
    BY <1>0 DEF TypeOK, StoreTypeOK
  \* It is enough to look at new rows and new entries.
  <1>2. ASSUME outboxSeq <= outboxSeq',
               \A row \in KnownRows' \ KnownRows : OutboxRowOK(row)',
               log' = log
        PROVE  JobsInv'
    <2>1. \A row \in KnownRows' : OutboxRowOK(row)'
      BY <1>0, <1>1, <1>2, RowsKept
    <2>2. (\A i \in Entries(StreamExtract) : ExtractJobOK(log[StreamExtract][i]))'
      BY <1>2, EntriesKept DEF Entries, ExtractJobOK
    <2> QED
      BY <1>2, <2>1, <2>2 DEF JobsInv, OutboxRowOK, Entries, ClassifyJobOK
  <1>3. CASE ServiceStep
    <2>1. PICK d \in Docs : Submit(d)
      BY <1>3 DEF ServiceStep
    <2>2. log' = log /\ relay' = relay
      BY <1>3 DEF ServiceStep, brokerVars, relayVars
    <2>3. CASE UNCHANGED <<outbox, outboxSeq>>
      BY <1>0, <1>2, <2>2, <2>3 DEF KnownRows
    <2>4. CASE EnqueueExtract(d, documents'[d].run_version)
      <3>1. PICK v : v = documents'[d].run_version
        OBVIOUS
      <3>2. PICK row : row = [id |-> outboxSeq + 1, stream |-> StreamExtract,
                              payload |-> [document_id |-> d, run_version |-> v]]
        OBVIOUS
      <3>3. outbox' = outbox \cup {row} /\ outboxSeq' = outboxSeq + 1
        BY <2>4, <3>1, <3>2 DEF EnqueueExtract, EnqueueOutbox
      <3>4. KnownRows' = KnownRows \cup {row}
        BY <2>2, <3>3 DEF KnownRows
      <3>5. v \in Nat
        BY <1>0, <3>1 DEF TypeOK, StoreTypeOK, Document
      <3>6. OutboxRowOK(row)'
        BY <1>0, <3>1, <3>2, <3>3, <3>5, StreamTypes DEF OutboxRowOK, ExtractJobOK
      <3> QED BY <1>0, <1>2, <2>2, <3>3, <3>4, <3>6
    <2> QED BY <2>1, <2>3, <2>4, SubmitEnqueues
  <1>4. ASSUME NEW r \in Relays, ClaimOutboxBatch(r) \/ CommitBatch(r) \/ AbortBatch(r)
        PROVE  JobsInv'
    <2>1. KnownRows' \subseteq KnownRows
      <3>0. relay \in [Relays -> [claimed : SUBSET OutboxRow, published : SUBSET OutboxRow]]
        BY <1>0 DEF TypeOK, RelayTypeOK
      <3>1. CASE ClaimOutboxBatch(r)
        BY <3>0, <3>1 DEF ClaimOutboxBatch, KnownRows, storeVars
      <3>2. CASE CommitBatch(r) \/ AbortBatch(r)
        BY <3>0, <3>2 DEF CommitBatch, AbortBatch, NoTransaction, DeleteOutbox, KnownRows, storeVars
      <3> QED BY <1>4, <3>1, <3>2
    <2>2. log' = log /\ outboxSeq' = outboxSeq
      BY <1>4 DEF ClaimOutboxBatch, CommitBatch, AbortBatch, storeVars, brokerVars
    <2> QED BY <1>0, <1>2, <2>1, <2>2
  <1>5. ASSUME NEW r \in Relays, PublishRow(r)
        PROVE  JobsInv'
    <2>1. PICK row \in relay[r].claimed :
             /\ Publish(row.stream, row.payload)
             /\ relay' = [relay EXCEPT ![r].published = relay[r].published \cup {row}]
      BY <1>5 DEF PublishRow
    <2>2. row \in KnownRows /\ row \in OutboxRow
      BY <1>0 DEF KnownRows
    <2>3. KnownRows' = KnownRows
      <3>1. relay \in [Relays -> [claimed : SUBSET OutboxRow, published : SUBSET OutboxRow]]
        BY <1>0 DEF TypeOK, RelayTypeOK
      <3> QED BY <1>5, <2>1, <3>1 DEF PublishRow, KnownRows, storeVars
    <2>4. UNCHANGED <<documents, outboxSeq>>
      BY <1>5 DEF PublishRow, storeVars
    <2>5. \A x \in KnownRows' : OutboxRowOK(x)'
      BY <1>0, <1>1, <2>3, <2>4, RowsKept
    <2>6. /\ row.stream \in Streams
          /\ \A s \in Streams : log[s] \in Seq(Job(s)) /\ Len(log[s]) \in Nat
          /\ log' = [log EXCEPT ![row.stream] = Append(log[row.stream], row.payload)]
          /\ DOMAIN log = Streams
      BY <1>0, <2>1, <2>2, RowTypes, LogTypes DEF Publish, TypeOK, BrokerTypeOK
    <2>7. OutboxRowOK(row)
      BY <1>0, <2>2
    <2>8. \A s \in Streams : \A i \in 1..Len(log'[s]) :
             \/ i \in 1..Len(log[s]) /\ log'[s][i] = log[s][i]
             \/ s = row.stream /\ log'[s][i] = row.payload
      BY <2>6
    <2>9. (\A i \in Entries(StreamExtract) : ExtractJobOK(log[StreamExtract][i]))'
      BY <2>4, <2>7, <2>8, StreamTypes DEF Entries, JobsInv, OutboxRowOK, ExtractJobOK
    <2>10. (\A i \in Entries(StreamClassify) : ClassifyJobOK(log[StreamClassify][i]))'
      BY <2>7, <2>8, StreamTypes DEF Entries, JobsInv, OutboxRowOK, ClassifyJobOK
    <2> QED BY <2>5, <2>9, <2>10 DEF JobsInv, OutboxRowOK
  <1>6. ASSUME NEW c \in Extractors, NEW e \in inbox[c], PersistTokens(c, e), relay' = relay
        PROVE  JobsInv'
    <2>1. log' = log /\ outboxSeq' = outboxSeq + 1
      BY <1>6 DEF PersistTokens, brokerVars
    <2>2. \A row \in KnownRows' \ KnownRows : row \in outbox' \ outbox
      BY <1>6 DEF KnownRows
    <2>3. \A row \in KnownRows' \ KnownRows : OutboxRowOK(row)'
      BY <1>0, <1>6, <2>1, <2>2, PersistEnqueues, StreamTypes DEF OutboxRowOK, ClassifyJobOK
    <2> QED BY <1>0, <1>2, <2>1, <2>3
  <1>7. CASE UNCHANGED <<outbox, outboxSeq, log, relay>>
    BY <1>0, <1>2, <1>7 DEF KnownRows
  <1>8. CASE ExtractorStep
    <2>1. PICK c \in Extractors : ExtractorNext(c)
      BY <1>8 DEF ExtractorStep
    <2>2. relay' = relay
      BY <1>8 DEF ExtractorStep, relayVars
    <2> QED
      BY <1>6, <1>7, <2>1, <2>2 DEF ExtractorNext, ExtractorStart, ExtractorRead, ExtractorReclaim,
         ClaimSkips, ClaimExtracts, PersistStale, ExtractorAck, ExtractorError, StartConsumer, ReadNew,
         Reclaim, Ack, LeavePending, storeVars, brokerVars
  <1>9. CASE ClassifierStep
    <2>1. PICK c \in Classifiers : ClassifierNext(c)
      BY <1>9 DEF ClassifierStep
    <2>2. relay' = relay
      BY <1>9 DEF ClassifierStep, relayVars
    <2> QED
      BY <1>7, <2>1, <2>2 DEF ClassifierNext, ClassifierStart, ClassifierRead, ClassifierReclaim,
         LookUpSkips, LookUpClassifies, ApplyDrops, ApplyResult, ClassifierAck, ClassifierError,
         StartConsumer, ReadNew, Reclaim, Ack, LeavePending, storeVars, brokerVars
  <1>10. CASE OperatorStep
    BY <1>7, <1>10 DEF OperatorStep, MarkFailed, brokerVars, relayVars
  <1> QED
    BY <1>3, <1>4, <1>5, <1>8, <1>9, <1>10 DEF OperatorNext, Next, RelayStep, RelayNext

----------------------------------------------------------------------------
(* HandlingInv: an extractor's snapshot belongs to the message it handles. *)

\* Streams only grow at the end.
LEMMA LogGrows ==
    ASSUME StoreInv, OperatorNext
    PROVE  \A s \in Streams : \A i \in Entries(s) : log'[s][i] = log[s][i]
  <1>1. ASSUME NEW r \in Relays, PublishRow(r)
        PROVE  \A s \in Streams : \A i \in Entries(s) : log'[s][i] = log[s][i]
    <2>1. PICK row \in relay[r].claimed : Publish(row.stream, row.payload)
      BY <1>1 DEF PublishRow
    <2>2. row \in OutboxRow
      BY DEF StoreInv, TypeOK, RelayTypeOK
    <2>3. /\ row.stream \in Streams /\ row.payload \in Job(row.stream)
          /\ \A s \in Streams : log[s] \in Seq(Job(s)) /\ Len(log[s]) \in Nat
          /\ log' = [log EXCEPT ![row.stream] = Append(log[row.stream], row.payload)]
          /\ DOMAIN log = Streams
      BY <2>1, <2>2, RowTypes, LogTypes DEF Publish, StoreInv, TypeOK, BrokerTypeOK
    <2> QED BY <2>3 DEF Entries
  <1>2. CASE UNCHANGED log
    BY <1>2
  <1> QED
    BY <1>1, <1>2 DEF OperatorNext, Next, ServiceStep, OperatorStep, RelayStep, RelayNext, ClaimOutboxBatch,
       CommitBatch, AbortBatch, ExtractorStep, ExtractorNext, ExtractorStart, ExtractorRead,
       ExtractorReclaim, ClaimSkips, ClaimExtracts, PersistStale, PersistTokens, ExtractorAck,
       ExtractorError, ClassifierStep, ClassifierNext, ClassifierStart, ClassifierRead,
       ClassifierReclaim, LookUpSkips, LookUpClassifies, ApplyDrops, ApplyResult, ClassifierAck,
       ClassifierError, StartConsumer, ReadNew, Reclaim, Ack, LeavePending, brokerVars

Handling(c) ==
    \A e \in inbox[c] : extraction[c].pc = "extracting" /\ Current(c, e) =>
        /\ log[StreamExtract][e].document_id = extraction[c].document_id
        /\ log[StreamExtract][e].run_version <= extraction[c].run_version

LEMMA HandlingFrame ==
    ASSUME StoreInv, OperatorNext, NEW c \in Extractors, Handling(c),
           \/ extraction'[c].pc # "extracting"
           \/ extraction'[c] = extraction[c] /\ inbox'[c] = inbox[c]
    PROVE  Handling(c)'
  <1>1. CASE extraction'[c].pc # "extracting"
    BY <1>1 DEF Handling
  <1>2. CASE extraction'[c] = extraction[c] /\ inbox'[c] = inbox[c]
    <2>1. \A e \in inbox[c] : log'[StreamExtract][e] = log[StreamExtract][e]
      <3>1. \A e \in inbox[c] : e \in Entries(StreamExtract)
        BY StreamTypes, JobTypes DEF StoreInv, TypeOK
      <3> QED BY <3>1, LogGrows, StreamTypes
    <2> QED BY <1>2, <2>1 DEF Handling, Current
  <1> QED BY <1>1, <1>2

\* A consumer handles one message at a time.
LEMMA CurrentUnique ==
    ASSUME StoreInv, NEW c \in Consumers, NEW e, NEW f, Current(c, e), Current(c, f)
    PROVE  e = f
  <1>1. e \in Nat /\ f \in Nat /\ e <= f /\ f <= e
    BY DEF Current, StoreInv, TypeOK, BrokerTypeOK
  <1> QED BY <1>1

\* The messages in an extractor's batch carry extract jobs.
LEMMA ExtractorJob ==
    ASSUME StoreInv, JobsInv, NEW c \in Extractors, NEW e \in inbox[c]
    PROVE  /\ JobAt(c, e) = log[StreamExtract][e]
           /\ log[StreamExtract][e] \in ExtractJob
           /\ ExtractJobOK(log[StreamExtract][e])
  <1>1. c \in Consumers /\ StreamOf(c) = StreamExtract /\ BrokerTypeOK /\ BrokerInv
    BY StreamTypes DEF StoreInv, TypeOK
  <1>2. e \in Entries(StreamExtract) /\ JobAt(c, e) \in ExtractJob
    BY <1>1, JobTypes DEF Job
  <1> QED BY <1>1, <1>2 DEF JobAt, JobsInv

LEMMA ClaimHandling ==
    ASSUME StoreInv, JobsInv, NEW c \in Extractors, NEW e \in inbox[c], ClaimExtracts(c, e)
    PROVE  Handling(c)'
  <1>1. PICK d : d = JobAt(c, e).document_id
    OBVIOUS
  <1>2. extraction'[c] = Extracting(d) /\ inbox' = inbox /\ log' = log /\ Current(c, e)
    BY <1>1 DEF ClaimExtracts, SetExtractor, brokerVars, StoreInv, TypeOK, ExtractionTypeOK
  <1>3. /\ log[StreamExtract][e].document_id = d
        /\ log[StreamExtract][e].run_version <= documents[d].run_version
    BY <1>1, ExtractorJob DEF ExtractJobOK
  <1> SUFFICES ASSUME NEW f \in inbox[c], Current(c, f)
               PROVE  /\ log[StreamExtract][f].document_id = extraction'[c].document_id
                      /\ log[StreamExtract][f].run_version <= extraction'[c].run_version
    BY <1>2 DEF Handling, Current
  <1>4. f = e
    BY <1>2, CurrentUnique, StreamTypes
  <1> QED BY <1>2, <1>3, <1>4 DEF Extracting

LEMMA HandlingStep ==
    ASSUME StoreInv, JobsInv, HandlingInv, OperatorNext
    PROVE  HandlingInv'
  <1> SUFFICES ASSUME NEW x \in Extractors PROVE Handling(x)'
    BY DEF HandlingInv, Handling
  <1>0. /\ Handling(x) /\ extraction \in [Extractors -> ExtractorState]
        /\ inbox \in [Consumers -> SUBSET Nat] /\ x \in Consumers
    BY StreamTypes DEF HandlingInv, Handling, StoreInv, TypeOK, ExtractionTypeOK, BrokerTypeOK
  <1>1. CASE UNCHANGED extraction /\ inbox'[x] = inbox[x]
    BY <1>0, <1>1, HandlingFrame
  <1>2. CASE ExtractorStep
    <2>1. PICK c \in Extractors : ExtractorNext(c)
      BY <1>2 DEF ExtractorStep
    <2>2. CASE x # c
      <3>1. extraction'[x] = extraction[x] /\ inbox'[x] = inbox[x]
        BY <1>0, <2>1, <2>2 DEF ExtractorNext, ExtractorStart, ExtractorRead, ExtractorReclaim, ClaimSkips,
           ClaimExtracts, PersistStale, PersistTokens, ExtractorAck, ExtractorError, SetExtractor,
           StartConsumer, ReadNew, Reclaim, Ack, LeavePending, brokerVars
      <3> QED BY <1>0, <3>1, HandlingFrame
    <2>3. CASE x = c
      <3>1. ASSUME NEW e \in inbox[c], ClaimExtracts(c, e) PROVE Handling(x)'
        BY <2>3, <3>1, ClaimHandling
      <3>2. CASE extraction'[c].pc # "extracting"
        BY <1>0, <2>3, <3>2, HandlingFrame
      <3>3. (\E e \in inbox[c] : ClaimExtracts(c, e)) \/ extraction'[c].pc # "extracting"
        BY <1>0, <2>1 DEF ExtractorNext, ExtractorStart, ExtractorRead, ExtractorReclaim, ClaimSkips,
           PersistStale, PersistTokens, ExtractorAck, ExtractorError, SetExtractor, AtPc
      <3> QED BY <3>1, <3>2, <3>3
    <2> QED BY <2>2, <2>3
  <1>3. CASE ClassifierStep
    <2>1. PICK c \in Classifiers : ClassifierNext(c)
      BY <1>3 DEF ClassifierStep
    <2>2. extraction' = extraction /\ x # c
      BY <1>3, ConsumersAssumption DEF ClassifierStep
    <2>3. inbox'[x] = inbox[x]
      BY <1>0, <2>1, <2>2 DEF ClassifierNext, ClassifierStart, ClassifierRead, ClassifierReclaim,
         LookUpSkips, LookUpClassifies, ApplyDrops, ApplyResult, ClassifierAck, ClassifierError,
         StartConsumer, ReadNew, Reclaim, Ack, LeavePending, brokerVars
    <2> QED BY <1>1, <2>2, <2>3
  <1> QED
    BY <1>1, <1>2, <1>3 DEF OperatorNext, Next, ServiceStep, OperatorStep, RelayStep, RelayNext,
       ClaimOutboxBatch, PublishRow, Publish, CommitBatch, AbortBatch, brokerVars

----------------------------------------------------------------------------
(* What a consumer's step does to the safe entries: it keeps them all, but  *)
(* for the one it is handling when the handler returns nil.                 *)

LEMMA ConsumerFrame ==
    ASSUME NEW c \in Consumers, NEW s \in Streams, NEW i \in Safe(s), i \in Outstanding(s)',
           \A x \in AboutToAck' \ {c} : x \in AboutToAck /\ inbox'[x] = inbox[x],
           c \in AboutToAck' /\ StreamOf(c) = s => ~Current(c, i)'
    PROVE  i \in Safe(s)'
  BY SafeKept

\* Reading, reclaiming, failing and restarting lose no outstanding entry;
\* XACK removes the handled one.
LEMMA OutstandingKept ==
    ASSUME StoreInv, NEW c \in Consumers, NEW s \in Streams, NEW i \in Outstanding(s)
    PROVE  /\ StartConsumer(c) \/ ReadNew(c) \/ UNCHANGED brokerVars => i \in Outstanding(s)'
           /\ \A batch : Reclaim(c, batch) => i \in Outstanding(s)'
           /\ \A e : LeavePending(c, e) => i \in Outstanding(s)'
           /\ \A e : Ack(c, e) /\ (s # StreamOf(c) \/ i # e) => i \in Outstanding(s)'
  <1>0. /\ lastDelivered \in [Streams -> Nat] /\ pel \in [Streams -> SUBSET Nat]
        /\ \A u \in Streams : Len(log[u]) \in Nat
    BY LogTypes DEF StoreInv, TypeOK, BrokerTypeOK
  <1>1. StartConsumer(c) \/ UNCHANGED brokerVars => i \in Outstanding(s)'
    BY DEF StartConsumer, brokerVars, Outstanding
  <1>2. ReadNew(c) => i \in Outstanding(s)'
    <2> SUFFICES ASSUME ReadNew(c) PROVE i \in Outstanding(s)'
      OBVIOUS
    <2>1. PICK u : u = StreamOf(c)
      OBVIOUS
    <2>2. PICK last : last = IF lastDelivered[u] + ReadCount <= Len(log[u])
                             THEN lastDelivered[u] + ReadCount ELSE Len(log[u])
      OBVIOUS
    <2>3. /\ u \in Streams
          /\ lastDelivered' = [lastDelivered EXCEPT ![u] = last]
          /\ pel' = [pel EXCEPT ![u] = pel[u] \cup (lastDelivered[u] + 1)..last]
          /\ log' = log
      BY <2>1, <2>2, StreamTypes DEF ReadNew
    <2>4. last \in Nat
      BY <1>0, <2>2, <2>3, ReadCountAssumption
    <2>5. CASE s # u
      BY <1>0, <2>3, <2>5 DEF Outstanding
    <2>6. CASE s = u /\ i \in pel[s]
      BY <1>0, <2>3, <2>6 DEF Outstanding
    <2>7. CASE s = u /\ i \in (lastDelivered[s] + 1)..Len(log[s])
      BY <1>0, <2>3, <2>4, <2>7 DEF Outstanding
    <2> QED BY <2>5, <2>6, <2>7 DEF Outstanding
  <1>3. ASSUME NEW batch, Reclaim(c, batch) PROVE i \in Outstanding(s)'
    BY <1>3 DEF Reclaim, Outstanding
  <1>4. ASSUME NEW e, LeavePending(c, e) PROVE i \in Outstanding(s)'
    BY <1>4 DEF LeavePending, Outstanding
  <1>5. ASSUME NEW e, Ack(c, e), s # StreamOf(c) \/ i # e PROVE i \in Outstanding(s)'
    BY <1>0, <1>5, StreamTypes DEF Ack, Outstanding
  <1> QED BY <1>1, <1>2, <1>3, <1>4, <1>5

\* A handler of c returns nil for message e.
ExtractorReturns(c, e) == ClaimSkips(c, e) \/ PersistStale(c, e) \/ PersistTokens(c, e)

ClassifierReturns(c, e) ==
    \/ LookUpSkips(c, e)
    \/ ApplyDrops(c, e)
    \/ \E category \in Categories : ApplyResult(c, e, category)

LEMMA ExtractorKeeps ==
    ASSUME StoreInv, NEW c \in Extractors, ExtractorNext(c), classification' = classification,
           NEW s \in Streams, NEW i \in Safe(s)
    PROVE  \/ i \in Safe(s)'
           \/ s = StreamExtract /\ \E e \in inbox[c] : i = e /\ Current(c, e) /\ ExtractorReturns(c, e)
  <1>0. /\ c \in Consumers /\ StreamOf(c) = StreamExtract /\ i \in Outstanding(s)
        /\ extraction \in [Extractors -> ExtractorState] /\ c \notin Classifiers
        /\ inbox \in [Consumers -> SUBSET Nat]
    BY StreamTypes, ConsumersAssumption DEF Safe, StoreInv, TypeOK, ExtractionTypeOK, BrokerTypeOK
  <1>1. \A x \in AboutToAck' \ {c} : x \in AboutToAck /\ inbox'[x] = inbox[x]
    <2>1. \A x \in Extractors \ {c} : extraction'[x] = extraction[x]
      BY <1>0 DEF ExtractorNext, ExtractorStart, ExtractorRead, ExtractorReclaim, ClaimSkips,
         ClaimExtracts, PersistStale, PersistTokens, ExtractorAck, ExtractorError, SetExtractor
    <2>2. \A x \in Consumers \ {c} : inbox'[x] = inbox[x]
      BY <1>0 DEF ExtractorNext, ExtractorStart, ExtractorRead, ExtractorReclaim, ClaimSkips,
         ClaimExtracts, PersistStale, PersistTokens, ExtractorAck, ExtractorError,
         StartConsumer, ReadNew, Reclaim, Ack, LeavePending, brokerVars
    <2> QED BY <2>1, <2>2 DEF AboutToAck, Consumers
  <1>2. ASSUME extraction'[c].pc # "done", i \in Outstanding(s)' PROVE i \in Safe(s)'
    <2>1. c \notin AboutToAck'
      BY <1>0, <1>2 DEF AboutToAck
    <2> QED BY <1>0, <1>1, <1>2, <2>1, ConsumerFrame
  <1>3. ASSUME NEW e \in inbox[c], ExtractorAck(c, e) PROVE i \in Safe(s)'
    <2>1. c \in AboutToAck /\ Current(c, e) /\ Ack(c, e) /\ extraction'[c].pc # "done"
      BY <1>0, <1>3 DEF ExtractorAck, Ack, AboutToAck, SetExtractor, AtPc
    <2>2. s # StreamOf(c) \/ i # e
      BY <2>1 DEF Safe
    <2> QED BY <1>0, <1>2, <2>1, <2>2, OutstandingKept
  <1>4. ASSUME NEW e \in inbox[c], ExtractorReturns(c, e), ~ (s = StreamExtract /\ i = e)
        PROVE  i \in Safe(s)'
    <2>1. UNCHANGED brokerVars /\ Current(c, e)
      BY <1>4 DEF ExtractorReturns, ClaimSkips, PersistStale, PersistTokens, PersistGuard
    <2>2. StreamOf(c) = s => ~Current(c, i)'
      BY <1>0, <1>4, <2>1, CurrentUnique DEF brokerVars, Current
    <2> QED BY <1>0, <1>1, <2>1, <2>2, OutstandingKept, ConsumerFrame
  <1>5. CASE ExtractorStart(c) \/ ExtractorRead(c)
    <2>1. extraction'[c].pc # "done" /\ (StartConsumer(c) \/ ReadNew(c))
      BY <1>0, <1>5 DEF ExtractorStart, ExtractorRead, SetExtractor, AtPc
    <2> QED BY <1>0, <1>2, <2>1, OutstandingKept
  <1>6. ASSUME NEW batch, ExtractorReclaim(c, batch) PROVE i \in Safe(s)'
    <2>1. extraction'[c].pc # "done" /\ Reclaim(c, batch)
      BY <1>6 DEF ExtractorReclaim
    <2> QED BY <1>0, <1>2, <2>1, OutstandingKept
  <1>7. ASSUME NEW e \in inbox[c], ExtractorError(c, e) PROVE i \in Safe(s)'
    <2>1. extraction'[c].pc # "done" /\ LeavePending(c, e)
      BY <1>0, <1>7 DEF ExtractorError, SetExtractor, AtPc
    <2> QED BY <1>0, <1>2, <2>1, OutstandingKept
  <1>8. ASSUME NEW e \in inbox[c], ClaimExtracts(c, e) PROVE i \in Safe(s)'
    <2>1. extraction'[c].pc # "done" /\ UNCHANGED brokerVars
      BY <1>0, <1>8 DEF ClaimExtracts, SetExtractor, Extracting
    <2> QED BY <1>0, <1>2, <2>1, OutstandingKept
  <1>9. \A e \in inbox[c] : ExtractorReturns(c, e) => Current(c, e)
    BY DEF ExtractorReturns, ClaimSkips, PersistStale, PersistTokens, PersistGuard
  <1> QED
    BY <1>3, <1>4, <1>5, <1>6, <1>7, <1>8, <1>9 DEF ExtractorNext, ExtractorReturns

LEMMA ClassifierKeeps ==
    ASSUME StoreInv, NEW c \in Classifiers, ClassifierNext(c), extraction' = extraction,
           NEW s \in Streams, NEW i \in Safe(s)
    PROVE  \/ i \in Safe(s)'
           \/ s = StreamClassify /\ \E e \in inbox[c] : i = e /\ Current(c, e) /\ ClassifierReturns(c, e)
  <1>0. /\ c \in Consumers /\ StreamOf(c) = StreamClassify /\ i \in Outstanding(s)
        /\ classification \in [Classifiers -> ClassifierPc] /\ c \notin Extractors
        /\ inbox \in [Consumers -> SUBSET Nat]
    BY StreamTypes, ConsumersAssumption DEF Safe, StoreInv, TypeOK, ClassificationTypeOK, BrokerTypeOK
  <1>1. \A x \in AboutToAck' \ {c} : x \in AboutToAck /\ inbox'[x] = inbox[x]
    <2>1. \A x \in Classifiers \ {c} : classification'[x] = classification[x]
      BY <1>0 DEF ClassifierNext, ClassifierStart, ClassifierRead, ClassifierReclaim, LookUpSkips,
         LookUpClassifies, ApplyDrops, ApplyResult, ClassifierAck, ClassifierError, SetClassifier
    <2>2. \A x \in Consumers \ {c} : inbox'[x] = inbox[x]
      BY <1>0 DEF ClassifierNext, ClassifierStart, ClassifierRead, ClassifierReclaim, LookUpSkips,
         LookUpClassifies, ApplyDrops, ApplyResult, ClassifierAck, ClassifierError,
         StartConsumer, ReadNew, Reclaim, Ack, LeavePending, brokerVars
    <2> QED BY <2>1, <2>2 DEF AboutToAck, Consumers
  <1>2. ASSUME classification'[c] # "done", i \in Outstanding(s)' PROVE i \in Safe(s)'
    <2>1. c \notin AboutToAck'
      BY <1>0, <1>2 DEF AboutToAck
    <2> QED BY <1>0, <1>1, <1>2, <2>1, ConsumerFrame
  <1>3. ASSUME NEW e \in inbox[c], ClassifierAck(c, e) PROVE i \in Safe(s)'
    <2>1. c \in AboutToAck /\ Current(c, e) /\ Ack(c, e) /\ classification'[c] # "done"
      BY <1>0, <1>3 DEF ClassifierAck, Ack, AboutToAck, SetClassifier
    <2>2. s # StreamOf(c) \/ i # e
      BY <2>1 DEF Safe
    <2> QED BY <1>0, <1>2, <2>1, <2>2, OutstandingKept
  <1>4. ASSUME NEW e \in inbox[c], ClassifierReturns(c, e), ~ (s = StreamClassify /\ i = e)
        PROVE  i \in Safe(s)'
    <2>1. UNCHANGED brokerVars /\ Current(c, e)
      BY <1>4 DEF ClassifierReturns, LookUpSkips, ApplyDrops, ApplyResult, ApplyGuard
    <2>2. StreamOf(c) = s => ~Current(c, i)'
      BY <1>0, <1>4, <2>1, CurrentUnique DEF brokerVars, Current
    <2> QED BY <1>0, <1>1, <2>1, <2>2, OutstandingKept, ConsumerFrame
  <1>5. CASE ClassifierStart(c) \/ ClassifierRead(c)
    <2>1. classification'[c] # "done" /\ (StartConsumer(c) \/ ReadNew(c))
      BY <1>0, <1>5 DEF ClassifierStart, ClassifierRead, SetClassifier
    <2> QED BY <1>0, <1>2, <2>1, OutstandingKept
  <1>6. ASSUME NEW batch, ClassifierReclaim(c, batch) PROVE i \in Safe(s)'
    <2>1. classification'[c] # "done" /\ Reclaim(c, batch)
      BY <1>6 DEF ClassifierReclaim
    <2> QED BY <1>0, <1>2, <2>1, OutstandingKept
  <1>7. ASSUME NEW e \in inbox[c], ClassifierError(c, e) PROVE i \in Safe(s)'
    <2>1. classification'[c] # "done" /\ LeavePending(c, e)
      BY <1>0, <1>7 DEF ClassifierError, SetClassifier
    <2> QED BY <1>0, <1>2, <2>1, OutstandingKept
  <1>8. ASSUME NEW e \in inbox[c], LookUpClassifies(c, e) PROVE i \in Safe(s)'
    <2>1. classification'[c] # "done" /\ UNCHANGED brokerVars
      BY <1>0, <1>8 DEF LookUpClassifies, SetClassifier
    <2> QED BY <1>0, <1>2, <2>1, OutstandingKept
  <1>9. \A e \in inbox[c] : ClassifierReturns(c, e) => Current(c, e)
    BY DEF ClassifierReturns, LookUpSkips, ApplyDrops, ApplyResult, ApplyGuard
  <1> QED
    BY <1>3, <1>4, <1>5, <1>6, <1>7, <1>8, <1>9 DEF ClassifierNext, ClassifierReturns

----------------------------------------------------------------------------
(* Covered: every piece of work left has a safe job. *)

Needy(d) == documents[d].status \in {"PENDING", "EXTRACTING"}

TokensCovered == \A t \in tokens : t.status = "PENDING" => ClassifyJobSafe(IdOf(t))

DocumentsCovered == \A d \in Docs : Needy(d) => ExtractJobSafe(CurrentJob(d))

\* A row that the current transaction writes is in no relay's hands yet.
LEMMA FreshRow ==
    ASSUME StoreInv, JobsInv, relay' = relay, NEW row \in outbox', row.id = outboxSeq + 1
    PROVE  row \in Unpublished'
  <1>1. \A r \in Relays : row \notin relay[r].published
    <2>1. \A x \in KnownRows : x.id <= outboxSeq
      BY DEF JobsInv
    <2>2. outboxSeq \in Nat
      BY DEF StoreInv, TypeOK, StoreTypeOK
    <2>3. row \notin KnownRows
      BY <2>1, <2>2
    <2> QED BY <2>3 DEF KnownRows
  <1> QED BY <1>1 DEF Unpublished

LEMMA UnpublishedKept ==
    ASSUME relay' = relay, outbox \subseteq outbox'
    PROVE  \A row \in Unpublished : row \in Unpublished'
  BY DEF Unpublished

\* Steps that leave the broker alone and no handler returns in.
LEMMA StillCovered ==
    ASSUME \A row \in Unpublished : row \in Unpublished',
           log' = log,
           \A i \in Safe(StreamClassify) : i \in Safe(StreamClassify)',
           \A i \in Safe(StreamExtract) : i \in Safe(StreamExtract)'
    PROVE  /\ \A id : ClassifyJobSafe(id) => ClassifyJobSafe(id)'
           /\ \A job : ExtractJobSafe(job) => ExtractJobSafe(job)'
  BY ClassifyKept, ExtractKept

LEMMA CoveredFrame ==
    ASSUME TokensCovered, DocumentsCovered, tokens' \subseteq tokens,
           \A d \in Docs : Needy(d)' => Needy(d) /\ documents'[d].run_version = documents[d].run_version,
           \A id : ClassifyJobSafe(id) => ClassifyJobSafe(id)',
           \A job : ExtractJobSafe(job) => ExtractJobSafe(job)'
    PROVE  TokensCovered' /\ DocumentsCovered'
  <1>1. TokensCovered'
    BY DEF TokensCovered
  <1>2. ASSUME NEW d \in Docs, Needy(d)' PROVE ExtractJobSafe(CurrentJob(d))'
    <2>1. PICK job : job = CurrentJob(d)
      OBVIOUS
    <2>2. CurrentJob(d)' = job
      BY <1>2, <2>1 DEF CurrentJob
    <2>3. ExtractJobSafe(job)'
      BY <1>2, <2>1 DEF DocumentsCovered
    <2> QED BY <2>2, <2>3 DEF ExtractJobSafe
  <1> QED BY <1>1, <1>2 DEF DocumentsCovered

LEMMA SubmitCovers ==
    ASSUME StoreInv, JobsInv, TokensCovered, DocumentsCovered, ServiceStep
    PROVE  TokensCovered' /\ DocumentsCovered'
  <1>1. PICK d \in Docs : Submit(d)
    BY DEF ServiceStep
  <1>2. UNCHANGED <<brokerVars, relayVars, extraction, classification>>
    BY DEF ServiceStep
  <1>3. /\ tokens' \subseteq tokens /\ outbox \subseteq outbox'
        /\ \A x \in Docs \ {d} : documents'[x] = documents[x]
    BY <1>1 DEF Submit, SubmitNew, SubmitFull, SubmitCompleted, SubmitFailed, SubmitActive, DeleteTokens,
       EnqueueExtract, EnqueueOutbox, InsertDocument, ResetDocument, SetDocumentPending, storeVars,
       StoreInv, TypeOK, StoreTypeOK
  <1>4. /\ \A id : ClassifyJobSafe(id) => ClassifyJobSafe(id)'
        /\ \A job : ExtractJobSafe(job) => ExtractJobSafe(job)'
    <2>1. \A row \in Unpublished : row \in Unpublished'
      BY <1>2, <1>3, UnpublishedKept DEF relayVars
    <2>2. Safe(StreamClassify)' = Safe(StreamClassify) /\ Safe(StreamExtract)' = Safe(StreamExtract) /\ log' = log
      BY <1>2 DEF Safe, AboutToAck, Outstanding, Current, brokerVars
    <2> QED BY <2>1, <2>2, StillCovered
  <1>5. CASE UNCHANGED documents
    BY <1>3, <1>4, <1>5, CoveredFrame DEF Needy
  <1>6. CASE EnqueueExtract(d, documents'[d].run_version)
    <2>1. PICK job : job = [document_id |-> d, run_version |-> documents'[d].run_version]
      OBVIOUS
    <2>2. PICK row : row = [id |-> outboxSeq + 1, stream |-> StreamExtract, payload |-> job]
      OBVIOUS
    <2>3. row \in outbox' /\ row.id = outboxSeq + 1
      BY <1>6, <2>1, <2>2 DEF EnqueueExtract, EnqueueOutbox
    <2>4. row \in Unpublished'
      BY <1>2, <2>3, FreshRow DEF relayVars
    <2>5. CurrentJob(d)' = job
      BY <2>1 DEF CurrentJob
    <2>6. ExtractJobSafe(CurrentJob(d))'
      BY <2>2, <2>4, <2>5 DEF ExtractJobSafe
    <2>7. TokensCovered'
      BY <1>3, <1>4 DEF TokensCovered
    <2>8. ASSUME NEW x \in Docs, x # d, Needy(x)' PROVE ExtractJobSafe(CurrentJob(x))'
      <3>1. PICK j : j = CurrentJob(x)
        OBVIOUS
      <3>2. Needy(x) /\ CurrentJob(x)' = j
        BY <1>3, <2>8, <3>1 DEF Needy, CurrentJob
      <3>3. ExtractJobSafe(j)'
        BY <1>4, <3>1, <3>2 DEF DocumentsCovered
      <3> QED BY <3>2, <3>3 DEF ExtractJobSafe
    <2> QED BY <2>6, <2>7, <2>8 DEF DocumentsCovered
  <1> QED BY <1>1, <1>5, <1>6, SubmitEnqueues

LEMMA OperatorCovers ==
    ASSUME StoreInv, TokensCovered, DocumentsCovered, OperatorStep
    PROVE  TokensCovered' /\ DocumentsCovered'
  <1>1. UNCHANGED <<tokens, outbox, brokerVars, relayVars, extraction, classification>>
    BY DEF OperatorStep, MarkFailed
  <1>2. /\ \A id : ClassifyJobSafe(id) => ClassifyJobSafe(id)'
        /\ \A job : ExtractJobSafe(job) => ExtractJobSafe(job)'
    BY <1>1, StillCovered DEF Safe, AboutToAck, Outstanding, Current, brokerVars, Unpublished, relayVars
  <1>3. \A d \in Docs : Needy(d)' => Needy(d) /\ documents'[d].run_version = documents[d].run_version
    <2>1. documents \in [Docs -> Document]
      BY DEF StoreInv, TypeOK, StoreTypeOK
    <2> QED BY <2>1 DEF OperatorStep, MarkFailed, Needy, Document
  <1> QED BY <1>1, <1>2, <1>3, CoveredFrame

LEMMA RelayCovers ==
    ASSUME StoreInv, TokensCovered, DocumentsCovered, RelayStep
    PROVE  TokensCovered' /\ DocumentsCovered'
  <1>1. PICK r \in Relays : RelayNext(r)
    BY DEF RelayStep
  <1>2. /\ UNCHANGED <<extraction, classification, documents, tokens>>
        /\ relay \in [Relays -> [claimed : SUBSET OutboxRow, published : SUBSET OutboxRow]]
    BY <1>1 DEF RelayStep, RelayNext, ClaimOutboxBatch, PublishRow, CommitBatch, AbortBatch, storeVars,
       StoreInv, TypeOK, RelayTypeOK
  <1>3. SUFFICES /\ \A id : ClassifyJobSafe(id) => ClassifyJobSafe(id)'
                 /\ \A job : ExtractJobSafe(job) => ExtractJobSafe(job)'
    BY <1>2, CoveredFrame DEF Needy
  <1>4. ASSUME \A row \in Unpublished : row \in Unpublished', UNCHANGED brokerVars
        PROVE  /\ \A id : ClassifyJobSafe(id) => ClassifyJobSafe(id)'
               /\ \A job : ExtractJobSafe(job) => ExtractJobSafe(job)'
    BY <1>2, <1>4, StillCovered DEF Safe, AboutToAck, Outstanding, Current, brokerVars
  <1>5. CASE ClaimOutboxBatch(r)
    <2>1. \A row \in Unpublished : row \in Unpublished'
      BY <1>2, <1>5 DEF ClaimOutboxBatch, Unpublished, storeVars
    <2> QED BY <1>4, <1>5, <2>1 DEF ClaimOutboxBatch
  <1>6. CASE CommitBatch(r) \/ AbortBatch(r)
    <2>1. \A row \in Unpublished : row \in Unpublished'
      BY <1>2, <1>6 DEF CommitBatch, AbortBatch, NoTransaction, DeleteOutbox, Unpublished, storeVars
    <2> QED BY <1>4, <1>6, <2>1 DEF CommitBatch, AbortBatch
  <1>7. CASE PublishRow(r)
    <2>1. PICK row \in relay[r].claimed :
             /\ Publish(row.stream, row.payload)
             /\ relay' = [relay EXCEPT ![r].published = relay[r].published \cup {row}]
      BY <1>7 DEF PublishRow
    <2>2. row.stream \in Streams
      BY <1>2, RowTypes
    <2>3. PICK n \in Nat : n = Len(log[row.stream])
      BY <2>2, LogTypes DEF StoreInv, TypeOK
    <2>4. /\ log' = [log EXCEPT ![row.stream] = Append(log[row.stream], row.payload)]
          /\ DOMAIN log = Streams /\ UNCHANGED <<lastDelivered, pel, inbox>>
          /\ \A s \in Streams : log[s] \in Seq(Job(s)) /\ Len(log[s]) \in Nat
          /\ row.payload \in Job(row.stream)
      BY <1>2, <2>1, RowTypes, LogTypes DEF Publish, StoreInv, TypeOK, BrokerTypeOK
    <2>5. log'[row.stream][n + 1] = row.payload /\ Len(log'[row.stream]) = n + 1
      BY <2>2, <2>3, <2>4
    <2>6. \A s \in Streams : \A i \in Outstanding(s) :
             i \in Outstanding(s)' /\ i \in 1..Len(log[s])
      <3>1. \A s \in Streams : /\ lastDelivered[s] \in Nat /\ lastDelivered[s] <= Len(log[s])
                               /\ pel[s] \subseteq 1..lastDelivered[s]
                               /\ Len(log[s]) <= Len(log'[s]) /\ Len(log'[s]) \in Nat
        BY <2>4, LogTypes DEF StoreInv, TypeOK, BrokerInv
      <3> QED BY <2>4, <3>1 DEF Outstanding
    <2>7. \A s \in Streams : \A i \in Safe(s) : i \in Safe(s)' /\ log'[s][i] = log[s][i]
      BY <1>2, <2>2, <2>4, <2>6 DEF Safe, AboutToAck, Current
    <2>8. n + 1 \in Safe(row.stream)'
      <3>1. lastDelivered[row.stream] \in Nat /\ lastDelivered[row.stream] <= n
        BY <2>2, <2>3, LogTypes DEF StoreInv, TypeOK, BrokerInv
      <3>2. n + 1 \in Outstanding(row.stream)'
        BY <2>3, <2>4, <2>5, <3>1 DEF Outstanding
      <3>3. \A c \in Consumers : StreamOf(c) = row.stream => n + 1 \notin inbox[c]
        BY <3>1 DEF StoreInv, BrokerInv
      <3> QED BY <1>2, <2>4, <3>2, <3>3 DEF Safe, AboutToAck, Current, Consumers
    <2>9. \A x \in Unpublished : x \in Unpublished' \/ x = row
      BY <1>2, <1>7, <2>1 DEF Unpublished, PublishRow, storeVars
    <2>10. ASSUME NEW id, ClassifyJobSafe(id) PROVE ClassifyJobSafe(id)'
      BY <2>5, <2>7, <2>8, <2>9, <2>10, StreamTypes DEF ClassifyJobSafe
    <2>11. ASSUME NEW job, ExtractJobSafe(job) PROVE ExtractJobSafe(job)'
      BY <2>5, <2>7, <2>8, <2>9, <2>11, StreamTypes DEF ExtractJobSafe
    <2> QED BY <2>10, <2>11
  <1> QED BY <1>1, <1>5, <1>6, <1>7 DEF RelayNext

\* The message a handler returns nil for is not the one its document waits for:
\* a skipped document needs no extraction, and the job of a stale persist names
\* an older run.
LEMMA ReturnedNotNeeded ==
    ASSUME StoreInv, JobsInv, HandlingInv, NEW c \in Extractors, NEW e \in inbox[c],
           ClaimSkips(c, e) \/ PersistStale(c, e),
           NEW d \in Docs, Needy(d)
    PROVE  log[StreamExtract][e] # CurrentJob(d)
  <1>1. PICK j : j = log[StreamExtract][e]
    OBVIOUS
  <1>2. j \in ExtractJob /\ j = JobAt(c, e) /\ ExtractJobOK(j)
    BY <1>1, ExtractorJob
  <1>3. SUFFICES ASSUME j = CurrentJob(d) PROVE FALSE
    BY <1>1
  <1>4. j.document_id = d /\ j.run_version = documents[d].run_version
    BY <1>3 DEF CurrentJob
  <1>5. CASE ClaimSkips(c, e)
    BY <1>2, <1>4, <1>5 DEF ClaimSkips, NothingToExtract, Needy
  <1>6. CASE PersistStale(c, e)
    <2>1. extraction[c].pc = "extracting" /\ Current(c, e)
      BY <1>6 DEF PersistStale, PersistGuard
    <2>2. extraction[c].document_id = d /\ documents[d].run_version <= extraction[c].run_version
      BY <1>1, <1>4, <2>1 DEF HandlingInv
    <2>3. extraction[c].run_version <= documents[d].run_version
      BY <2>1, <2>2 DEF StoreInv, SnapshotInv
    <2>4. documents[d].run_version # extraction[c].run_version
      BY <1>6, <2>2 DEF PersistStale
    <2>5. documents[d].run_version \in Nat /\ extraction[c].run_version \in Nat
      BY DEF StoreInv, TypeOK, StoreTypeOK, Document, ExtractionTypeOK, ExtractorState
    <2> QED BY <2>2, <2>3, <2>4, <2>5
  <1> QED BY <1>5, <1>6

\* persist covers every token it leaves PENDING, and its document stops
\* waiting for extraction.
LEMMA PersistCovers ==
    ASSUME StoreInv, JobsInv, TokensCovered, DocumentsCovered, relay' = relay,
           NEW c \in Extractors, NEW e \in inbox[c], PersistTokens(c, e),
           \A i \in Safe(StreamClassify) : i \in Safe(StreamClassify)',
           \A i \in Safe(StreamExtract) : i \in Safe(StreamExtract)' \/ i = e
    PROVE  TokensCovered'
  <1>1. PICK d, v, S : d = extraction[c].document_id /\ v = extraction[c].run_version
                       /\ S = Extract[extraction[c].text]
    OBVIOUS
  <1>2. PICK toks : toks = tokens'
    OBVIOUS
  <1>3. toks = UpsertTokens(tokens, d, v, S)
    BY <1>1, <1>2 DEF PersistTokens
  <1>4. \A row \in Unpublished : row \in Unpublished'
    BY UnpublishedKept DEF PersistTokens, EnqueueOutbox
  <1> SUFFICES ASSUME NEW t \in toks, t.status = "PENDING" PROVE ClassifyJobSafe(IdOf(t))'
    BY <1>2 DEF TokensCovered
  <1>5. CASE t \in tokens
    <2>1. ClassifyJobSafe(IdOf(t))
      BY <1>5 DEF TokensCovered
    <2>2. PICK id : id = IdOf(t)
      OBVIOUS
    <2>3. ClassifyJobSafe(id)'
      BY <1>4, <2>1, <2>2, ClassifyKept DEF PersistTokens, brokerVars
    <2> QED BY <2>2, <2>3
  <1>6. CASE t \notin tokens
    <2>1. t.document_id = d /\ t.run_version = v
      BY <1>3, <1>6 DEF UpsertTokens, NewToken
    <2>2. PICK job : job = [token_id |-> IdOf(t), document_id |-> d, run_version |-> v]
      OBVIOUS
    <2>3. job \in ClassifyJobs(toks, d, v)
      BY <2>1, <2>2 DEF ClassifyJobs, TokensForRun
    <2>4. PICK row : row = [id |-> outboxSeq + 1, stream |-> StreamClassify, payload |-> job]
      OBVIOUS
    <2>5. row \in outbox' /\ row.id = outboxSeq + 1
      BY <1>1, <1>2, <2>3, <2>4 DEF PersistTokens, EnqueueOutbox
    <2>6. row \in Unpublished'
      BY <2>5, FreshRow
    <2> QED BY <2>2, <2>4, <2>6 DEF ClassifyJobSafe
  <1> QED BY <1>5, <1>6

LEMMA ExtractorCovers ==
    ASSUME StoreInv, JobsInv, HandlingInv, TokensCovered, DocumentsCovered, ExtractorStep
    PROVE  TokensCovered' /\ DocumentsCovered'
  <1>1. PICK c \in Extractors : ExtractorNext(c)
    BY DEF ExtractorStep
  <1>2. relay' = relay /\ classification' = classification
    BY DEF ExtractorStep, relayVars
  <1>3. /\ \A i \in Safe(StreamClassify) : i \in Safe(StreamClassify)'
        /\ \A i \in Safe(StreamExtract) :
              \/ i \in Safe(StreamExtract)'
              \/ i \in inbox[c] /\ Current(c, i) /\ ExtractorReturns(c, i)
    BY <1>1, <1>2, ExtractorKeeps, StreamTypes
  <1>4. log' = log /\ outbox \subseteq outbox'
    BY <1>1 DEF ExtractorNext, ExtractorStart, ExtractorRead, ExtractorReclaim, ClaimSkips,
       ClaimExtracts, PersistStale, PersistTokens, ExtractorAck, ExtractorError, StartConsumer, ReadNew,
       Reclaim, Ack, LeavePending, EnqueueOutbox, storeVars, brokerVars
  <1>5. \A row \in Unpublished : row \in Unpublished'
    BY <1>2, <1>4, UnpublishedKept
  <1>6. \A id : ClassifyJobSafe(id) => ClassifyJobSafe(id)'
    BY <1>3, <1>4, <1>5, ClassifyKept
  \* The documents half, given that no needed job is acknowledged.
  <1>7. ASSUME \A d \in Docs : Needy(d)' =>
                  /\ Needy(d) /\ documents'[d].run_version = documents[d].run_version
                  /\ \A e \in inbox[c] : Current(c, e) /\ ExtractorReturns(c, e) =>
                        log[StreamExtract][e] # CurrentJob(d)
        PROVE  DocumentsCovered'
    <2> SUFFICES ASSUME NEW d \in Docs, Needy(d)' PROVE ExtractJobSafe(CurrentJob(d))'
      BY DEF DocumentsCovered
    <2>1. PICK job : job = CurrentJob(d)
      OBVIOUS
    <2>2. CurrentJob(d)' = job
      BY <1>7, <2>1 DEF CurrentJob
    <2>3. ExtractJobSafe(job)
      BY <1>7, <2>1 DEF DocumentsCovered
    <2>4. \A i \in Safe(StreamExtract) : log[StreamExtract][i] = job =>
             i \in Safe(StreamExtract)' /\ log'[StreamExtract][i] = log[StreamExtract][i]
      BY <1>3, <1>4, <1>7, <2>1
    <2>5. ExtractJobSafe(job)'
      BY <1>5, <2>3, <2>4, ExtractKept
    <2> QED BY <2>2, <2>5 DEF ExtractJobSafe
  <1>8. ASSUME NEW e \in inbox[c], PersistTokens(c, e)
        PROVE  TokensCovered' /\ DocumentsCovered'
    <2>1. Current(c, e)
      BY <1>8 DEF PersistTokens, PersistGuard
    <2>2. \A i \in Safe(StreamExtract) : i \in Safe(StreamExtract)' \/ i = e
      BY <1>3, <2>1, CurrentUnique, StreamTypes
    <2>3. TokensCovered'
      BY <1>2, <1>3, <1>8, <2>2, PersistCovers
    <2>4. PICK d : d = extraction[c].document_id
      OBVIOUS
    <2>5. d \in Docs /\ documents \in [Docs -> Document] /\ extraction[c].pc = "extracting"
      BY <1>8, <2>4, SnapshotTypes DEF PersistTokens, PersistGuard, StoreInv, TypeOK, StoreTypeOK
    <2>6. ~Needy(d)' /\ \A x \in Docs \ {d} : documents'[x] = documents[x]
      BY <1>8, <2>4, <2>5 DEF PersistTokens, Needy, MarkExtractionCompletedEmpty, AdvanceToClassifying, Document
    <2>7. log[StreamExtract][e].document_id = d
      BY <2>1, <2>4, <2>5 DEF HandlingInv
    <2>8. \A x \in Docs : Needy(x)' =>
             /\ Needy(x) /\ documents'[x].run_version = documents[x].run_version
             /\ log[StreamExtract][e] # CurrentJob(x)
      BY <2>6, <2>7 DEF Needy, CurrentJob
    <2>9. \A f \in inbox[c] : Current(c, f) => f = e
      BY <2>1, CurrentUnique, StreamTypes
    <2> QED BY <1>7, <2>3, <2>8, <2>9
  <1>9. ASSUME tokens' = tokens PROVE TokensCovered'
    BY <1>6, <1>9 DEF TokensCovered
  <1>10. ASSUME NEW e \in inbox[c], ClaimSkips(c, e) \/ PersistStale(c, e)
         PROVE  TokensCovered' /\ DocumentsCovered'
    <2>1. UNCHANGED <<documents, tokens>> /\ Current(c, e)
      BY <1>10 DEF ClaimSkips, PersistStale, PersistGuard, storeVars
    <2>2. \A f \in inbox[c] : Current(c, f) => f = e
      BY <2>1, CurrentUnique, StreamTypes
    <2>3. \A d \in Docs : Needy(d) => log[StreamExtract][e] # CurrentJob(d)
      BY <1>10, ReturnedNotNeeded
    <2> QED BY <1>7, <1>9, <2>1, <2>2, <2>3 DEF Needy
  <1>11. ASSUME tokens' = tokens,
                \A d \in Docs : Needy(d)' => Needy(d) /\ documents'[d].run_version = documents[d].run_version,
                \A e \in inbox[c] : ~ExtractorReturns(c, e)
         PROVE  TokensCovered' /\ DocumentsCovered'
    BY <1>7, <1>9, <1>11
  <1>12. ASSUME NEW e \in inbox[c], ClaimExtracts(c, e), \A f \in inbox[c] : ~ExtractorReturns(c, f)
         PROVE  TokensCovered' /\ DocumentsCovered'
    <2>1. documents \in [Docs -> Document]
      BY DEF StoreInv, TypeOK, StoreTypeOK
    <2>2. \A d \in Docs : Needy(d)' => Needy(d) /\ documents'[d].run_version = documents[d].run_version
      BY <1>12, <2>1 DEF ClaimExtracts, SetExtractionStarted, Needy, Document
    <2> QED BY <1>11, <1>12, <2>2 DEF ClaimExtracts
  <1>13. CASE \E e \in inbox[c] : ExtractorReturns(c, e)
    BY <1>8, <1>10, <1>13 DEF ExtractorReturns
  <1>14. CASE \A e \in inbox[c] : ~ExtractorReturns(c, e)
    <2>1. CASE UNCHANGED storeVars
      BY <1>11, <1>14, <2>1 DEF storeVars, Needy
    <2> QED
      BY <1>1, <1>12, <1>14, <2>1 DEF ExtractorNext, ExtractorReturns, ExtractorStart, ExtractorRead,
         ExtractorReclaim, ExtractorAck, ExtractorError
  <1> QED BY <1>13, <1>14

\* The message a classifier returns nil for names no token that is still
\* PENDING afterwards.
LEMMA ClassifiedNotNeeded ==
    ASSUME StoreInv, JobsInv, NEW c \in Classifiers, NEW e \in inbox[c], ClassifierReturns(c, e),
           NEW t \in tokens', t.status = "PENDING"
    PROVE  t \in tokens /\ log[StreamClassify][e].token_id # IdOf(t)
  <1>1. PICK j : j = log[StreamClassify][e]
    OBVIOUS
  <1>2. j = JobAt(c, e) /\ ClassifyJobOK(j)
    <2>1. c \in Consumers /\ StreamOf(c) = StreamClassify /\ BrokerTypeOK /\ BrokerInv
      BY StreamTypes DEF StoreInv, TypeOK
    <2>2. e \in Entries(StreamClassify)
      BY <2>1, JobTypes
    <2> QED BY <1>1, <2>1, <2>2 DEF JobAt, JobsInv
  <1>3. CASE LookUpSkips(c, e)
    BY <1>1, <1>2, <1>3 DEF LookUpSkips, IsPending, storeVars
  <1>4. CASE ApplyDrops(c, e)
    <2>1. t \in tokens /\ ~Applicable(t, j)
      BY <1>2, <1>4 DEF ApplyDrops, storeVars
    <2>2. SUFFICES ASSUME j.token_id = IdOf(t) PROVE FALSE
      BY <1>1, <2>1
    <2>3. t.run_version = j.run_version
      BY <1>2, <2>2 DEF ClassifyJobOK, IdOf
    <2>4. documents[t.document_id].run_version = t.run_version
      BY <2>1 DEF StoreInv, RunsDoNotMix
    <2> QED BY <2>1, <2>2, <2>3, <2>4 DEF Applicable
  <1>5. ASSUME NEW category \in Categories, ApplyResult(c, e, category)
        PROVE  t \in tokens /\ j.token_id # IdOf(t)
    <2>1. PICK u \in tokens : Applicable(u, j) /\ RecordResult(u, category)
      BY <1>2, <1>5 DEF ApplyResult
    <2>2. IdOf(u) = j.token_id /\ tokens' = SetTokenClassified(tokens, IdOf(u), category)
      BY <2>1 DEF Applicable, RecordResult
    <2>3. ASSUME NEW x \in tokens, t = [x EXCEPT !.status = "CLASSIFIED", !.classification = category]
          PROVE  FALSE
      <3>1. x \in Token
        BY DEF StoreInv, TypeOK, StoreTypeOK
      <3> QED BY <2>3, <3>1 DEF Token
    <2> QED BY <2>2, <2>3 DEF SetTokenClassified
  <1> QED BY <1>1, <1>3, <1>4, <1>5 DEF ClassifierReturns

LEMMA ClassifierCovers ==
    ASSUME StoreInv, JobsInv, TokensCovered, DocumentsCovered, ClassifierStep
    PROVE  TokensCovered' /\ DocumentsCovered'
  <1>1. PICK c \in Classifiers : ClassifierNext(c)
    BY DEF ClassifierStep
  <1>2. relay' = relay /\ extraction' = extraction
    BY DEF ClassifierStep, relayVars
  <1>3. /\ \A i \in Safe(StreamExtract) : i \in Safe(StreamExtract)'
        /\ \A i \in Safe(StreamClassify) :
              \/ i \in Safe(StreamClassify)'
              \/ i \in inbox[c] /\ Current(c, i) /\ ClassifierReturns(c, i)
    BY <1>1, <1>2, ClassifierKeeps, StreamTypes
  <1>4. log' = log /\ outbox' = outbox
    BY <1>1 DEF ClassifierNext, ClassifierStart, ClassifierRead, ClassifierReclaim, LookUpSkips,
       LookUpClassifies, ApplyDrops, ApplyResult, ClassifierAck, ClassifierError, StartConsumer, ReadNew,
       Reclaim, Ack, LeavePending, storeVars, brokerVars
  <1>5. \A row \in Unpublished : row \in Unpublished'
    BY <1>2, <1>4, UnpublishedKept
  <1>6. \A job : ExtractJobSafe(job) => ExtractJobSafe(job)'
    BY <1>3, <1>4, <1>5, ExtractKept
  <1>7. (\E e \in inbox[c] : ClassifierReturns(c, e)) \/ UNCHANGED storeVars
    BY <1>1 DEF ClassifierNext, ClassifierReturns, ClassifierStart, ClassifierRead, ClassifierReclaim,
       LookUpClassifies, ClassifierAck, ClassifierError
  <1>8. \A d \in Docs : Needy(d)' => Needy(d) /\ documents'[d].run_version = documents[d].run_version
    <2>1. documents \in [Docs -> Document]
      BY DEF StoreInv, TypeOK, StoreTypeOK
    <2>2. ASSUME NEW t \in tokens, NEW category \in Categories, RecordResult(t, category)
          PROVE  \A d \in Docs : Needy(d)' => Needy(d) /\ documents'[d].run_version = documents[d].run_version
      <3>1. t.document_id \in Docs
        BY DEF StoreInv, TypeOK, StoreTypeOK, Token
      <3> QED BY <2>1, <2>2, <3>1 DEF RecordResult, IncrementClassifiedCount, MarkDocumentCompleted,
                 Needy, Document
    <2>3. CASE UNCHANGED documents
      BY <2>3 DEF Needy
    <2> QED BY <1>7, <2>2, <2>3 DEF ClassifierReturns, LookUpSkips, ApplyDrops, ApplyResult, storeVars
  <1>9. ASSUME NEW d \in Docs, Needy(d)' PROVE ExtractJobSafe(CurrentJob(d))'
    <2>1. PICK job : job = CurrentJob(d)
      OBVIOUS
    <2>2. CurrentJob(d)' = job
      BY <1>8, <1>9, <2>1 DEF CurrentJob
    <2>3. ExtractJobSafe(job)'
      BY <1>6, <1>8, <1>9, <2>1 DEF DocumentsCovered
    <2> QED BY <2>2, <2>3 DEF ExtractJobSafe
  <1>10. ASSUME NEW t \in tokens', t.status = "PENDING" PROVE ClassifyJobSafe(IdOf(t))'
    <2>1. t \in tokens
      BY <1>7, <1>10, ClassifiedNotNeeded DEF storeVars
    <2>2. \A e \in inbox[c] : ClassifierReturns(c, e) => log[StreamClassify][e].token_id # IdOf(t)
      BY <1>10, ClassifiedNotNeeded
    <2>3. PICK id : id = IdOf(t)
      OBVIOUS
    <2>4. ClassifyJobSafe(id)
      BY <1>10, <2>1, <2>3 DEF TokensCovered
    <2>5. \A i \in Safe(StreamClassify) : log[StreamClassify][i].token_id = id =>
             i \in Safe(StreamClassify)' /\ log'[StreamClassify][i] = log[StreamClassify][i]
      BY <1>3, <1>4, <2>2, <2>3
    <2>6. ClassifyJobSafe(id)'
      BY <1>5, <2>4, <2>5, ClassifyKept
    <2> QED BY <2>3, <2>6
  <1> QED BY <1>9, <1>10 DEF TokensCovered, DocumentsCovered

----------------------------------------------------------------------------
(* The theorems. *)

LEMMA DeliveryParts == DeliveryInv <=> JobsInv /\ HandlingInv /\ TokensCovered /\ DocumentsCovered
  BY DEF DeliveryInv, TokensCovered, DocumentsCovered, Needy

LEMMA DeliveryStep ==
    ASSUME StoreInv, DeliveryInv, [OperatorNext]_vars
    PROVE  JobsInv' /\ HandlingInv' /\ TokensCovered' /\ DocumentsCovered'
  <1>0. JobsInv /\ HandlingInv /\ TokensCovered /\ DocumentsCovered
    BY DeliveryParts
  <1>1. CASE OperatorNext
    <2>1. JobsInv' /\ HandlingInv'
      BY <1>0, <1>1, JobsStep, HandlingStep
    <2>2. TokensCovered' /\ DocumentsCovered'
      BY <1>0, <1>1, SubmitCovers, OperatorCovers, RelayCovers, ExtractorCovers, ClassifierCovers
         DEF OperatorNext, Next
    <2> QED BY <2>1, <2>2
  <1>2. CASE UNCHANGED vars
    <2>1. UNCHANGED <<documents, tokens, outbox, outboxSeq, log, lastDelivered, pel, group, inbox, relay,
                      extraction, classification>>
      BY <1>2 DEF vars, storeVars, brokerVars, relayVars
    <2>2. JobsInv' /\ HandlingInv'
      BY <1>0, <2>1 DEF JobsInv, HandlingInv, KnownRows, ExtractJobOK, ClassifyJobOK, Entries, Current
    <2>3. UNCHANGED <<Unpublished, Safe(StreamExtract), Safe(StreamClassify)>>
      BY <2>1 DEF Unpublished, Safe, AboutToAck, Outstanding, Current
    <2>4. /\ \A id : ClassifyJobSafe(id) => ClassifyJobSafe(id)'
          /\ \A job : ExtractJobSafe(job) => ExtractJobSafe(job)'
      BY <2>1, <2>3, StillCovered
    <2>5. TokensCovered' /\ DocumentsCovered'
      BY <1>0, <2>1, <2>4, CoveredFrame DEF Needy
    <2> QED BY <2>2, <2>5
  <1> QED BY <1>1, <1>2

LEMMA DeliveryInit == Init => DeliveryInv
  <1> SUFFICES ASSUME Init PROVE DeliveryInv
    OBVIOUS
  <1>1. /\ tokens = {} /\ outbox = {} /\ relay = [r \in Relays |-> NoTransaction]
        /\ log = [s \in Streams |-> <<>>] /\ inbox = [c \in Consumers |-> {}]
        /\ documents = [d \in Docs |-> NoDocument]
    BY DEF Init, StoreInit, RelayInit, BrokerInit
  <1>2. JobsInv
    <2>1. KnownRows = {}
      BY <1>1 DEF KnownRows, NoTransaction
    <2>2. Entries(StreamExtract) = {} /\ Entries(StreamClassify) = {}
      BY <1>1, StreamTypes DEF Entries
    <2> QED BY <2>1, <2>2 DEF JobsInv
  <1>3. HandlingInv
    BY <1>1, StreamTypes DEF HandlingInv
  <1> QED BY <1>1, <1>2, <1>3 DEF DeliveryInv, NoDocument

\* The inductive invariant of delivery: while work is left, a job for it sits
\* where no relay commit and no XACK that is already due can remove it.  It
\* holds for any number of relays and consumers, and with an operator marking
\* documents FAILED; Redis must not lose its streams.
THEOREM DeliveryInvariant == OperatorSpec => []DeliveryInv
  <1>1. OperatorSpec => []StoreInv
    <2>1. [OperatorNext]_vars => [AdverseNext]_vars
      BY DEF AdverseNext
    <2> QED BY <2>1, StoreInvariant, PTL DEF OperatorSpec, AdverseSpec
  <1>2. StoreInv /\ DeliveryInv /\ [OperatorNext]_vars => DeliveryInv'
    <2> SUFFICES ASSUME StoreInv, DeliveryInv, [OperatorNext]_vars PROVE DeliveryInv'
      OBVIOUS
    <2>1. JobsInv' /\ HandlingInv' /\ TokensCovered' /\ DocumentsCovered'
      BY DeliveryStep
    <2> QED BY <2>1 DEF DeliveryInv, TokensCovered, DocumentsCovered, Needy
  <1> QED
    BY DeliveryInit, <1>1, <1>2, PTL DEF OperatorSpec

\* A token that is not classified yet always has a classify job waiting in the
\* outbox or in the stream.
THEOREM TokensNotLost == OperatorSpec => []NoLostToken
  <1>1. DeliveryInv => NoLostToken
    BY DEF DeliveryInv, NoLostToken, ClassifyJobSafe, Unpublished, Safe, Awaiting
  <1> QED BY DeliveryInvariant, <1>1, PTL

\* A document that is not extracted yet always has an extract job of its current
\* run waiting in the outbox or in the stream.
THEOREM DocumentsNotLost == OperatorSpec => []NoLostDocument
  <1>1. DeliveryInv => NoLostDocument
    BY DEF DeliveryInv, NoLostDocument, ExtractJobSafe, Unpublished, Safe, Awaiting
  <1> QED BY DeliveryInvariant, <1>1, PTL
============================================================================
