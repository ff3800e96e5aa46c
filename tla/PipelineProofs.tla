--------------------------- MODULE PipelineProofs ---------------------------
(***************************************************************************)
(* Proofs about Pipeline, for every set of documents, texts, consumers and *)
(* relays and every value of the bounds: its safety invariants, and that   *)
(* it implements DocumentResults and ConsumerGroup, with an operator who   *)
(* fails documents and a Redis that loses its data.                        *)
(***************************************************************************)
EXTENDS Pipeline, StoreResults, ConsumerGroup, StoreProofs

\* What the type invariant says of one outbox row and of one consumer.
LEMMA RowTypes ==
    ASSUME NEW row \in OutboxRow
    PROVE  /\ row.stream \in Streams
           /\ row.payload \in Job(row.stream)
           /\ row.id \in Nat
  BY DEF OutboxRow, Streams, Job, StreamExtract, StreamClassify

LEMMA StreamTypes ==
    /\ \A c \in Extractors : c \in Consumers /\ StreamOf(c) = StreamExtract
    /\ \A c \in Classifiers : c \in Consumers /\ StreamOf(c) = StreamClassify
    /\ \A c \in Consumers : StreamOf(c) \in Streams
    /\ StreamExtract \in Streams /\ StreamClassify \in Streams
    /\ StreamExtract # StreamClassify
  BY ConsumersAssumption DEF Consumers, StreamOf, Streams, StreamExtract, StreamClassify

\* A consumer only handles entries that are in its stream.
LEMMA JobTypes ==
    ASSUME BrokerTypeOK, BrokerInv,
           NEW c \in Consumers, NEW e \in inbox[c]
    PROVE  /\ e \in Entries(StreamOf(c))
           /\ JobAt(c, e) \in Job(StreamOf(c))
  <1>1. StreamOf(c) \in Streams
    BY StreamTypes
  <1>2. e \in 1..lastDelivered[StreamOf(c)]
    BY DEF BrokerInv
  <1>3. e \in 1..Len(log[StreamOf(c)])
    BY <1>1, <1>2 DEF BrokerInv, BrokerTypeOK
  <1> QED
    BY <1>1, <1>3 DEF Entries, JobAt, BrokerTypeOK

LEMMA LogTypes ==
    ASSUME BrokerTypeOK, NEW s \in Streams
    PROVE  /\ log[s] \in Seq(Job(s)) /\ Len(log[s]) \in Nat
           /\ lastDelivered[s] \in Nat
  <1>1. log[s] \in Seq(Job(s)) /\ lastDelivered[s] \in Nat
    BY DEF BrokerTypeOK
  <1> QED
    BY <1>1

----------------------------------------------------------------------------
(* The broker's own steps. *)

BrokerOK == BrokerTypeOK /\ BrokerInv

LEMMA PublishOK ==
    ASSUME BrokerOK, NEW s \in Streams, NEW j \in Job(s), Publish(s, j)
    PROVE  BrokerOK'
  <1>1. log'[s] = Append(log[s], j) /\ \A u \in Streams \ {s} : log'[u] = log[u]
    BY DEF Publish, BrokerOK, BrokerTypeOK
  <1>2. log[s] \in Seq(Job(s))
    BY DEF BrokerOK, BrokerTypeOK
  <1>3. log'[s] \in Seq(Job(s)) /\ Len(log'[s]) = Len(log[s]) + 1
    BY <1>1, <1>2
  <1>4. BrokerTypeOK'
    BY <1>1, <1>3 DEF Publish, BrokerOK, BrokerTypeOK
  <1>5. \A u \in Streams : Len(log[u]) <= Len(log'[u]) /\ Len(log[u]) \in Nat /\ Len(log'[u]) \in Nat
    BY <1>1, <1>2, <1>3, LogTypes DEF BrokerOK
  <1>6. BrokerInv'
    BY <1>5 DEF Publish, BrokerOK, BrokerInv, BrokerTypeOK
  <1> QED
    BY <1>4, <1>6 DEF BrokerOK

LEMMA StartConsumerOK ==
    ASSUME BrokerOK, NEW c \in Consumers, StartConsumer(c)
    PROVE  BrokerOK'
  BY StreamTypes DEF BrokerOK, BrokerTypeOK, BrokerInv, StartConsumer

LEMMA ReadNewOK ==
    ASSUME BrokerOK, NEW c \in Consumers, ReadNew(c)
    PROVE  BrokerOK'
  <1> DEFINE s == StreamOf(c)
             last == IF lastDelivered[s] + ReadCount <= Len(log[s])
                     THEN lastDelivered[s] + ReadCount ELSE Len(log[s])
             batch == (lastDelivered[s] + 1)..last
  <1>1. s \in Streams /\ lastDelivered[s] \in Nat /\ Len(log[s]) \in Nat
    BY StreamTypes DEF BrokerOK, BrokerTypeOK
  <1>2. /\ last \in Nat /\ last <= Len(log[s]) /\ lastDelivered[s] <= last
        /\ batch \subseteq 1..last
    <2>1. lastDelivered[s] < Len(log[s])
      BY DEF ReadNew
    <2> HIDE DEF s
    <2> QED BY <1>1, <2>1, ReadCountAssumption
  <1>3. /\ lastDelivered' = [lastDelivered EXCEPT ![s] = last]
        /\ pel' = [pel EXCEPT ![s] = @ \cup batch]
        /\ inbox' = [inbox EXCEPT ![c] = batch]
        /\ UNCHANGED <<log, group>>
    BY Zenon DEF ReadNew
  <1> HIDE DEF s, last, batch
  <1>4. BrokerTypeOK'
    <2>1. batch \in SUBSET Nat
      BY <1>2
    <2>2. pel' \in [Streams -> SUBSET Nat] /\ inbox' \in [Consumers -> SUBSET Nat]
      BY <1>1, <1>3, <2>1 DEF BrokerOK, BrokerTypeOK
    <2>3. lastDelivered' \in [Streams -> Nat]
      BY <1>1, <1>2, <1>3 DEF BrokerOK, BrokerTypeOK
    <2> QED BY <1>3, <2>2, <2>3 DEF BrokerOK, BrokerTypeOK
  <1>5. \A u \in Streams : lastDelivered'[u] \in Nat /\ lastDelivered[u] <= lastDelivered'[u]
    BY <1>1, <1>2, <1>3 DEF BrokerOK, BrokerTypeOK
  <1>6. \A u \in Streams : lastDelivered'[u] <= Len(log'[u]) /\ pel'[u] \subseteq 1..lastDelivered'[u]
    <2> TAKE u \in Streams
    <2>1. CASE u = s
      <3>1. lastDelivered'[u] = last /\ pel'[u] = pel[s] \cup batch /\ log' = log
        BY <2>1, <1>1, <1>3 DEF BrokerOK, BrokerTypeOK
      <3>2. pel[s] \subseteq 1..lastDelivered[s]
        BY <1>1 DEF BrokerOK, BrokerInv
      <3>3. pel[s] \subseteq 1..last
        BY <3>2, <1>1, <1>2
      <3>4. pel'[u] \subseteq 1..lastDelivered'[u]
        BY <3>1, <3>3, <1>2
      <3> QED BY <2>1, <3>1, <3>4, <1>2
    <2>2. CASE u # s
      BY <2>2, <1>1, <1>3 DEF BrokerOK, BrokerTypeOK, BrokerInv
    <2> QED BY <2>1, <2>2
  <1>7. \A k \in Consumers : inbox'[k] \subseteq 1..lastDelivered'[StreamOf(k)]
    <2> TAKE k \in Consumers
    <2>1. CASE k = c
      BY <2>1, <1>1, <1>2, <1>3 DEF BrokerOK, BrokerTypeOK, s
    <2>2. CASE k # c
      BY <2>2, <1>3, <1>5, StreamTypes DEF BrokerOK, BrokerTypeOK, BrokerInv
    <2> QED BY <2>1, <2>2
  <1> QED
    BY <1>4, <1>6, <1>7 DEF BrokerOK, BrokerInv

LEMMA ReclaimOK ==
    ASSUME BrokerOK, NEW c \in Consumers, NEW batch, Reclaim(c, batch)
    PROVE  BrokerOK'
  BY StreamTypes DEF BrokerOK, BrokerTypeOK, BrokerInv, Reclaim

LEMMA AckOK ==
    ASSUME BrokerOK, NEW c \in Consumers, NEW e, Ack(c, e)
    PROVE  BrokerOK'
  BY StreamTypes DEF BrokerOK, BrokerTypeOK, BrokerInv, Ack

LEMMA LeavePendingOK ==
    ASSUME BrokerOK, NEW c \in Consumers, NEW e, LeavePending(c, e)
    PROVE  BrokerOK'
  BY StreamTypes DEF BrokerOK, BrokerTypeOK, BrokerInv, LeavePending

LEMMA LoseStreamsOK ==
    ASSUME BrokerOK, LoseStreams
    PROVE  BrokerOK'
  <1>1. \A s \in Streams : Len(log[s]) \in Nat
    BY DEF BrokerOK, BrokerTypeOK
  <1> QED
    BY <1>1, StreamTypes DEF BrokerOK, BrokerTypeOK, BrokerInv, LoseStreams

----------------------------------------------------------------------------
(* Types of the tables. *)

LEMMA UpsertFinite ==
    ASSUME NEW toks, IsFiniteSet(toks), NEW d, NEW v, NEW S \in SUBSET Entities
    PROVE  IsFiniteSet(UpsertTokens(toks, d, v, S))
  <1> DEFINE F == {f \in S : \A t \in toks : IdOf(t) # <<d, v, f>>}
             N == {NewToken(d, v, e) : e \in F}
             g == [e \in F |-> NewToken(d, v, e)]
  <1>1. IsFiniteSet(F)
    BY EntitiesAssumption, FS_Subset
  <1>2. g \in Surjection(F, N)
    BY DEF Surjection
  <1>3. IsFiniteSet(N)
    <2> HIDE DEF F, N, g
    <2> QED BY <1>1, <1>2, FS_Surjection
  <1>4. IsFiniteSet(toks \cup N)
    <2> HIDE DEF N
    <2> QED BY <1>3, FS_Union
  <1> QED
    BY <1>4 DEF UpsertTokens

LEMMA UpsertTypes ==
    ASSUME NEW toks \in SUBSET Token, NEW d \in Docs, NEW v \in Nat,
           NEW S \in SUBSET Entities
    PROVE  UpsertTokens(toks, d, v, S) \subseteq Token
  BY DEF UpsertTokens, NewToken, Token, TokenStatus

LEMMA EnqueueExtractTypes ==
    ASSUME StoreTypeOK, NEW d \in Docs, NEW v \in Nat, EnqueueExtract(d, v)
    PROVE  outbox' \subseteq OutboxRow /\ outboxSeq' \in Nat
  <1>1. [document_id |-> d, run_version |-> v] \in ExtractJob
    BY DEF ExtractJob
  <1>2. [id |-> outboxSeq + 1, stream |-> StreamExtract,
         payload |-> [document_id |-> d, run_version |-> v]] \in OutboxRow
    BY <1>1 DEF OutboxRow, StoreTypeOK
  <1> QED
    BY <1>2 DEF EnqueueExtract, EnqueueOutbox, StoreTypeOK

LEMMA SubmitTypes ==
    ASSUME StoreTypeOK, submits \in 0..MaxSubmits, NEW d \in Docs, Submit(d)
    PROVE  StoreTypeOK' /\ submits' \in 0..MaxSubmits
  <1>0. Request => submits' \in 0..MaxSubmits
    BY MaxSubmitsAssumption DEF Request
  <1>1. ASSUME NEW text \in Texts, SubmitNew(d, text)
        PROVE  StoreTypeOK' /\ Request
    <2>1. documents' \in [Docs -> Document]
      BY <1>1 DEF SubmitNew, InsertDocument, StoreTypeOK, Document, NoDocument,
                  DocStatus, ActiveStatus
    <2>2. outbox' \subseteq OutboxRow /\ outboxSeq' \in Nat
      BY <1>1, EnqueueExtractTypes DEF SubmitNew
    <2> QED BY <1>1, <2>1, <2>2 DEF SubmitNew, StoreTypeOK
  <1>2. ASSUME NEW text \in Texts, SubmitFull(d, text)
        PROVE  StoreTypeOK' /\ Request
    <2>1. documents' \in [Docs -> Document]
      BY <1>2 DEF SubmitFull, ResetDocument, StoreTypeOK, Document, DocStatus, ActiveStatus
    <2>2. documents'[d].run_version \in Nat
      BY <2>1 DEF Document
    <2>3. outbox' \subseteq OutboxRow /\ outboxSeq' \in Nat
      BY <1>2, <2>2, EnqueueExtractTypes DEF SubmitFull
    <2> QED BY <1>2, <2>1, <2>3 DEF SubmitFull, DeleteTokens, StoreTypeOK
  <1>3. CASE SubmitCompleted(d)
    BY <1>0, <1>3 DEF SubmitCompleted, storeVars, StoreTypeOK
  <1>4. CASE SubmitFailed(d)
    <2>1. documents' \in [Docs -> Document]
      BY <1>4 DEF SubmitFailed, SetDocumentPending, StoreTypeOK, Document, DocStatus, ActiveStatus
    <2>2. documents[d].run_version \in Nat
      BY DEF StoreTypeOK, Document
    <2>3. outbox' \subseteq OutboxRow /\ outboxSeq' \in Nat
      BY <1>4, <2>2, EnqueueExtractTypes DEF SubmitFailed
    <2> QED BY <1>0, <1>4, <2>1, <2>3 DEF SubmitFailed, StoreTypeOK
  <1>5. CASE SubmitActive(d)
    <2>2. documents[d].run_version \in Nat
      BY DEF StoreTypeOK, Document
    <2>3. outbox' \subseteq OutboxRow /\ outboxSeq' \in Nat
      BY <1>5, <2>2, EnqueueExtractTypes DEF SubmitActive
    <2> QED BY <1>0, <1>5, <2>3 DEF SubmitActive, StoreTypeOK
  <1> QED
    BY <1>0, <1>1, <1>2, <1>3, <1>4, <1>5 DEF Submit

\* What the invariant says of a snapshot that is still current.
LEMMA SnapshotTypes ==
    ASSUME StoreInv, NEW c \in Extractors, extraction[c].pc = "extracting"
    PROVE  /\ extraction[c].document_id \in Docs
           /\ extraction[c].run_version \in Nat
           /\ documents[extraction[c].document_id].status # "NONE"
           /\ documents[extraction[c].document_id].run_version = extraction[c].run_version =>
                /\ extraction[c].text = documents[extraction[c].document_id].text
                /\ extraction[c].text \in Texts
                /\ Extract[extraction[c].text] \in SUBSET Entities
  <1> DEFINE d == extraction[c].document_id
  <1>1. /\ d \in Docs /\ documents[d].status # "NONE"
        /\ documents[d].run_version = extraction[c].run_version => extraction[c].text = documents[d].text
    BY DEF StoreInv, SnapshotInv
  <1>2. documents[d].text \in Texts
    BY <1>1 DEF StoreInv, DocumentRowsInv
  <1>3. extraction[c].run_version \in Nat
    BY DEF StoreInv, TypeOK, ExtractionTypeOK, ExtractorState
  <1> QED
    BY <1>1, <1>2, <1>3, ExtractAssumption

LEMMA PersistTypes ==
    ASSUME StoreInv, NEW c \in Extractors, NEW e, PersistTokens(c, e)
    PROVE  StoreTypeOK' /\ IsFiniteSet(tokens')
  <1> DEFINE d == extraction[c].document_id
             v == extraction[c].run_version
             S == Extract[extraction[c].text]
             total == CountTokens(tokens', d, v)
             jobs == ClassifyJobs(tokens', d, v)
  <1>1. d \in Docs /\ v \in Nat /\ S \in SUBSET Entities
    BY SnapshotTypes DEF PersistTokens, PersistGuard
  <1>2. tokens' = UpsertTokens(tokens, d, v, S)
    BY DEF PersistTokens
  <1>3. tokens' \subseteq Token
    <2>1. tokens \in SUBSET Token
      BY DEF StoreInv, TypeOK, StoreTypeOK
    <2> HIDE DEF S, d, v
    <2> QED BY <1>1, <1>2, <2>1, UpsertTypes
  <1>4. IsFiniteSet(tokens')
    <2>1. IsFiniteSet(tokens)
      BY DEF StoreInv, TokenRowsInv
    <2> HIDE DEF S, d, v
    <2> QED BY <1>1, <1>2, <2>1, UpsertFinite
  <1>5. total \in Nat
    <2>1. IsFiniteSet(TokensForRun(tokens', d, v))
      BY <1>4, FS_Subset DEF TokensForRun
    <2> QED BY <2>1, FS_CardinalityType DEF CountTokens
  <1>6. documents' \in [Docs -> Document]
    <2>1. documents' = IF total = 0 THEN MarkExtractionCompletedEmpty(documents, d)
                       ELSE AdvanceToClassifying(documents, d, total)
      BY DEF PersistTokens
    <2>2. documents \in [Docs -> Document]
      BY DEF StoreInv, TypeOK, StoreTypeOK
    <2> HIDE DEF total, d
    <2>0. documents[d] \in Document
      BY <1>1, <2>2
    <2>3. MarkExtractionCompletedEmpty(documents, d) \in [Docs -> Document]
      BY <1>1, <2>2, <2>0 DEF MarkExtractionCompletedEmpty, Document, DocStatus, Stamps
    <2>4. AdvanceToClassifying(documents, d, total) \in [Docs -> Document]
      BY <1>1, <1>5, <2>2, <2>0 DEF AdvanceToClassifying, Document, DocStatus, ActiveStatus, Stamps
    <2> QED BY <2>1, <2>3, <2>4
  <1>7. jobs \subseteq ClassifyJob
    BY <1>1, <1>3 DEF ClassifyJobs, TokensForRun, ClassifyJob, TokenId, IdOf, Token
  <1>8. outbox' \subseteq OutboxRow /\ outboxSeq' \in Nat
    <2>1. outbox' = EnqueueOutbox(outbox, StreamClassify, jobs) /\ outboxSeq' = outboxSeq + 1
      BY DEF PersistTokens
    <2>2. outbox \subseteq OutboxRow /\ outboxSeq \in Nat
      BY DEF StoreInv, TypeOK, StoreTypeOK
    <2> HIDE DEF jobs
    <2>3. \A j \in jobs : [id |-> outboxSeq + 1, stream |-> StreamClassify, payload |-> j]
                             \in OutboxRow
      BY <1>7, <2>2 DEF OutboxRow
    <2> QED BY <2>1, <2>2, <2>3 DEF EnqueueOutbox
  <1> QED
    BY <1>3, <1>4, <1>6, <1>8 DEF StoreTypeOK

LEMMA RecordTypes ==
    ASSUME StoreInv, NEW t \in tokens, NEW category \in Categories,
           RecordResult(t, category)
    PROVE  documents' \in [Docs -> Document] /\ tokens' \subseteq Token
  <1>1. t.document_id \in Docs
    BY DEF StoreInv, TypeOK, StoreTypeOK, Token
  <1>2. documents' \in [Docs -> Document]
    BY <1>1 DEF RecordResult, IncrementClassifiedCount, MarkDocumentCompleted,
       StoreInv, TypeOK, StoreTypeOK, Document, DocStatus, Stamps
  <1>3. tokens' \subseteq Token
    BY DEF RecordResult, SetTokenClassified, StoreInv, TypeOK, StoreTypeOK, Token, TokenStatus
  <1> QED BY <1>2, <1>3

LEMMA RelayTypes ==
    ASSUME TypeOK, BrokerInv, NEW r \in Relays, RelayNext(r)
    PROVE  StoreTypeOK' /\ BrokerOK' /\ RelayTypeOK'
  <1>0. BrokerOK
    BY DEF TypeOK, BrokerOK
  <1>1. CASE ClaimOutboxBatch(r)
    <2>1. PICK batch \in SUBSET (outbox \ Locked) : relay' = [relay EXCEPT ![r].claimed = batch]
      BY <1>1 DEF ClaimOutboxBatch
    <2>2. batch \in SUBSET OutboxRow
      BY DEF TypeOK, StoreTypeOK
    <2>3. RelayTypeOK'
      BY <1>1, <2>1, <2>2 DEF ClaimOutboxBatch, TypeOK, RelayTypeOK
    <2> QED
      BY <1>0, <1>1, <2>3 DEF ClaimOutboxBatch, storeVars, brokerVars, TypeOK, StoreTypeOK,
                              BrokerOK, BrokerTypeOK, BrokerInv, Outstanding
  <1>2. CASE PublishRow(r)
    <2>1. PICK row \in relay[r].claimed :
             /\ Publish(row.stream, row.payload)
             /\ relay' = [relay EXCEPT ![r].published = relay[r].published \cup {row}]
      BY <1>2 DEF PublishRow
    <2>2. row \in OutboxRow
      BY DEF TypeOK, RelayTypeOK
    <2>3. BrokerOK'
      BY <1>0, <2>1, <2>2, RowTypes, PublishOK
    <2>4. relay[r].published \cup {row} \in SUBSET OutboxRow
      BY <2>2 DEF TypeOK, RelayTypeOK
    <2>5. RelayTypeOK'
      BY <1>2, <2>1, <2>4 DEF PublishRow, TypeOK, RelayTypeOK
    <2> QED
      BY <1>2, <2>3, <2>5 DEF PublishRow, storeVars, TypeOK, StoreTypeOK
  <1>3. CASE CommitBatch(r)
    BY <1>0, <1>3 DEF CommitBatch, DeleteOutbox, NoTransaction, brokerVars, TypeOK,
       StoreTypeOK, RelayTypeOK, BrokerOK, BrokerTypeOK, BrokerInv
  <1>4. CASE AbortBatch(r)
    BY <1>0, <1>4, MaxAbortsAssumption DEF AbortBatch, NoTransaction, storeVars, brokerVars, TypeOK,
       StoreTypeOK, RelayTypeOK, BrokerOK, BrokerTypeOK, BrokerInv
  <1> QED
    BY <1>1, <1>2, <1>3, <1>4 DEF RelayNext

LEMMA ExtractorTypes ==
    ASSUME StoreInv, NEW c \in Extractors, ExtractorNext(c)
    PROVE  StoreTypeOK' /\ BrokerOK' /\ ExtractionTypeOK'
  <1>0. /\ BrokerOK /\ StoreTypeOK /\ ExtractionTypeOK /\ c \in Consumers
        /\ StreamOf(c) = StreamExtract
    BY StreamTypes DEF StoreInv, TypeOK, BrokerOK
  <1> DEFINE Idle == SetExtractor(c, AtPc("idle"))
             Done == SetExtractor(c, AtPc("done"))
  <1>1. Idle \/ Done => ExtractionTypeOK'
    BY <1>0 DEF SetExtractor, AtPc, ExtractionTypeOK, ExtractorState
  <1>2. UNCHANGED storeVars => StoreTypeOK'
    BY <1>0 DEF storeVars, StoreTypeOK
  <1>3. UNCHANGED brokerVars => BrokerOK'
    BY <1>0 DEF brokerVars, BrokerOK, BrokerTypeOK, BrokerInv
  <1>4. CASE ExtractorStart(c)
    BY <1>0, <1>1, <1>2, <1>4, StartConsumerOK DEF ExtractorStart
  <1>5. CASE ExtractorRead(c)
    BY <1>0, <1>2, <1>5, ReadNewOK DEF ExtractorRead, ExtractionTypeOK
  <1>6. ASSUME NEW batch \in SUBSET pel[StreamExtract], ExtractorReclaim(c, batch)
        PROVE  StoreTypeOK' /\ BrokerOK' /\ ExtractionTypeOK'
    BY <1>0, <1>2, <1>6, ReclaimOK DEF ExtractorReclaim, ExtractionTypeOK
  <1>7. ASSUME NEW e \in inbox[c], ClaimSkips(c, e) \/ PersistStale(c, e)
        PROVE  StoreTypeOK' /\ BrokerOK' /\ ExtractionTypeOK'
    BY <1>1, <1>2, <1>3, <1>7 DEF ClaimSkips, PersistStale
  <1>8. ASSUME NEW e \in inbox[c], ClaimExtracts(c, e)
        PROVE  StoreTypeOK' /\ BrokerOK' /\ ExtractionTypeOK'
    <2> DEFINE d == JobAt(c, e).document_id
    <2>1. d \in Docs
      <3>1. JobAt(c, e) \in ExtractJob
        BY <1>0, JobTypes DEF BrokerOK, Job
      <3> QED BY <3>1 DEF ExtractJob
    <2>2. documents[d] \in Document
      BY <1>0, <2>1 DEF StoreTypeOK
    <2>3. SetExtractionStarted(documents, d) \in [Docs -> Document]
      <3> HIDE DEF d
      <3> QED BY <1>0, <2>1, <2>2 DEF SetExtractionStarted, StoreTypeOK, Document, DocStatus,
                                      ActiveStatus, Stamps
    <2>4. documents' \in [Docs -> Document]
      BY <1>0, <1>8, <2>3 DEF ClaimExtracts, StoreTypeOK
    <2>5. ExtractionTypeOK'
      BY <1>0, <1>8, <2>1, <2>2 DEF ClaimExtracts, SetExtractor, Extracting, ExtractionTypeOK,
                                    ExtractorState, Document
    <2> QED
      BY <1>0, <1>3, <1>8, <2>4, <2>5 DEF ClaimExtracts, StoreTypeOK
  <1>9. ASSUME NEW e \in inbox[c], PersistTokens(c, e)
        PROVE  StoreTypeOK' /\ BrokerOK' /\ ExtractionTypeOK'
    BY <1>1, <1>3, <1>9, PersistTypes DEF PersistTokens
  <1>10. ASSUME NEW e \in inbox[c], ExtractorAck(c, e)
         PROVE  StoreTypeOK' /\ BrokerOK' /\ ExtractionTypeOK'
    BY <1>0, <1>1, <1>2, <1>10, AckOK DEF ExtractorAck
  <1>11. ASSUME NEW e \in inbox[c], ExtractorError(c, e)
         PROVE  StoreTypeOK' /\ BrokerOK' /\ ExtractionTypeOK'
    BY <1>0, <1>1, <1>2, <1>11, LeavePendingOK DEF ExtractorError
  <1> QED
    BY <1>4, <1>5, <1>6, <1>7, <1>8, <1>9, <1>10, <1>11 DEF ExtractorNext

LEMMA ClassifierTypes ==
    ASSUME StoreInv, NEW c \in Classifiers, ClassifierNext(c)
    PROVE  StoreTypeOK' /\ BrokerOK' /\ ClassificationTypeOK'
  <1>0. BrokerOK /\ StoreTypeOK /\ ClassificationTypeOK /\ c \in Consumers
    BY StreamTypes DEF StoreInv, TypeOK, BrokerOK
  <1>1. \A pc \in ClassifierPc : SetClassifier(c, pc) => ClassificationTypeOK'
    BY <1>0 DEF SetClassifier, ClassificationTypeOK
  <1>2. UNCHANGED storeVars => StoreTypeOK'
    BY <1>0 DEF storeVars, StoreTypeOK
  <1>3. UNCHANGED brokerVars => BrokerOK'
    BY <1>0 DEF brokerVars, BrokerOK, BrokerTypeOK, BrokerInv
  <1>4. CASE ClassifierStart(c)
    BY <1>0, <1>1, <1>2, <1>4, StartConsumerOK DEF ClassifierStart, ClassifierPc
  <1>5. CASE ClassifierRead(c)
    BY <1>0, <1>2, <1>5, ReadNewOK DEF ClassifierRead, ClassificationTypeOK
  <1>6. ASSUME NEW batch \in SUBSET pel[StreamClassify], ClassifierReclaim(c, batch)
        PROVE  StoreTypeOK' /\ BrokerOK' /\ ClassificationTypeOK'
    BY <1>0, <1>2, <1>6, ReclaimOK DEF ClassifierReclaim, ClassificationTypeOK
  <1>7. ASSUME NEW e \in inbox[c],
               LookUpSkips(c, e) \/ LookUpClassifies(c, e) \/ ApplyDrops(c, e)
        PROVE  StoreTypeOK' /\ BrokerOK' /\ ClassificationTypeOK'
    BY <1>1, <1>2, <1>3, <1>7 DEF LookUpSkips, LookUpClassifies, ApplyDrops, ClassifierPc
  <1>8. ASSUME NEW e \in inbox[c], NEW category \in Categories, ApplyResult(c, e, category)
        PROVE  StoreTypeOK' /\ BrokerOK' /\ ClassificationTypeOK'
    <2>1. PICK t \in tokens : RecordResult(t, category)
      BY <1>8 DEF ApplyResult
    <2>2. documents' \in [Docs -> Document] /\ tokens' \subseteq Token
      BY <2>1, RecordTypes
    <2> QED
      BY <1>0, <1>1, <1>3, <1>8, <2>2 DEF ApplyResult, StoreTypeOK, ClassifierPc
  <1>9. ASSUME NEW e \in inbox[c], ClassifierAck(c, e)
        PROVE  StoreTypeOK' /\ BrokerOK' /\ ClassificationTypeOK'
    BY <1>0, <1>1, <1>2, <1>9, AckOK DEF ClassifierAck, ClassifierPc
  <1>10. ASSUME NEW e \in inbox[c], ClassifierError(c, e)
         PROVE  StoreTypeOK' /\ BrokerOK' /\ ClassificationTypeOK'
    BY <1>0, <1>1, <1>2, <1>10, LeavePendingOK DEF ClassifierError, ClassifierPc
  <1> QED
    BY <1>4, <1>5, <1>6, <1>7, <1>8, <1>9, <1>10 DEF ClassifierNext

LEMMA TypeStep ==
    ASSUME StoreInv, [AdverseNext]_vars
    PROVE  TypeOK' /\ BrokerInv'
  <1>0. TypeOK /\ BrokerInv /\ BrokerOK
    BY DEF StoreInv, TypeOK, BrokerOK
  <1>1. CASE ServiceStep
    <2>1. StoreTypeOK' /\ submits' \in 0..MaxSubmits
      BY <1>0, <1>1, SubmitTypes DEF ServiceStep, TypeOK
    <2> QED
      BY <1>0, <1>1, <2>1 DEF ServiceStep, TypeOK, brokerVars, relayVars, BrokerTypeOK, BrokerInv,
         RelayTypeOK, ExtractionTypeOK, ClassificationTypeOK
  <1>2. CASE RelayStep
    <2>1. StoreTypeOK' /\ BrokerOK' /\ RelayTypeOK'
      BY <1>0, <1>2, RelayTypes DEF RelayStep
    <2> QED
      BY <1>0, <1>2, <2>1 DEF RelayStep, TypeOK, BrokerOK, ExtractionTypeOK, ClassificationTypeOK
  <1>3. CASE ExtractorStep
    <2>1. StoreTypeOK' /\ BrokerOK' /\ ExtractionTypeOK'
      BY <1>3, ExtractorTypes DEF ExtractorStep
    <2> QED
      BY <1>0, <1>3, <2>1 DEF ExtractorStep, TypeOK, BrokerOK, relayVars, RelayTypeOK, ClassificationTypeOK
  <1>4. CASE ClassifierStep
    <2>1. StoreTypeOK' /\ BrokerOK' /\ ClassificationTypeOK'
      BY <1>4, ClassifierTypes DEF ClassifierStep
    <2> QED
      BY <1>0, <1>4, <2>1 DEF ClassifierStep, TypeOK, BrokerOK, relayVars, RelayTypeOK, ExtractionTypeOK
  <1>5. CASE OperatorStep
    <2>1. StoreTypeOK'
      BY <1>0, <1>5 DEF OperatorStep, MarkFailed, TypeOK, StoreTypeOK, Document, DocStatus
    <2> QED
      BY <1>0, <1>5, <2>1 DEF OperatorStep, TypeOK, brokerVars, relayVars, BrokerTypeOK, BrokerInv,
         RelayTypeOK, ExtractionTypeOK, ClassificationTypeOK
  <1>6. CASE LossStep
    <2>1. BrokerOK'
      BY <1>0, <1>6, LoseStreamsOK DEF LossStep
    <2> QED
      BY <1>0, <1>6, <2>1 DEF LossStep, TypeOK, BrokerOK, storeVars, relayVars, StoreTypeOK,
         RelayTypeOK, ExtractionTypeOK, ClassificationTypeOK
  <1>7. CASE UNCHANGED vars
    BY <1>0, <1>7 DEF vars, TypeOK, storeVars, brokerVars, relayVars, StoreTypeOK, BrokerTypeOK,
       BrokerInv, RelayTypeOK, ExtractionTypeOK, ClassificationTypeOK
  <1> QED
    BY <1>1, <1>2, <1>3, <1>4, <1>5, <1>6, <1>7 DEF AdverseNext, OperatorNext, Next

----------------------------------------------------------------------------
(***************************************************************************)
(* The tables.  TablesInv is the part of StoreInv that mentions only       *)
(* documents, tokens and the extractors' snapshots.  DocOK gathers what it *)
(* says of one document, so that a step on one document has one frame      *)
(* argument for the others.                                                *)
(***************************************************************************)
DocOK(d) ==
    /\ IF documents[d].status = "NONE"
       THEN documents[d] = NoDocument /\ TokensOf(d) = {}
       ELSE documents[d].text \in Texts
    /\ documents[d].total_tokens = Cardinality(TokensOf(d))
    /\ documents[d].classified_count = Cardinality(ClassifiedOf(d))
    /\ TokensOf(d) # {} => Extracted(d)
    /\ documents[d].status \in {"CLASSIFYING", "COMPLETED"} => Extracted(d)
    /\ documents[d].status = "COMPLETED" =>
          \A t \in TokensOf(d) : t.status = "CLASSIFIED"

TablesInv ==
    /\ TokenRowsInv
    /\ \A d \in Docs : DocOK(d)
    /\ SnapshotInv
    /\ RunsDoNotMix

LEMMA StoreInvParts == StoreInv <=> TypeOK /\ BrokerInv /\ TablesInv
  BY DEF StoreInv, TablesInv, DocOK, DocumentRowsInv, ProgressIsExact, StageInv

LEMMA DocFrame ==
    ASSUME NEW d \in Docs, DocOK(d),
           documents'[d] = documents[d], TokensOf(d)' = TokensOf(d)
    PROVE  DocOK(d)'
  <1>1. ClassifiedOf(d)' = ClassifiedOf(d)
    BY DEF ClassifiedOf
  <1>2. Extracted(d)' = Extracted(d)
    BY DEF Extracted
  <1> QED
    BY <1>1, <1>2 DEF DocOK

\* Steps that change no table, and let go of a snapshot at most.
LEMMA TablesFrame ==
    ASSUME TablesInv, UNCHANGED <<documents, tokens>>,
           \A c \in Extractors : extraction'[c] = extraction[c] \/ extraction'[c].pc # "extracting"
    PROVE  TablesInv'
  <1>1. \A d \in Docs : DocOK(d)'
    BY DocFrame DEF TablesInv, TokensOf
  <1>2. SnapshotInv'
    BY DEF TablesInv, SnapshotInv
  <1> QED
    BY <1>1, <1>2 DEF TablesInv, TokenRowsInv, RunsDoNotMix

LEMMA SubmitNewTables ==
    ASSUME StoreInv, NEW d \in Docs, NEW text \in Texts, SubmitNew(d, text),
           UNCHANGED extraction
    PROVE  TablesInv'
  <1>0. TablesInv /\ documents \in [Docs -> Document] /\ tokens' = tokens
    BY StoreInvParts DEF StoreInv, TypeOK, StoreTypeOK, SubmitNew
  <1>1. documents[d] = NoDocument /\ TokensOf(d) = {}
    BY <1>0 DEF SubmitNew, Exists, TablesInv, DocOK
  <1>2. documents' = [documents EXCEPT ![d] =
           [NoDocument EXCEPT !.status = "PENDING", !.run_version = 1, !.text = text]]
    BY DEF SubmitNew, InsertDocument
  <1>3. /\ documents'[d].status = "PENDING" /\ documents'[d].text = text
        /\ documents'[d].total_tokens = 0 /\ documents'[d].classified_count = 0
        /\ \A x \in Docs \ {d} : documents'[x] = documents[x]
    BY <1>0, <1>2 DEF NoDocument
  <1>4. TokensOf(d)' = {} /\ ClassifiedOf(d)' = {}
    BY <1>0, <1>1 DEF TokensOf, ClassifiedOf
  <1>5. DocOK(d)'
    BY <1>3, <1>4, FS_EmptySet DEF DocOK
  <1>6. \A x \in Docs \ {d} : DocOK(x)'
    BY <1>0, <1>3, DocFrame DEF TablesInv, TokensOf
  <1>7. SnapshotInv'
    BY <1>0, <1>1, <1>3 DEF TablesInv, SnapshotInv, NoDocument
  <1>8. RunsDoNotMix'
    <2> SUFFICES ASSUME NEW t \in tokens'
                 PROVE  /\ t.run_version = documents'[t.document_id].run_version
                        /\ t.entity \in Extract[documents'[t.document_id].text]
      BY DEF RunsDoNotMix
    <2>1. t \in tokens /\ t.document_id # d /\ t.document_id \in Docs
      BY <1>0, <1>1 DEF TokensOf, StoreInv, TypeOK, StoreTypeOK, Token
    <2> QED BY <1>0, <1>3, <2>1 DEF TablesInv, RunsDoNotMix
  <1> QED
    BY <1>0, <1>5, <1>6, <1>7, <1>8 DEF TablesInv, TokenRowsInv

LEMMA SubmitFullTables ==
    ASSUME StoreInv, NEW d \in Docs, NEW text \in Texts, SubmitFull(d, text),
           UNCHANGED extraction
    PROVE  TablesInv'
  <1>0. /\ TablesInv /\ documents \in [Docs -> Document]
        /\ tokens' = {t \in tokens : t.document_id # d}
    BY StoreInvParts DEF StoreInv, TypeOK, StoreTypeOK, SubmitFull, DeleteTokens
  <1>1. documents' = [documents EXCEPT ![d] =
           [status |-> "PENDING", run_version |-> documents[d].run_version + 1, text |-> text,
            total_tokens |-> 0, classified_count |-> 0, stamped |-> {}]]
    BY DEF SubmitFull, ResetDocument
  <1>2. /\ documents'[d].status = "PENDING" /\ documents'[d].text = text
        /\ documents'[d].run_version = documents[d].run_version + 1
        /\ documents'[d].total_tokens = 0 /\ documents'[d].classified_count = 0
        /\ \A x \in Docs \ {d} : documents'[x] = documents[x]
    BY <1>0, <1>1
  <1>3. TokensOf(d)' = {} /\ ClassifiedOf(d)' = {}
    BY <1>0 DEF TokensOf, ClassifiedOf
  <1>4. DocOK(d)'
    BY <1>2, <1>3, FS_EmptySet DEF DocOK
  <1>5. \A x \in Docs \ {d} : DocOK(x)'
    <2> TAKE x \in Docs \ {d}
    <2>1. TokensOf(x)' = TokensOf(x)
      BY <1>0 DEF TokensOf
    <2> QED BY <1>0, <1>2, <2>1, DocFrame DEF TablesInv
  <1>6. SnapshotInv'
    <2>1. documents[d].run_version \in Nat
      BY <1>0 DEF Document
    <2>2. \A c \in Extractors : extraction[c].run_version \in Nat
      BY DEF StoreInv, TypeOK, ExtractionTypeOK, ExtractorState
    <2> QED BY <1>0, <1>2, <2>1, <2>2 DEF TablesInv, SnapshotInv
  <1>7. RunsDoNotMix'
    <2> SUFFICES ASSUME NEW t \in tokens'
                 PROVE  /\ t.run_version = documents'[t.document_id].run_version
                        /\ t.entity \in Extract[documents'[t.document_id].text]
      BY DEF RunsDoNotMix
    <2>1. t \in tokens /\ t.document_id # d /\ t.document_id \in Docs
      BY <1>0 DEF StoreInv, TypeOK, StoreTypeOK, Token
    <2> QED BY <1>0, <1>2, <2>1 DEF TablesInv, RunsDoNotMix
  <1>8. TokenRowsInv'
    BY <1>0, FS_Subset DEF TablesInv, TokenRowsInv
  <1> QED
    BY <1>4, <1>5, <1>6, <1>7, <1>8 DEF TablesInv

\* Steps that only move a document to a status before classification; claim
\* also takes its snapshot.
LEMMA StatusOnlyTables ==
    ASSUME StoreInv, NEW d \in Docs, documents[d].status # "NONE",
           UNCHANGED tokens,
           \A c \in Extractors : extraction'[c] = extraction[c] \/ extraction'[c] = Extracting(d),
           \A x \in Docs \ {d} : documents'[x] = documents[x],
           documents'[d].status \in {"PENDING", "EXTRACTING", "FAILED"},
           documents'[d].text = documents[d].text,
           documents'[d].run_version = documents[d].run_version,
           documents'[d].total_tokens = documents[d].total_tokens,
           documents'[d].classified_count = documents[d].classified_count
    PROVE  TablesInv'
  <1>0. TablesInv
    BY StoreInvParts
  <1>1. \A x \in Docs : TokensOf(x)' = TokensOf(x) /\ ClassifiedOf(x)' = ClassifiedOf(x)
    BY DEF TokensOf, ClassifiedOf
  <1>2. Extracted(d)' = Extracted(d)
    BY <1>1 DEF Extracted
  <1>3. DocOK(d)'
    BY <1>0, <1>1, <1>2 DEF TablesInv, DocOK
  <1>4. \A x \in Docs \ {d} : DocOK(x)'
    BY <1>0, <1>1, DocFrame DEF TablesInv
  <1>5. SnapshotInv'
    <2> SUFFICES ASSUME NEW c \in Extractors, extraction'[c].pc = "extracting"
                 PROVE  LET y == extraction'[c].document_id IN
                        /\ y \in Docs
                        /\ documents'[y].status # "NONE"
                        /\ extraction'[c].run_version <= documents'[y].run_version
                        /\ extraction'[c].run_version = documents'[y].run_version =>
                              extraction'[c].text = documents'[y].text
      BY DEF SnapshotInv
    <2>1. CASE extraction'[c] = extraction[c]
      BY <1>0, <2>1 DEF TablesInv, SnapshotInv
    <2>2. CASE extraction'[c] = Extracting(d)
      <3>1. documents[d].run_version \in Nat
        BY DEF StoreInv, TypeOK, StoreTypeOK, Document
      <3> QED BY <2>2, <3>1 DEF Extracting
    <2> QED BY <2>1, <2>2
  <1>6. RunsDoNotMix'
    <2> SUFFICES ASSUME NEW t \in tokens
                 PROVE  /\ t.run_version = documents'[t.document_id].run_version
                        /\ t.entity \in Extract[documents'[t.document_id].text]
      BY DEF RunsDoNotMix
    <2>1. t.document_id \in Docs
      BY DEF StoreInv, TypeOK, StoreTypeOK, Token
    <2> QED BY <1>0, <2>1 DEF TablesInv, RunsDoNotMix
  <1> QED
    BY <1>0, <1>3, <1>4, <1>5, <1>6 DEF TablesInv, TokenRowsInv

LEMMA PersistTables ==
    ASSUME StoreInv, NEW c \in Extractors, NEW e, PersistTokens(c, e)
    PROVE  TablesInv'
  <1>a. PICK d : d = extraction[c].document_id
    OBVIOUS
  <1>b. PICK v : v = extraction[c].run_version
    OBVIOUS
  <1>c. PICK S : S = Extract[extraction[c].text]
    OBVIOUS
  <1> DEFINE F == {f \in S : \A t \in tokens : IdOf(t) # <<d, v, f>>}
             total == CountTokens(tokens', d, v)
  <1>0. TablesInv /\ tokens \subseteq Token /\ documents \in [Docs -> Document]
    BY StoreInvParts DEF StoreInv, TypeOK, StoreTypeOK
  <1>1. /\ d \in Docs /\ v \in Nat /\ documents[d].status # "NONE"
        /\ documents[d].run_version = v
        /\ extraction[c].text = documents[d].text /\ documents[d].text \in Texts
    BY <1>a, <1>b, SnapshotTypes DEF PersistTokens, PersistGuard
  <1>2. /\ tokens' = tokens \cup {NewToken(d, v, f) : f \in F}
        /\ S = Extract[documents[d].text]
    BY <1>1, <1>a, <1>b, <1>c DEF PersistTokens, UpsertTokens
  <1>3. IsFiniteSet(tokens') /\ tokens' \subseteq Token
    BY PersistTypes DEF StoreTypeOK
  <1>4. documents' = IF total = 0 THEN MarkExtractionCompletedEmpty(documents, d)
                     ELSE AdvanceToClassifying(documents, d, total)
    BY <1>a, <1>b DEF PersistTokens
  <1>5. \A x \in Extractors : extraction'[x] = extraction[x] \/ extraction'[x].pc # "extracting"
    BY DEF PersistTokens, SetExtractor, AtPc, StoreInv, TypeOK, ExtractionTypeOK
  <1> HIDE DEF F, total
  <1>6. /\ \A x \in Docs \ {d} : documents'[x] = documents[x]
        /\ documents'[d].text = documents[d].text
        /\ documents'[d].run_version = v
        /\ documents'[d].classified_count = documents[d].classified_count
        /\ documents'[d].total_tokens = total
        /\ documents'[d].status = IF total = 0 THEN "COMPLETED" ELSE "CLASSIFYING"
    <2>1. documents[d] \in Document
      BY <1>0, <1>1
    <2>2. CASE total = 0
      BY <1>0, <1>1, <1>4, <2>1, <2>2 DEF MarkExtractionCompletedEmpty, Document
    <2>3. CASE total # 0
      BY <1>0, <1>1, <1>4, <2>1, <2>3 DEF AdvanceToClassifying, Document
    <2> QED BY <2>2, <2>3
  <1>7. \A f \in F : /\ NewToken(d, v, f).document_id = d
                     /\ NewToken(d, v, f).run_version = v
                     /\ NewToken(d, v, f).entity = f
                     /\ NewToken(d, v, f).status = "PENDING"
                     /\ f \in S
                     /\ \A t \in tokens : IdOf(t) # <<d, v, f>>
    BY DEF NewToken, F
  <1>8. RunsDoNotMix'
    <2> SUFFICES ASSUME NEW t \in tokens'
                 PROVE  /\ t.run_version = documents'[t.document_id].run_version
                        /\ t.entity \in Extract[documents'[t.document_id].text]
      BY DEF RunsDoNotMix
    <2>1. CASE t \in tokens
      <3>1. t.document_id \in Docs
        BY <1>0, <2>1 DEF Token
      <3> QED BY <1>0, <1>1, <1>6, <2>1, <3>1 DEF TablesInv, RunsDoNotMix
    <2>2. CASE t \notin tokens
      BY <1>2, <1>6, <1>7, <2>2
    <2> QED BY <2>1, <2>2
  <1>9. TokenRowsInv'
    <2>1. ASSUME NEW t \in tokens', NEW u \in tokens', IdOf(t) = IdOf(u)
          PROVE  t = u
      <3>1. CASE t \in tokens /\ u \in tokens
        BY <1>0, <2>1, <3>1 DEF TablesInv, TokenRowsInv
      <3>2. ASSUME NEW f \in F, t = NewToken(d, v, f) PROVE t = u
        <4>1. IdOf(t) = <<d, v, f>>
          BY <3>2, <1>7 DEF IdOf
        <4>2. u \notin tokens
          BY <1>7, <2>1, <4>1
        <4>3. PICK g \in F : u = NewToken(d, v, g)
          BY <1>2, <4>2
        <4>4. f = g
          BY <2>1, <4>1, <4>3, <1>7 DEF IdOf
        <4> QED BY <3>2, <4>3, <4>4
      <3>3. ASSUME NEW f \in F, u = NewToken(d, v, f) PROVE t = u
        <4>1. IdOf(u) = <<d, v, f>>
          BY <3>3, <1>7 DEF IdOf
        <4>2. t \notin tokens
          BY <1>7, <2>1, <4>1
        <4>3. PICK g \in F : t = NewToken(d, v, g)
          BY <1>2, <4>2
        <4>4. f = g
          BY <2>1, <4>1, <4>3, <1>7 DEF IdOf
        <4> QED BY <3>3, <4>3, <4>4
      <3> QED BY <1>2, <3>1, <3>2, <3>3
    <2>2. \A t \in tokens' : t.status = "CLASSIFIED" => t.classification # NoCategory
      BY <1>0, <1>2, <1>7 DEF TablesInv, TokenRowsInv
    <2> QED BY <1>3, <2>1, <2>2 DEF TokenRowsInv
  <1>10. \A x \in Docs \ {d} : DocOK(x)'
    <2> TAKE x \in Docs \ {d}
    <2>1. TokensOf(x)' = TokensOf(x)
      BY <1>2, <1>7 DEF TokensOf
    <2> QED BY <1>0, <1>6, <2>1, DocFrame DEF TablesInv
  <1>11. DocOK(d)'
    <2>1. ClassifiedOf(d)' = ClassifiedOf(d)
      BY <1>2, <1>7 DEF ClassifiedOf, TokensOf
    <2>2. TokensForRun(tokens', d, v) = TokensOf(d)'
      BY <1>6, <1>8 DEF TokensForRun, TokensOf, RunsDoNotMix
    <2>3. total = Cardinality(TokensOf(d)')
      BY <2>2 DEF total, CountTokens
    <2>4. IsFiniteSet(TokensOf(d)')
      BY <1>3, FS_Subset DEF TokensOf
    <2>5. total = 0 => TokensOf(d)' = {}
      BY <2>3, <2>4, FS_EmptySet
    <2>6. Extracted(d)'
      <3>1. \A t \in TokensOf(d)' : t.entity \in Extract[documents'[d].text]
        BY <1>8 DEF RunsDoNotMix, TokensOf
      <3>2. ASSUME NEW f \in Extract[documents'[d].text]
            PROVE  \E t \in TokensOf(d)' : t.entity = f
        <4>1. f \in S
          BY <1>2, <1>6, <3>2
        <4>2. CASE f \in F
          BY <1>2, <1>7, <4>2 DEF TokensOf
        <4>3. CASE f \notin F
          <5>1. PICK t \in tokens : IdOf(t) = <<d, v, f>>
            BY <4>1, <4>3 DEF F
          <5> QED BY <1>2, <5>1 DEF IdOf, TokensOf
        <4> QED BY <4>2, <4>3
      <3> QED BY <3>1, <3>2 DEF Extracted
    <2>7. documents[d].classified_count = Cardinality(ClassifiedOf(d))
      BY <1>0, <1>1 DEF TablesInv, DocOK
    <2> QED
      BY <1>1, <1>6, <2>1, <2>3, <2>5, <2>6, <2>7 DEF DocOK
  <1>12. SnapshotInv'
    <2> SUFFICES ASSUME NEW x \in Extractors, extraction'[x].pc = "extracting"
                 PROVE  LET y == extraction'[x].document_id IN
                        /\ y \in Docs
                        /\ documents'[y].status # "NONE"
                        /\ extraction'[x].run_version <= documents'[y].run_version
                        /\ extraction'[x].run_version = documents'[y].run_version =>
                              extraction'[x].text = documents'[y].text
      BY DEF SnapshotInv
    <2>1. extraction'[x] = extraction[x]
      BY <1>5
    <2> QED BY <1>0, <1>1, <1>6, <2>1 DEF TablesInv, SnapshotInv
  <1> QED
    BY <1>8, <1>9, <1>10, <1>11, <1>12 DEF TablesInv

LEMMA RecordTables ==
    ASSUME StoreInv, NEW t \in tokens, NEW category \in Categories,
           t.status # "CLASSIFIED", RecordResult(t, category), UNCHANGED extraction
    PROVE  TablesInv'
  <1>a. PICK d : d = t.document_id
    OBVIOUS
  <1>b. PICK u : u = [t EXCEPT !.status = "CLASSIFIED", !.classification = category]
    OBVIOUS
  <1>0. /\ TablesInv /\ tokens \subseteq Token /\ documents \in [Docs -> Document]
        /\ d \in Docs /\ documents[d] \in Document
    BY <1>a, StoreInvParts DEF StoreInv, TypeOK, StoreTypeOK, Token
  <1>1. /\ u.document_id = d /\ u.run_version = t.run_version /\ u.entity = t.entity
        /\ u.status = "CLASSIFIED" /\ u.classification = category
        /\ IdOf(u) = IdOf(t) /\ category # NoCategory
    BY <1>0, <1>a, <1>b, CategoriesAssumption DEF Token, IdOf
  <1>2. \A x, y \in tokens : IdOf(x) = IdOf(y) => x = y
    BY <1>0 DEF TablesInv, TokenRowsInv
  <1>3. tokens' = (tokens \ {t}) \cup {u}
    <2>1. {x \in tokens : IdOf(x) = IdOf(t)} = {t}
      BY <1>2
    <2>2. {x \in tokens : IdOf(x) # IdOf(t)} = tokens \ {t}
      BY <1>2
    <2>3. tokens' = {x \in tokens : IdOf(x) # IdOf(t)}
                      \cup {[x EXCEPT !.status = "CLASSIFIED", !.classification = category] :
                               x \in {y \in tokens : IdOf(y) = IdOf(t)}}
      BY DEF RecordResult, SetTokenClassified
    <2> QED BY <2>1, <2>2, <2>3, <1>b
  <1>4. u \notin tokens
    BY <1>1, <1>2
  <1> DEFINE completes == documents[d].classified_count + 1 >= documents[d].total_tokens
  <1>5. /\ \A x \in Docs \ {d} : documents'[x] = documents[x]
        /\ documents'[d].text = documents[d].text
        /\ documents'[d].run_version = documents[d].run_version
        /\ documents'[d].total_tokens = documents[d].total_tokens
        /\ documents'[d].classified_count = documents[d].classified_count + 1
        /\ documents'[d].status = IF completes THEN "COMPLETED" ELSE documents[d].status
    <2> DEFINE counted == IncrementClassifiedCount(documents, d)
    <2>1. /\ counted \in [Docs -> Document]
          /\ \A x \in Docs \ {d} : counted[x] = documents[x]
          /\ counted[d].text = documents[d].text
          /\ counted[d].run_version = documents[d].run_version
          /\ counted[d].total_tokens = documents[d].total_tokens
          /\ counted[d].status = documents[d].status
          /\ counted[d].classified_count = documents[d].classified_count + 1
      BY <1>0 DEF IncrementClassifiedCount, Document
    <2>2. documents' = IF completes THEN MarkDocumentCompleted(counted, d) ELSE counted
      BY <1>a, <2>1 DEF RecordResult
    <2> HIDE DEF counted, completes
    <2>3. counted[d] \in Document
      BY <1>0, <2>1
    <2>4. CASE completes
      BY <1>0, <2>1, <2>2, <2>3, <2>4 DEF MarkDocumentCompleted, Document
    <2>5. CASE ~completes
      BY <2>1, <2>2, <2>5
    <2> QED BY <2>4, <2>5
  <1>6. RunsDoNotMix'
    <2> SUFFICES ASSUME NEW x \in tokens'
                 PROVE  /\ x.run_version = documents'[x.document_id].run_version
                        /\ x.entity \in Extract[documents'[x.document_id].text]
      BY DEF RunsDoNotMix
    <2>1. PICK y \in tokens : /\ y.document_id = x.document_id
                              /\ y.run_version = x.run_version /\ y.entity = x.entity
      BY <1>1, <1>3, <1>a
    <2>2. y.document_id \in Docs
      BY <1>0 DEF Token
    <2> QED BY <1>0, <1>5, <2>1, <2>2 DEF TablesInv, RunsDoNotMix
  <1>7. TokenRowsInv'
    <2>1. IsFiniteSet(tokens')
      <3>1. IsFiniteSet(tokens \ {t})
        BY <1>0, FS_RemoveElement DEF TablesInv, TokenRowsInv
      <3> QED BY <1>3, <3>1, FS_AddElement
    <2>2. \A x, y \in tokens' : IdOf(x) = IdOf(y) => x = y
      BY <1>1, <1>2, <1>3
    <2>3. \A x \in tokens' : x.status = "CLASSIFIED" => x.classification # NoCategory
      BY <1>0, <1>1, <1>3 DEF TablesInv, TokenRowsInv
    <2> QED BY <2>1, <2>2, <2>3 DEF TokenRowsInv
  <1>8. \A x \in Docs \ {d} : DocOK(x)'
    <2> TAKE x \in Docs \ {d}
    <2>1. TokensOf(x)' = TokensOf(x)
      BY <1>1, <1>3, <1>a DEF TokensOf
    <2> QED BY <1>0, <1>5, <2>1, DocFrame DEF TablesInv
  <1>9. DocOK(d)'
    <2>1. TokensOf(d)' = (TokensOf(d) \ {t}) \cup {u}
      BY <1>1, <1>3, <1>a DEF TokensOf
    <2>2. ClassifiedOf(d)' = ClassifiedOf(d) \cup {u}
      BY <1>1, <2>1 DEF ClassifiedOf
    <2>3. t \in TokensOf(d) /\ u \notin TokensOf(d) /\ u \notin ClassifiedOf(d)
      BY <1>4, <1>a DEF TokensOf, ClassifiedOf
    <2>4. IsFiniteSet(TokensOf(d)) /\ IsFiniteSet(ClassifiedOf(d))
      <3>1. IsFiniteSet(TokensOf(d))
        BY <1>0, FS_Subset DEF TablesInv, TokenRowsInv, TokensOf
      <3> QED BY <3>1, FS_Subset DEF ClassifiedOf
    <2>5. Cardinality(TokensOf(d)') = Cardinality(TokensOf(d)) /\ IsFiniteSet(TokensOf(d)')
      <3>1. /\ IsFiniteSet(TokensOf(d) \ {t})
            /\ Cardinality(TokensOf(d) \ {t}) = Cardinality(TokensOf(d)) - 1
        BY <2>3, <2>4, FS_RemoveElement
      <3>2. u \notin TokensOf(d) \ {t}
        BY <2>3
      <3>3. /\ IsFiniteSet(TokensOf(d)')
            /\ Cardinality(TokensOf(d)') = Cardinality(TokensOf(d) \ {t}) + 1
        BY <2>1, <3>1, <3>2, FS_AddElement
      <3> QED BY <3>1, <3>3, <2>4, FS_CardinalityType
    <2>6. Cardinality(ClassifiedOf(d)') = Cardinality(ClassifiedOf(d)) + 1
      BY <2>2, <2>3, <2>4, FS_AddElement
    <2>7. DocOK(d)
      BY <1>0 DEF TablesInv
    <2>8. Extracted(d)'
      <3>1. Extracted(d)
        BY <2>3, <2>7 DEF DocOK
      <3>2. {x.entity : x \in TokensOf(d)'} = {x.entity : x \in TokensOf(d)}
        BY <1>1, <2>1, <2>3
      <3> QED BY <1>5, <3>1, <3>2 DEF Extracted
    <2>9. documents'[d].status = "COMPLETED" => \A x \in TokensOf(d)' : x.status = "CLASSIFIED"
      <3>1. documents[d].status # "COMPLETED"
        BY <2>3, <2>7 DEF DocOK
      <3>2. SUFFICES ASSUME completes PROVE \A x \in TokensOf(d)' : x.status = "CLASSIFIED"
        BY <1>5, <3>1
      <3>3. Cardinality(ClassifiedOf(d)') >= Cardinality(TokensOf(d)')
        BY <2>5, <2>6, <2>7, <3>2 DEF DocOK
      <3>4. ClassifiedOf(d)' \in SUBSET TokensOf(d)'
        BY DEF ClassifiedOf
      <3>5. Cardinality(ClassifiedOf(d)') <= Cardinality(TokensOf(d)')
        BY <2>5, <3>4, FS_Subset
      <3>6. Cardinality(ClassifiedOf(d)') \in Nat /\ Cardinality(TokensOf(d)') \in Nat
        BY <2>4, <2>5, <2>6, FS_CardinalityType
      <3>7. Cardinality(ClassifiedOf(d)') = Cardinality(TokensOf(d)')
        BY <3>3, <3>5, <3>6
      <3>8. ClassifiedOf(d)' = TokensOf(d)'
        BY <2>5, <3>4, <3>7, FS_Subset
      <3> QED BY <3>8 DEF ClassifiedOf
    <2>10. documents'[d].status # "NONE" /\ documents'[d].text \in Texts
      <3>1. documents[d].status # "NONE"
        BY <2>3, <2>7 DEF DocOK
      <3> QED BY <1>5, <2>7, <3>1 DEF DocOK
    <2> QED
      BY <1>5, <2>5, <2>6, <2>7, <2>8, <2>9, <2>10 DEF DocOK
  <1>10. SnapshotInv'
    <2>1. documents'[d].status # "NONE"
      BY <1>9, <1>5, <1>0 DEF TablesInv, DocOK, NoDocument
    <2> QED BY <1>0, <1>5, <2>1 DEF TablesInv, SnapshotInv
  <1> QED
    BY <1>6, <1>7, <1>8, <1>9, <1>10 DEF TablesInv

LEMMA ServiceTables ==
    ASSUME StoreInv, NEW d \in Docs, Submit(d), UNCHANGED extraction
    PROVE  TablesInv'
  <1>0. TablesInv /\ documents \in [Docs -> Document] /\ documents[d] \in Document
    BY StoreInvParts DEF StoreInv, TypeOK, StoreTypeOK
  <1>1. ASSUME NEW text \in Texts, SubmitNew(d, text) PROVE TablesInv'
    BY <1>1, SubmitNewTables
  <1>2. ASSUME NEW text \in Texts, SubmitFull(d, text) PROVE TablesInv'
    BY <1>2, SubmitFullTables
  <1>3. CASE SubmitCompleted(d) \/ SubmitActive(d)
    BY <1>0, <1>3, TablesFrame DEF SubmitCompleted, SubmitActive, storeVars
  <1>4. CASE SubmitFailed(d)
    <2>1. documents' = [documents EXCEPT ![d].status = "PENDING"] /\ documents[d].status = "FAILED"
          /\ tokens' = tokens
      BY <1>4 DEF SubmitFailed, SetDocumentPending
    <2>2. /\ \A x \in Docs \ {d} : documents'[x] = documents[x]
          /\ documents'[d].status = "PENDING"
          /\ documents'[d].text = documents[d].text
          /\ documents'[d].run_version = documents[d].run_version
          /\ documents'[d].total_tokens = documents[d].total_tokens
          /\ documents'[d].classified_count = documents[d].classified_count
      BY <1>0, <2>1 DEF Document
    <2> QED BY <2>1, <2>2, StatusOnlyTables
  <1> QED
    BY <1>1, <1>2, <1>3, <1>4 DEF Submit

LEMMA ClaimTables ==
    ASSUME StoreInv, NEW c \in Extractors, NEW e \in inbox[c], ClaimExtracts(c, e)
    PROVE  TablesInv'
  <1>a. PICK d : d = JobAt(c, e).document_id
    OBVIOUS
  <1>1. d \in Docs
    <2>1. BrokerTypeOK /\ BrokerInv /\ c \in Consumers /\ StreamOf(c) = StreamExtract
      BY StreamTypes DEF StoreInv, TypeOK
    <2>2. JobAt(c, e) \in ExtractJob
      BY <2>1, JobTypes DEF Job
    <2> QED BY <1>a, <2>2 DEF ExtractJob
  <1>0. /\ TablesInv /\ documents \in [Docs -> Document] /\ documents[d] \in Document
        /\ extraction \in [Extractors -> ExtractorState]
    BY <1>1, StoreInvParts DEF StoreInv, TypeOK, StoreTypeOK, ExtractionTypeOK
  <1>2. /\ documents[d].status \notin NothingToExtract
        /\ documents' = IF documents[d].status = "PENDING"
                        THEN SetExtractionStarted(documents, d) ELSE documents
        /\ extraction' = [extraction EXCEPT ![c] = Extracting(d)]
        /\ tokens' = tokens
    BY <1>a DEF ClaimExtracts, SetExtractor
  <1>3. /\ \A x \in Docs \ {d} : documents'[x] = documents[x]
        /\ documents'[d].status \in {"EXTRACTING", "FAILED"}
        /\ documents'[d].text = documents[d].text
        /\ documents'[d].run_version = documents[d].run_version
        /\ documents'[d].total_tokens = documents[d].total_tokens
        /\ documents'[d].classified_count = documents[d].classified_count
    <2>1. CASE documents[d].status = "PENDING"
      BY <1>0, <1>1, <1>2, <2>1 DEF SetExtractionStarted, Document
    <2>2. CASE documents[d].status # "PENDING"
      BY <1>0, <1>1, <1>2, <2>2 DEF NothingToExtract, Document, DocStatus, ActiveStatus
    <2> QED BY <2>1, <2>2
  <1>4. \A x \in Extractors : extraction'[x] = extraction[x] \/ extraction'[x] = Extracting(d)
    BY <1>0, <1>2
  <1>5. documents[d].status # "NONE"
    BY <1>2 DEF NothingToExtract
  <1> QED
    BY <1>1, <1>2, <1>3, <1>4, <1>5, StatusOnlyTables

LEMMA TablesStep ==
    ASSUME StoreInv, [AdverseNext]_vars
    PROVE  TablesInv'
  <1>0. TablesInv /\ extraction \in [Extractors -> ExtractorState]
    BY StoreInvParts DEF StoreInv, TypeOK, ExtractionTypeOK
  <1>1. CASE ServiceStep
    BY <1>1, ServiceTables DEF ServiceStep
  <1>2. CASE RelayStep
    BY <1>0, <1>2, TablesFrame DEF RelayStep, RelayNext, ClaimOutboxBatch, PublishRow, CommitBatch,
       AbortBatch, storeVars
  <1>3. CASE ExtractorStep
    <2>1. PICK c \in Extractors : ExtractorNext(c)
      BY <1>3 DEF ExtractorStep
    <2>2. CASE UNCHANGED storeVars /\ (UNCHANGED extraction \/ SetExtractor(c, AtPc("idle"))
                                         \/ SetExtractor(c, AtPc("done")))
      <3>1. \A x \in Extractors : extraction'[x] = extraction[x] \/ extraction'[x].pc # "extracting"
        BY <1>0, <2>2 DEF SetExtractor, AtPc
      <3> QED BY <1>0, <2>2, <3>1, TablesFrame DEF storeVars
    <2>3. ASSUME NEW e \in inbox[c], ClaimExtracts(c, e) PROVE TablesInv'
      BY <2>3, ClaimTables
    <2>4. ASSUME NEW e \in inbox[c], PersistTokens(c, e) PROVE TablesInv'
      BY <2>4, PersistTables
    <2> QED
      BY <2>1, <2>2, <2>3, <2>4 DEF ExtractorNext, ExtractorStart, ExtractorRead, ExtractorReclaim,
         ClaimSkips, PersistStale, ExtractorAck, ExtractorError
  <1>4. CASE ClassifierStep
    <2>1. PICK c \in Classifiers : ClassifierNext(c)
      BY <1>4 DEF ClassifierStep
    <2>2. extraction' = extraction
      BY <1>4 DEF ClassifierStep
    <2>3. CASE UNCHANGED storeVars
      BY <1>0, <2>2, <2>3, TablesFrame DEF storeVars
    <2>4. ASSUME NEW e \in inbox[c], NEW category \in Categories, ApplyResult(c, e, category)
          PROVE  TablesInv'
      <3>1. PICK t \in tokens : t.status # "CLASSIFIED" /\ RecordResult(t, category)
        BY <2>4 DEF ApplyResult, Applicable
      <3> QED BY <2>2, <3>1, RecordTables
    <2> QED
      BY <2>1, <2>3, <2>4 DEF ClassifierNext, ClassifierStart, ClassifierRead, ClassifierReclaim,
         LookUpSkips, LookUpClassifies, ApplyDrops, ClassifierAck, ClassifierError
  <1>5. CASE OperatorStep
    <2>1. PICK d \in Docs : MarkFailed(d)
      BY <1>5 DEF OperatorStep
    <2>2. documents \in [Docs -> Document] /\ documents[d] \in Document
      BY DEF StoreInv, TypeOK, StoreTypeOK
    <2>3. /\ \A x \in Docs \ {d} : documents'[x] = documents[x]
          /\ documents'[d].status = "FAILED"
          /\ documents'[d].text = documents[d].text
          /\ documents'[d].run_version = documents[d].run_version
          /\ documents'[d].total_tokens = documents[d].total_tokens
          /\ documents'[d].classified_count = documents[d].classified_count
      BY <2>1, <2>2 DEF MarkFailed, Document
    <2>4. tokens' = tokens /\ extraction' = extraction /\ documents[d].status # "NONE"
      BY <1>5, <2>1 DEF OperatorStep, MarkFailed, Exists
    <2> QED BY <2>3, <2>4, StatusOnlyTables
  <1>6. CASE LossStep
    BY <1>0, <1>6, TablesFrame DEF LossStep, storeVars
  <1>7. CASE UNCHANGED vars
    BY <1>0, <1>7, TablesFrame DEF vars, storeVars
  <1> QED
    BY <1>1, <1>2, <1>3, <1>4, <1>5, <1>6, <1>7 DEF AdverseNext, OperatorNext, Next

LEMMA InitStoreInv == Init => StoreInv
  <1> SUFFICES ASSUME Init PROVE StoreInv
    OBVIOUS
  <1>1. TypeOK
    <2>1. StoreTypeOK
      BY DEF Init, StoreInit, StoreTypeOK, NoDocument, Document
    <2>2. BrokerTypeOK
      BY DEF Init, BrokerInit, BrokerTypeOK
    <2>3. RelayTypeOK /\ submits \in 0..MaxSubmits
      BY MaxAbortsAssumption, MaxSubmitsAssumption DEF Init, RelayInit, RelayTypeOK, NoTransaction
    <2>4. ExtractionTypeOK /\ ClassificationTypeOK
      BY DEF Init, ExtractionInit, ExtractionTypeOK, ExtractorState, AtPc, ClassificationInit,
             ClassificationTypeOK, ClassifierPc
    <2> QED BY <2>1, <2>2, <2>3, <2>4 DEF TypeOK
  <1>2. BrokerInv
    BY StreamTypes DEF Init, BrokerInit, BrokerInv
  <1>3. TablesInv
    <2>1. \A d \in Docs : TokensOf(d) = {} /\ ClassifiedOf(d) = {} /\ documents[d] = NoDocument
      BY DEF Init, StoreInit, TokensOf, ClassifiedOf
    <2>2. \A d \in Docs : DocOK(d)
      <3> TAKE d \in Docs
      <3>1. /\ documents[d].status = "NONE" /\ documents[d].total_tokens = 0
            /\ documents[d].classified_count = 0
        BY <2>1 DEF NoDocument
      <3>2. Cardinality(TokensOf(d)) = 0 /\ Cardinality(ClassifiedOf(d)) = 0
        BY <2>1, FS_EmptySet
      <3> QED BY <2>1, <3>1, <3>2 DEF DocOK
    <2> QED
      BY <2>2, FS_EmptySet DEF TablesInv, TokenRowsInv, SnapshotInv, RunsDoNotMix, Init, StoreInit,
         ExtractionInit, AtPc
  <1> QED
    BY <1>1, <1>2, <1>3, StoreInvParts

(***************************************************************************)
(* The inductive invariant of the tables holds in every behaviour, also of *)
(* an operator who fails documents and of a Redis that loses its data.     *)
(***************************************************************************)
THEOREM StoreInvariant == AdverseSpec => []StoreInv
  <1>1. StoreInv /\ [AdverseNext]_vars => StoreInv'
    <2> SUFFICES ASSUME StoreInv, [AdverseNext]_vars PROVE StoreInv'
      OBVIOUS
    <2>1. TypeOK' /\ BrokerInv' /\ TablesInv'
      BY TypeStep, TablesStep
    <2> QED
      BY <2>1 DEF StoreInv, TablesInv, DocOK, DocumentRowsInv, ProgressIsExact, StageInv
  <1> QED
    BY InitStoreInv, <1>1, PTL DEF AdverseSpec

\* Every variable keeps its type.
THEOREM TypeCorrect == AdverseSpec => []TypeOK
  <1>1. StoreInv => TypeOK
    BY DEF StoreInv
  <1> QED
    BY StoreInvariant, <1>1, PTL

\* The progress counters of GET /status are exact in every reachable state.
THEOREM ProgressCorrect == AdverseSpec => []ProgressIsExact
  <1>1. StoreInv => ProgressIsExact
    BY DEF StoreInv
  <1> QED
    BY StoreInvariant, <1>1, PTL

\* No token of a superseded run or text survives or reappears.
THEOREM FencingCorrect == AdverseSpec => []RunsDoNotMix
  <1>1. StoreInv => RunsDoNotMix
    BY DEF StoreInv
  <1> QED
    BY StoreInvariant, <1>1, PTL

\* COMPLETED is only reported when every entity of the current text has a
\* classified token.
THEOREM CompletionCorrect == AdverseSpec => []CompletedIsComplete
  <1>1. StoreInv => CompletedIsComplete
    BY DEF StoreInv, CompletedIsComplete, StageInv, Extracted, TokenRowsInv, TokensOf
  <1> QED
    BY StoreInvariant, <1>1, PTL

----------------------------------------------------------------------------
(* FinishedWorkIsKept: the only steps that touch token rows are a full       *)
(* rerun, persist and apply.                                                *)

KeepsWork(t) ==
    documents'[t.document_id].run_version = documents[t.document_id].run_version =>
       /\ \E u \in tokens' : IdOf(u) = IdOf(t)
       /\ t.status = "CLASSIFIED" => t \in tokens'

LEMMA SubmitKeepsWork ==
    ASSUME StoreInv, NEW d \in Docs, Submit(d), NEW t \in tokens
    PROVE  KeepsWork(t)
  <1>1. ASSUME NEW text \in Texts, SubmitFull(d, text) PROVE KeepsWork(t)
    <2>1. documents \in [Docs -> Document] /\ documents[d].run_version \in Nat
      BY DEF StoreInv, TypeOK, StoreTypeOK, Document
    <2>2. CASE t.document_id = d
      BY <1>1, <2>1, <2>2 DEF SubmitFull, ResetDocument, KeepsWork
    <2>3. CASE t.document_id # d
      BY <1>1, <2>3 DEF SubmitFull, DeleteTokens, KeepsWork
    <2> QED BY <2>2, <2>3
  <1>2. CASE UNCHANGED tokens
    BY <1>2 DEF KeepsWork
  <1> QED
    BY <1>1, <1>2 DEF Submit, SubmitNew, SubmitCompleted, SubmitFailed, SubmitActive, storeVars

LEMMA RecordKeepsWork ==
    ASSUME StoreInv, NEW t \in tokens, NEW u \in tokens, u.status # "CLASSIFIED",
           NEW category \in Categories, RecordResult(u, category)
    PROVE  KeepsWork(t)
  <1>1. tokens' = SetTokenClassified(tokens, IdOf(u), category) /\ t \in Token
    BY DEF RecordResult, StoreInv, TypeOK, StoreTypeOK
  <1>2. CASE IdOf(t) # IdOf(u)
    BY <1>1, <1>2 DEF SetTokenClassified, KeepsWork
  <1>3. CASE IdOf(t) = IdOf(u)
    <2>1. t = u
      BY <1>3 DEF StoreInv, TokenRowsInv
    <2>2. [t EXCEPT !.status = "CLASSIFIED", !.classification = category] \in tokens'
      BY <1>1, <1>3 DEF SetTokenClassified
    <2>3. IdOf([t EXCEPT !.status = "CLASSIFIED", !.classification = category]) = IdOf(t)
      BY <1>1 DEF IdOf, Token
    <2> QED BY <2>1, <2>2, <2>3 DEF KeepsWork
  <1> QED BY <1>2, <1>3

LEMMA KeepsWorkStep ==
    ASSUME StoreInv, AdverseNext, NEW t \in tokens
    PROVE  KeepsWork(t)
  <1>1. CASE tokens \subseteq tokens'
    BY <1>1 DEF KeepsWork
  <1>2. CASE ServiceStep
    BY <1>2, SubmitKeepsWork DEF ServiceStep
  <1>3. CASE ExtractorStep
    <2>1. tokens \subseteq tokens'
      BY <1>3 DEF ExtractorStep, ExtractorNext, ExtractorStart, ExtractorRead, ExtractorReclaim,
         ClaimSkips, ClaimExtracts, PersistStale, PersistTokens, UpsertTokens, ExtractorAck,
         ExtractorError, storeVars
    <2> QED BY <1>1, <2>1
  <1>4. CASE ClassifierStep
    <2>1. PICK c \in Classifiers : ClassifierNext(c)
      BY <1>4 DEF ClassifierStep
    <2>2. ASSUME NEW e \in inbox[c], NEW category \in Categories, ApplyResult(c, e, category)
          PROVE  KeepsWork(t)
      BY <2>2, RecordKeepsWork DEF ApplyResult, Applicable
    <2> QED
      BY <1>1, <2>1, <2>2 DEF ClassifierNext, ClassifierStart, ClassifierRead, ClassifierReclaim,
         LookUpSkips, LookUpClassifies, ApplyDrops, ClassifierAck, ClassifierError, storeVars
  <1>5. CASE RelayStep \/ OperatorStep \/ LossStep
    BY <1>1, <1>5 DEF RelayStep, RelayNext, ClaimOutboxBatch, PublishRow, CommitBatch, AbortBatch,
       OperatorStep, MarkFailed, LossStep, storeVars
  <1> QED
    BY <1>2, <1>3, <1>4, <1>5 DEF AdverseNext, OperatorNext, Next

\* Within a run no token row disappears and no classified one changes: an answer
\* is stored once, whatever the redeliveries.
THEOREM FinishedWorkCorrect == AdverseSpec => FinishedWorkIsKept
  <1>1. StoreInv /\ [AdverseNext]_vars =>
           [\A t \in tokens :
               documents'[t.document_id].run_version = documents[t.document_id].run_version =>
                  /\ \E u \in tokens' : IdOf(u) = IdOf(t)
                  /\ t.status = "CLASSIFIED" => t \in tokens']_vars
    BY KeepsWorkStep DEF KeepsWork
  <1> QED
    BY StoreInvariant, <1>1, PTL DEF AdverseSpec, FinishedWorkIsKept

----------------------------------------------------------------------------
(* What persist and apply do to the tables. *)

LEMMA PersistEffect ==
    ASSUME StoreInv, NEW c \in Extractors, NEW e, PersistTokens(c, e),
           NEW d, d = extraction[c].document_id,
           NEW v, v = extraction[c].run_version,
           NEW total, total = CountTokens(tokens', d, v)
    PROVE  /\ d \in Docs /\ documents[d].run_version = v /\ extraction[c].pc = "extracting"
           /\ tokens' = tokens \cup
                 {NewToken(d, v, f) : f \in {g \in Extract[extraction[c].text] :
                                                \A t \in tokens : IdOf(t) # <<d, v, g>>}}
           /\ \A x \in Docs \ {d} : documents'[x] = documents[x] /\ TokensOf(x)' = TokensOf(x)
           /\ documents'[d].run_version = v
           /\ documents'[d].status = IF total = 0 THEN "COMPLETED" ELSE "CLASSIFYING"
           /\ documents'[d].stamped = documents[d].stamped
                 \cup {"extraction_completed_at", "classification_started_at"}
                 \cup (IF total = 0 THEN {"classification_completed_at"} ELSE {})
           /\ extraction' = [extraction EXCEPT ![c] = AtPc("done")]
  <1>1. /\ documents \in [Docs -> Document] /\ d \in Docs /\ documents[d] \in Document
        /\ documents[d].run_version = v /\ extraction[c].pc = "extracting"
    BY SnapshotTypes DEF PersistTokens, PersistGuard, StoreInv, TypeOK, StoreTypeOK
  <1>2. tokens' = tokens \cup
           {NewToken(d, v, f) : f \in {g \in Extract[extraction[c].text] :
                                          \A t \in tokens : IdOf(t) # <<d, v, g>>}}
    BY DEF PersistTokens, UpsertTokens
  <1>3. \A x \in Docs \ {d} : TokensOf(x)' = TokensOf(x)
    BY <1>2 DEF TokensOf, NewToken
  <1>4. documents' = IF total = 0 THEN MarkExtractionCompletedEmpty(documents, d)
                     ELSE AdvanceToClassifying(documents, d, total)
    BY DEF PersistTokens
  <1>5. /\ \A x \in Docs \ {d} : documents'[x] = documents[x]
        /\ documents'[d].run_version = v
        /\ documents'[d].status = IF total = 0 THEN "COMPLETED" ELSE "CLASSIFYING"
        /\ documents'[d].stamped = documents[d].stamped
              \cup {"extraction_completed_at", "classification_started_at"}
              \cup (IF total = 0 THEN {"classification_completed_at"} ELSE {})
    <2>1. CASE total = 0
      <3>1. documents' = MarkExtractionCompletedEmpty(documents, d)
        BY <1>4, <2>1
      <3> QED
        BY <1>1, <2>1, <3>1 DEF MarkExtractionCompletedEmpty, Document
    <2>2. CASE total # 0
      <3>1. documents' = AdvanceToClassifying(documents, d, total)
        BY <1>4, <2>2
      <3> QED
        BY <1>1, <2>2, <3>1 DEF AdvanceToClassifying, Document
    <2> QED
      BY <2>1, <2>2
  <1>6. extraction' = [extraction EXCEPT ![c] = AtPc("done")]
    BY DEF PersistTokens, SetExtractor
  <1> QED
    BY <1>1, <1>2, <1>3, <1>5, <1>6

\* The answer just counted was the last one.
LastAnswer(d) == documents[d].classified_count + 1 >= documents[d].total_tokens

LEMMA RecordEffect ==
    ASSUME StoreInv, NEW t \in tokens, NEW category, RecordResult(t, category),
           NEW d, d = t.document_id
    PROVE  /\ d \in Docs /\ t \in TokensOf(d)
           /\ \A x \in Docs \ {d} : documents'[x] = documents[x] /\ TokensOf(x)' = TokensOf(x)
           /\ documents'[d].run_version = documents[d].run_version
           /\ documents'[d].classified_count = documents[d].classified_count + 1
           /\ documents'[d].total_tokens = documents[d].total_tokens
           /\ documents'[d].status = IF LastAnswer(d) THEN "COMPLETED" ELSE documents[d].status
           /\ documents'[d].stamped = documents[d].stamped
                 \cup (IF LastAnswer(d) THEN {"classification_completed_at"} ELSE {})
  <1>1. /\ documents \in [Docs -> Document] /\ tokens \subseteq Token
        /\ d \in Docs /\ documents[d] \in Document /\ t \in TokensOf(d)
    BY DEF StoreInv, TypeOK, StoreTypeOK, Token, TokensOf
  <1>2. documents' = IF LastAnswer(d)
                     THEN MarkDocumentCompleted(IncrementClassifiedCount(documents, d), d)
                     ELSE IncrementClassifiedCount(documents, d)
    <2>1. IncrementClassifiedCount(documents, d)[d].classified_count
            = documents[d].classified_count + 1
      BY <1>1 DEF IncrementClassifiedCount, Document
    <2> QED BY <2>1 DEF RecordResult, LastAnswer
  <1>3. /\ \A x \in Docs \ {d} : documents'[x] = documents[x]
        /\ documents'[d].run_version = documents[d].run_version
        /\ documents'[d].classified_count = documents[d].classified_count + 1
        /\ documents'[d].total_tokens = documents[d].total_tokens
        /\ documents'[d].status = IF LastAnswer(d) THEN "COMPLETED" ELSE documents[d].status
        /\ documents'[d].stamped = documents[d].stamped
              \cup (IF LastAnswer(d) THEN {"classification_completed_at"} ELSE {})
    <2> DEFINE counted == IncrementClassifiedCount(documents, d)
    <2>1. /\ counted \in [Docs -> Document]
          /\ \A x \in Docs \ {d} : counted[x] = documents[x]
          /\ counted[d] = [documents[d] EXCEPT !.classified_count = @ + 1]
      BY <1>1 DEF IncrementClassifiedCount, Document
    <2> HIDE DEF counted
    <2>2. CASE LastAnswer(d)
      <3>1. documents' = [counted EXCEPT ![d] = [counted[d] EXCEPT !.status = "COMPLETED",
                              !.stamped = @ \cup {"classification_completed_at"}]]
        BY <1>2, <2>2 DEF MarkDocumentCompleted, counted
      <3> QED BY <1>1, <2>1, <2>2, <3>1 DEF Document
    <2>3. CASE ~LastAnswer(d)
      BY <1>1, <1>2, <2>1, <2>3 DEF Document, counted
    <2> QED BY <2>2, <2>3
  <1>4. \A x \in Docs \ {d} : TokensOf(x)' = TokensOf(x)
    <2>1. \A u \in tokens : IdOf(u) = IdOf(t) => u = t
      BY DEF StoreInv, TokenRowsInv
    <2>2. [t EXCEPT !.status = "CLASSIFIED", !.classification = category].document_id = d
      BY <1>1 DEF Token
    <2> QED
      BY <2>1, <2>2 DEF RecordResult, SetTokenClassified, TokensOf
  <1> QED
    BY <1>1, <1>3, <1>4

----------------------------------------------------------------------------
(* The stages of a document and their timestamps, as long as nobody calls  *)
(* MarkFailed.                                                             *)

StampOK(d) ==
    CASE documents[d].status = "EXTRACTING" ->
            documents[d].stamped = {"extraction_started_at"}
      [] documents[d].status = "CLASSIFYING" ->
            Stamps \ {"classification_completed_at"} \subseteq documents[d].stamped
      [] documents[d].status = "COMPLETED" -> documents[d].stamped = Stamps
      [] OTHER -> documents[d].stamped = {}

\* Nobody fails a document, and its tokens appear with CLASSIFYING.
DocStage(d) ==
    /\ documents[d].status # "FAILED"
    /\ TokensOf(d) # {} => documents[d].status \in {"CLASSIFYING", "COMPLETED"}
    /\ StampOK(d)

\* The extractor's snapshot is of the current run.
Fresh(c) ==
    /\ extraction[c].pc = "extracting"
    /\ extraction[c].run_version = documents[extraction[c].document_id].run_version

\* Extraction of a run has begun when an extractor works on it.
SnapStage(c) ==
    Fresh(c) => documents[extraction[c].document_id].status
                   \in {"EXTRACTING", "CLASSIFYING", "COMPLETED"}

StagesInv ==
    /\ \A d \in Docs : DocStage(d)
    /\ \A c \in Extractors : SnapStage(c)

----------------------------------------------------------------------------
(* Frames. *)

\* A document that a step does not touch.
LEMMA StageDocFrame ==
    ASSUME NEW d \in Docs, documents'[d] = documents[d], TokensOf(d)' = TokensOf(d)
    PROVE  DocStage(d) => DocStage(d)'
  BY DEF DocStage, StampOK

\* A snapshot of a document that a step does not touch, or one that is let go.
LEMMA SnapFrame ==
    ASSUME StoreInv, NEW c \in Extractors,
           \/ extraction'[c].pc # "extracting"
           \/ /\ extraction'[c] = extraction[c]
              /\ extraction[c].pc = "extracting" =>
                    documents'[extraction[c].document_id] = documents[extraction[c].document_id]
    PROVE  SnapStage(c) => SnapStage(c)'
  BY DEF SnapStage, Fresh

\* Steps that change no table, and let go of a snapshot at most.
LEMMA StageFrame ==
    ASSUME StoreInv, StagesInv, UNCHANGED <<documents, tokens>>,
           \A c \in Extractors : extraction'[c] = extraction[c] \/ extraction'[c].pc # "extracting"
    PROVE  StagesInv'
  <1>1. \A d \in Docs : documents'[d] = documents[d] /\ TokensOf(d)' = TokensOf(d)
    BY DEF TokensOf
  <1> QED
    BY <1>1, StageDocFrame, SnapFrame DEF StagesInv

----------------------------------------------------------------------------
(* A new run: a first submission or a full rerun. *)

LEMMA OpenStage ==
    ASSUME StoreInv, StagesInv, NEW d \in Docs,
           documents'[d].status = "PENDING",
           documents'[d].stamped = {},
           documents'[d].run_version = documents[d].run_version + 1,
           TokensOf(d)' = {},
           \A x \in Docs \ {d} : documents'[x] = documents[x] /\ TokensOf(x)' = TokensOf(x),
           UNCHANGED extraction
    PROVE  StagesInv'
  <1>0. documents \in [Docs -> Document] /\ documents[d].run_version \in Nat
    BY DEF StoreInv, TypeOK, StoreTypeOK, Document
  <1>1. DocStage(d)'
    BY <1>0 DEF DocStage, StampOK
  <1>2. ASSUME NEW c \in Extractors
        PROVE  SnapStage(c) => SnapStage(c)'
    <2>1. CASE extraction[c].pc = "extracting" /\ extraction[c].document_id = d
      <3>1. extraction[c].run_version <= documents[d].run_version /\ extraction[c].run_version \in Nat
        BY <2>1, SnapshotTypes DEF StoreInv, SnapshotInv
      <3>2. ~Fresh(c)'
        BY <1>0, <2>1, <3>1 DEF Fresh
      <3> QED BY <3>2 DEF SnapStage
    <2>2. CASE ~(extraction[c].pc = "extracting" /\ extraction[c].document_id = d)
      BY <2>2, SnapFrame, SnapshotTypes
    <2> QED BY <2>1, <2>2
  <1> QED
    BY <1>1, <1>2, StageDocFrame DEF StagesInv

LEMMA SubmitStage ==
    ASSUME StoreInv, StagesInv, NEW d \in Docs, Submit(d), UNCHANGED extraction
    PROVE  StagesInv'
  <1>0. documents \in [Docs -> Document]
    BY DEF StoreInv, TypeOK, StoreTypeOK
  <1>1. ASSUME NEW text \in Texts, SubmitNew(d, text) PROVE StagesInv'
    <2>1. documents[d] = NoDocument /\ TokensOf(d) = {}
      BY <1>1 DEF StoreInv, DocumentRowsInv, SubmitNew, Exists
    <2>2. \A x \in Docs : TokensOf(x)' = TokensOf(x)
      BY <1>1 DEF SubmitNew, TokensOf
    <2>3. /\ documents'[d].status = "PENDING" /\ documents'[d].stamped = {}
          /\ documents'[d].run_version = 1 /\ documents[d].run_version = 0
          /\ \A x \in Docs \ {d} : documents'[x] = documents[x]
      BY <1>0, <1>1, <2>1 DEF SubmitNew, InsertDocument, NoDocument
    <2>4. documents'[d].run_version = documents[d].run_version + 1
      BY <2>3
    <2> QED BY <2>1, <2>2, <2>3, <2>4, OpenStage
  <1>2. ASSUME NEW text \in Texts, SubmitFull(d, text) PROVE StagesInv'
    <2>1. TokensOf(d)' = {} /\ \A x \in Docs \ {d} : TokensOf(x)' = TokensOf(x)
      BY <1>2 DEF SubmitFull, DeleteTokens, TokensOf
    <2>2. /\ documents'[d].status = "PENDING" /\ documents'[d].stamped = {}
          /\ documents'[d].run_version = documents[d].run_version + 1
          /\ \A x \in Docs \ {d} : documents'[x] = documents[x]
      BY <1>0, <1>2 DEF SubmitFull, ResetDocument
    <2> QED BY <2>1, <2>2, OpenStage
  <1>3. CASE SubmitCompleted(d) \/ SubmitActive(d)
    BY <1>3, StageFrame DEF SubmitCompleted, SubmitActive, storeVars
  <1>4. ~SubmitFailed(d)
    BY DEF SubmitFailed, StagesInv, DocStage
  <1> QED
    BY <1>1, <1>2, <1>3, <1>4 DEF Submit

----------------------------------------------------------------------------
(* claim *)

LEMMA ClaimStage ==
    ASSUME StoreInv, StagesInv, NEW c \in Extractors, NEW e \in inbox[c], ClaimExtracts(c, e)
    PROVE  StagesInv'
  <1>a. PICK d : d = JobAt(c, e).document_id
    OBVIOUS
  <1>b. d \in Docs
    <2>1. BrokerTypeOK /\ BrokerInv /\ c \in Consumers /\ StreamOf(c) = StreamExtract
      BY StreamTypes DEF StoreInv, TypeOK
    <2>2. JobAt(c, e) \in ExtractJob
      BY <2>1, JobTypes DEF Job
    <2> QED BY <1>a, <2>2 DEF ExtractJob
  <1>0. /\ documents \in [Docs -> Document] /\ extraction \in [Extractors -> ExtractorState]
        /\ documents[d] \in Document /\ d \in Docs
    BY <1>b DEF StoreInv, TypeOK, StoreTypeOK, ExtractionTypeOK
  <1>1. documents[d].status \in {"PENDING", "EXTRACTING"}
    BY <1>0, <1>a DEF ClaimExtracts, NothingToExtract, StagesInv, DocStage, Document, DocStatus,
       ActiveStatus
  <1>2. /\ documents'[d].status = "EXTRACTING"
        /\ documents'[d].stamped = {"extraction_started_at"}
        /\ documents'[d].run_version = documents[d].run_version
        /\ \A x \in Docs \ {d} : documents'[x] = documents[x]
    <2>1. CASE documents[d].status = "PENDING"
      <3>1. documents' = SetExtractionStarted(documents, d) /\ documents[d].stamped = {}
        BY <1>0, <1>a, <2>1 DEF ClaimExtracts, StagesInv, DocStage, StampOK
      <3> QED BY <1>0, <3>1 DEF SetExtractionStarted, Document
    <2>2. CASE documents[d].status = "EXTRACTING"
      <3>1. documents' = documents
        BY <1>a, <2>2 DEF ClaimExtracts
      <3> QED BY <1>0, <2>2, <3>1 DEF StagesInv, DocStage, StampOK
    <2> QED BY <1>1, <2>1, <2>2
  <1>3. \A x \in Docs : TokensOf(x)' = TokensOf(x)
    BY DEF ClaimExtracts, TokensOf
  <1>4. DocStage(d)'
    BY <1>0, <1>1, <1>2, <1>3 DEF StagesInv, DocStage, StampOK
  <1>5. extraction' = [extraction EXCEPT ![c] = Extracting(d)]
    BY <1>a DEF ClaimExtracts, SetExtractor
  <1>6. ASSUME NEW x \in Extractors
        PROVE  SnapStage(x) => SnapStage(x)'
    <2>1. CASE x = c
      <3>1. extraction'[x].document_id = d
        BY <1>0, <1>5, <2>1 DEF Extracting
      <3> QED BY <1>2, <3>1 DEF SnapStage
    <2>2. CASE x # c /\ extraction[x].document_id = d
      <3>1. extraction'[x] = extraction[x]
        BY <1>0, <1>5, <2>2
      <3> QED BY <1>2, <2>2, <3>1 DEF SnapStage
    <2>3. CASE x # c /\ extraction[x].document_id # d
      BY <1>0, <1>2, <1>5, <2>3, SnapFrame, SnapshotTypes
    <2> QED BY <2>1, <2>2, <2>3
  <1> QED
    BY <1>2, <1>3, <1>4, <1>6, StageDocFrame DEF StagesInv

----------------------------------------------------------------------------
(* persist *)

LEMMA PersistStage ==
    ASSUME StoreInv, StagesInv, NEW c \in Extractors, NEW e, PersistTokens(c, e)
    PROVE  StagesInv'
  <1>1. PICK d, v, total : /\ d = extraction[c].document_id /\ v = extraction[c].run_version
                           /\ total = CountTokens(tokens', d, v)
    OBVIOUS
  <1>2. /\ d \in Docs /\ documents[d].run_version = v /\ extraction[c].pc = "extracting"
        /\ \A x \in Docs \ {d} : documents'[x] = documents[x] /\ TokensOf(x)' = TokensOf(x)
        /\ documents'[d].run_version = v
        /\ documents'[d].status = IF total = 0 THEN "COMPLETED" ELSE "CLASSIFYING"
        /\ documents'[d].stamped = documents[d].stamped
              \cup {"extraction_completed_at", "classification_started_at"}
              \cup (IF total = 0 THEN {"classification_completed_at"} ELSE {})
        /\ extraction' = [extraction EXCEPT ![c] = AtPc("done")]
    BY <1>1, PersistEffect
  <1>3. documents[d].status \in {"EXTRACTING", "CLASSIFYING", "COMPLETED"}
    BY <1>1, <1>2 DEF StagesInv, SnapStage, Fresh
  <1>4. "extraction_started_at" \in documents[d].stamped /\ documents[d].stamped \subseteq Stamps
    BY <1>2, <1>3 DEF StagesInv, DocStage, StampOK, Stamps, StoreInv, TypeOK, StoreTypeOK, Document
  <1>5. DocStage(d)'
    BY <1>2, <1>4 DEF DocStage, StampOK, Stamps
  <1>6. ASSUME NEW x \in Extractors PROVE SnapStage(x)'
    <2>1. x # c => extraction'[x] = extraction[x]
      BY <1>2 DEF StoreInv, TypeOK, ExtractionTypeOK
    <2>2. extraction'[c].pc # "extracting"
      BY <1>2 DEF AtPc, StoreInv, TypeOK, ExtractionTypeOK
    <2>3. CASE x = c
      BY <2>2, <2>3 DEF SnapStage, Fresh
    <2>4. CASE x # c /\ extraction[x].document_id = d
      BY <1>2, <2>1, <2>4 DEF SnapStage
    <2>5. CASE x # c /\ extraction[x].document_id # d
      BY <1>2, <2>1, <2>5, SnapFrame, SnapshotTypes DEF StagesInv
    <2> QED BY <2>3, <2>4, <2>5
  <1> QED
    BY <1>2, <1>5, <1>6, StageDocFrame DEF StagesInv

----------------------------------------------------------------------------
(* apply *)

LEMMA RecordStage ==
    ASSUME StoreInv, StagesInv, NEW t \in tokens, NEW category \in Categories,
           t.status # "CLASSIFIED", RecordResult(t, category), UNCHANGED extraction
    PROVE  StagesInv'
  <1>1. PICK d : d = t.document_id
    OBVIOUS
  <1>2. /\ d \in Docs /\ t \in TokensOf(d)
        /\ \A x \in Docs \ {d} : documents'[x] = documents[x] /\ TokensOf(x)' = TokensOf(x)
        /\ documents'[d].run_version = documents[d].run_version
        /\ documents'[d].status = IF LastAnswer(d) THEN "COMPLETED" ELSE documents[d].status
        /\ documents'[d].stamped = documents[d].stamped
              \cup (IF LastAnswer(d) THEN {"classification_completed_at"} ELSE {})
    BY <1>1, RecordEffect
  <1>3. documents[d].status = "CLASSIFYING" /\ documents[d].stamped \subseteq Stamps
    BY <1>2 DEF StagesInv, DocStage, StoreInv, StageInv, TypeOK, StoreTypeOK, Document
  <1>4. DocStage(d)'
    BY <1>2, <1>3 DEF StagesInv, DocStage, StampOK, Stamps
  <1>5. ASSUME NEW x \in Extractors
        PROVE  SnapStage(x) => SnapStage(x)'
    <2>1. CASE extraction[x].document_id = d
      BY <1>2, <1>3, <2>1 DEF SnapStage, Fresh
    <2>2. CASE extraction[x].document_id # d
      BY <1>2, <2>2, SnapFrame, SnapshotTypes
    <2> QED BY <2>1, <2>2
  <1> QED
    BY <1>2, <1>4, <1>5, StageDocFrame DEF StagesInv

----------------------------------------------------------------------------
(* Every step. *)

LEMMA StageStep ==
    ASSUME StoreInv, StagesInv, [Next]_vars
    PROVE  StagesInv'
  <1>0. extraction \in [Extractors -> ExtractorState]
    BY DEF StoreInv, TypeOK, ExtractionTypeOK
  <1>1. CASE ServiceStep
    BY <1>1, SubmitStage DEF ServiceStep
  <1>2. CASE RelayStep
    BY <1>2, StageFrame DEF RelayStep, RelayNext, ClaimOutboxBatch, PublishRow, CommitBatch,
       AbortBatch, storeVars
  <1>3. CASE ExtractorStep
    <2>1. PICK c \in Extractors : ExtractorNext(c)
      BY <1>3 DEF ExtractorStep
    <2>2. CASE UNCHANGED storeVars /\ (UNCHANGED extraction \/ SetExtractor(c, AtPc("idle"))
                                         \/ SetExtractor(c, AtPc("done")))
      <3>1. \A x \in Extractors : extraction'[x] = extraction[x] \/ extraction'[x].pc # "extracting"
        BY <1>0, <2>2 DEF SetExtractor, AtPc
      <3> QED BY <2>2, <3>1, StageFrame DEF storeVars
    <2>3. ASSUME NEW e \in inbox[c], ClaimExtracts(c, e) PROVE StagesInv'
      BY <2>3, ClaimStage
    <2>4. ASSUME NEW e \in inbox[c], PersistTokens(c, e) PROVE StagesInv'
      BY <2>4, PersistStage
    <2> QED
      BY <2>1, <2>2, <2>3, <2>4 DEF ExtractorNext, ExtractorStart, ExtractorRead, ExtractorReclaim,
         ClaimSkips, PersistStale, ExtractorAck, ExtractorError
  <1>4. CASE ClassifierStep
    <2>1. PICK c \in Classifiers : ClassifierNext(c)
      BY <1>4 DEF ClassifierStep
    <2>2. ASSUME NEW e \in inbox[c], NEW category \in Categories, ApplyResult(c, e, category)
          PROVE  StagesInv'
      <3>1. PICK t \in tokens : t.status # "CLASSIFIED" /\ RecordResult(t, category)
        BY <2>2 DEF ApplyResult, Applicable
      <3> QED BY <1>4, <3>1, RecordStage DEF ClassifierStep
    <2>3. CASE UNCHANGED storeVars
      BY <1>4, <2>3, StageFrame DEF ClassifierStep, storeVars
    <2> QED
      BY <2>1, <2>2, <2>3 DEF ClassifierNext, ClassifierStart, ClassifierRead, ClassifierReclaim,
         LookUpSkips, LookUpClassifies, ApplyDrops, ClassifierAck, ClassifierError
  <1>5. CASE UNCHANGED vars
    BY <1>5, StageFrame DEF vars, storeVars
  <1> QED
    BY <1>1, <1>2, <1>3, <1>4, <1>5 DEF Next

LEMMA InitStages == Init => StagesInv
  BY DEF Init, StoreInit, ExtractionInit, NoDocument, AtPc, StagesInv, DocStage, StampOK,
     TokensOf, SnapStage, Fresh

LEMMA SpecStore == Spec => []StoreInv
  <1>1. Next => AdverseNext
    BY DEF AdverseNext, OperatorNext
  <1> QED
    BY <1>1, StoreInvariant, PTL DEF Spec, AdverseSpec

\* The stamps that Durations subtracts fit the stage of the document, with any
\* number of extractors: no persist of a run comes before its claim, and a rerun
\* leaves nothing behind.
THEOREM StampsCorrect == Spec => []StampsFollowStage
  <1>1. StoreInv /\ StagesInv /\ [Next]_vars => StagesInv'
    BY StageStep
  <1>2. StagesInv => StampsFollowStage
    BY DEF StagesInv, DocStage, StampOK, StampsFollowStage
  <1> QED
    BY <1>1, <1>2, InitStages, SpecStore, PTL DEF Spec

----------------------------------------------------------------------------
(* The end of classification, whoever fails documents and loses streams.   *)

AllAnswered(d) == \A t \in TokensOf(d) : t.status = "CLASSIFIED"

Marked(d) == "classification_completed_at" \in documents[d].stamped

\* CompletionIsMarked of one document.  A document that was failed and resumed keeps its
\* tokens and its stamp, so the second half speaks of every document with tokens.
MarkOK(d) ==
    /\ Marked(d) => Extracted(d) /\ AllAnswered(d)
    /\ TokensOf(d) # {} \/ documents[d].status \in {"CLASSIFYING", "COMPLETED"} =>
          (AllAnswered(d) => Marked(d))

MarkInv == \A d \in Docs : MarkOK(d)

\* Nothing MarkOK looks at changes, but perhaps the status.
LEMMA MarkFrame ==
    ASSUME NEW d \in Docs, MarkOK(d), TokensOf(d)' = TokensOf(d),
           documents'[d].stamped \cap {"classification_completed_at"}
              = documents[d].stamped \cap {"classification_completed_at"},
           documents'[d].text = documents[d].text,
           documents'[d].status \in {"CLASSIFYING", "COMPLETED"} => documents'[d].status = documents[d].status
    PROVE  MarkOK(d)'
  BY DEF MarkOK, Marked, AllAnswered, Extracted

LEMMA SubmitMark ==
    ASSUME StoreInv, MarkInv, NEW d \in Docs, Submit(d)
    PROVE  MarkInv'
  <1>0. documents \in [Docs -> Document]
    BY DEF StoreInv, TypeOK, StoreTypeOK
  <1>1. ASSUME NEW x \in Docs \ {d}, documents'[x] = documents[x], TokensOf(x)' = TokensOf(x)
        PROVE  MarkOK(x)'
    BY <1>1, MarkFrame DEF MarkInv
  <1>2. ASSUME documents'[d].status = "PENDING", documents'[d].stamped = {}, TokensOf(d)' = {}
        PROVE  MarkOK(d)'
    BY <1>2 DEF MarkOK, Marked
  <1>3. ASSUME NEW text \in Texts, SubmitNew(d, text) PROVE MarkInv'
    <2>1. documents[d] = NoDocument /\ TokensOf(d) = {}
      BY <1>3 DEF StoreInv, DocumentRowsInv, SubmitNew, Exists
    <2>2. \A x \in Docs : TokensOf(x)' = TokensOf(x)
      BY <1>3 DEF SubmitNew, TokensOf
    <2>3. /\ documents'[d].status = "PENDING" /\ documents'[d].stamped = {}
          /\ \A x \in Docs \ {d} : documents'[x] = documents[x]
      BY <1>0, <1>3 DEF SubmitNew, InsertDocument, NoDocument
    <2> QED BY <1>1, <1>2, <2>1, <2>2, <2>3 DEF MarkInv
  <1>4. ASSUME NEW text \in Texts, SubmitFull(d, text) PROVE MarkInv'
    <2>1. TokensOf(d)' = {} /\ \A x \in Docs \ {d} : TokensOf(x)' = TokensOf(x)
      BY <1>4 DEF SubmitFull, DeleteTokens, TokensOf
    <2>2. /\ documents'[d].status = "PENDING" /\ documents'[d].stamped = {}
          /\ \A x \in Docs \ {d} : documents'[x] = documents[x]
      BY <1>0, <1>4 DEF SubmitFull, ResetDocument
    <2> QED BY <1>1, <1>2, <2>1, <2>2 DEF MarkInv
  <1>5. CASE SubmitFailed(d)
    <2>1. /\ \A x \in Docs : TokensOf(x)' = TokensOf(x)
          /\ \A x \in Docs \ {d} : documents'[x] = documents[x]
          /\ documents'[d] = [documents[d] EXCEPT !.status = "PENDING"]
      BY <1>0, <1>5 DEF SubmitFailed, SetDocumentPending, TokensOf
    <2>2. /\ documents'[d].status = "PENDING" /\ documents'[d].stamped = documents[d].stamped
          /\ documents'[d].text = documents[d].text
      BY <1>0, <2>1 DEF Document
    <2> QED BY <1>1, <2>1, <2>2, MarkFrame DEF MarkInv
  <1>6. CASE SubmitCompleted(d) \/ SubmitActive(d)
    <2>1. \A x \in Docs : documents'[x] = documents[x] /\ TokensOf(x)' = TokensOf(x)
      BY <1>6 DEF SubmitCompleted, SubmitActive, storeVars, TokensOf
    <2> QED BY <2>1, MarkFrame DEF MarkInv
  <1> QED
    BY <1>3, <1>4, <1>5, <1>6 DEF Submit

\* A claim changes the status to EXTRACTING at most, and stamps its beginning.
LEMMA ClaimMark ==
    ASSUME StoreInv, MarkInv, NEW c \in Extractors, NEW e \in inbox[c], ClaimExtracts(c, e)
    PROVE  MarkInv'
  <1>1. PICK d : d = JobAt(c, e).document_id
    OBVIOUS
  <1>2. documents \in [Docs -> Document] /\ \A x \in Docs : TokensOf(x)' = TokensOf(x)
    BY DEF ClaimExtracts, TokensOf, StoreInv, TypeOK, StoreTypeOK
  <1>3. CASE documents' = documents
    BY <1>2, <1>3, MarkFrame DEF MarkInv
  <1>4. CASE documents' = SetExtractionStarted(documents, d)
    <2>1. ASSUME NEW x \in Docs PROVE MarkOK(x)'
      <3>1. CASE x = d
        <4>1. /\ documents'[x].status = "EXTRACTING" /\ documents'[x].text = documents[x].text
              /\ documents'[x].stamped = documents[x].stamped \cup {"extraction_started_at"}
          BY <1>2, <1>4, <3>1 DEF SetExtractionStarted, Document
        <4> QED BY <1>2, <4>1, MarkFrame DEF MarkInv
      <3>2. CASE x # d
        <4>1. documents'[x] = documents[x]
          BY <1>2, <1>4, <3>2 DEF SetExtractionStarted
        <4> QED BY <1>2, <4>1, MarkFrame DEF MarkInv
      <3> QED BY <3>1, <3>2
    <2> QED BY <2>1 DEF MarkInv
  <1> QED
    BY <1>1, <1>3, <1>4 DEF ClaimExtracts

\* A persist of a run whose work is done finds every token there; another leaves a token
\* to be answered, or stamps the end itself because there is none.
LEMMA PersistMark ==
    ASSUME StoreInv, StoreInv', MarkInv, NEW c \in Extractors, NEW e, PersistTokens(c, e)
    PROVE  MarkInv'
  <1>1. PICK d, v, total : /\ d = extraction[c].document_id /\ v = extraction[c].run_version
                           /\ total = CountTokens(tokens', d, v)
    OBVIOUS
  <1>2. PICK F : F = {f \in Extract[extraction[c].text] : \A t \in tokens : IdOf(t) # <<d, v, f>>}
    OBVIOUS
  <1>3. /\ d \in Docs /\ documents[d].run_version = v /\ extraction[c].pc = "extracting"
        /\ tokens' = tokens \cup {NewToken(d, v, f) : f \in F}
        /\ \A x \in Docs \ {d} : documents'[x] = documents[x] /\ TokensOf(x)' = TokensOf(x)
        /\ documents'[d].status = IF total = 0 THEN "COMPLETED" ELSE "CLASSIFYING"
        /\ documents'[d].stamped = documents[d].stamped
              \cup {"extraction_completed_at", "classification_started_at"}
              \cup (IF total = 0 THEN {"classification_completed_at"} ELSE {})
    BY <1>1, <1>2, PersistEffect
  <1>4. MarkOK(d) /\ Extracted(d)'
    BY <1>3 DEF MarkInv, StoreInv, StageInv
  <1>5. ASSUME total = 0 PROVE MarkOK(d)'
    <2>1. TokensForRun(tokens', d, v) = {}
      <3>1. IsFiniteSet(TokensForRun(tokens', d, v))
        BY FS_Subset DEF StoreInv, TokenRowsInv, TokensForRun
      <3> QED
        BY <1>1, <1>5, <3>1, FS_EmptySet DEF CountTokens
    <2>2. \A t \in TokensOf(d)' : t.run_version = documents'[d].run_version
      BY <1>3 DEF StoreInv, RunsDoNotMix, TokensOf
    <2>3. documents'[d].run_version = v
      BY <1>1, PersistEffect
    <2>4. TokensOf(d)' = {}
      BY <2>1, <2>2, <2>3 DEF TokensOf, TokensForRun
    <2> QED
      BY <1>3, <1>4, <1>5, <2>4 DEF MarkOK, Marked, AllAnswered
  <1>6. ASSUME total # 0, Marked(d) PROVE MarkOK(d)'
    <2>1. {t.entity : t \in TokensOf(d)} = Extract[documents[d].text] /\ AllAnswered(d)
      BY <1>4, <1>6 DEF MarkOK, Extracted
    <2>2. extraction[c].text = documents[d].text
      BY <1>1, <1>3 DEF StoreInv, SnapshotInv
    <2>3. F = {}
      <3> SUFFICES ASSUME NEW f \in F PROVE FALSE
        OBVIOUS
      <3>1. PICK t \in TokensOf(d) : t.entity = f
        BY <1>2, <2>1, <2>2
      <3>2. t \in tokens /\ t.document_id = d /\ t.run_version = v
        BY <1>3, <3>1 DEF TokensOf, StoreInv, RunsDoNotMix
      <3>3. IdOf(t) = <<d, v, f>>
        BY <3>1, <3>2 DEF IdOf
      <3> QED BY <1>2, <3>2, <3>3
    <2>4. TokensOf(d)' = TokensOf(d)
      BY <1>3, <2>3 DEF TokensOf
    <2> QED
      BY <1>3, <1>4, <1>6, <2>1, <2>4 DEF MarkOK, Marked, AllAnswered
  <1>7. ASSUME total # 0, ~Marked(d) PROVE MarkOK(d)'
    <2>1. ~Marked(d)'
      BY <1>3, <1>7 DEF Marked
    <2>2. ~AllAnswered(d)'
      <3>1. CASE TokensOf(d) # {}
        <4>1. PICK t \in TokensOf(d) : t.status # "CLASSIFIED"
          BY <1>4, <1>7, <3>1 DEF MarkOK, AllAnswered
        <4> QED BY <1>3, <4>1 DEF TokensOf, AllAnswered
      <3>2. CASE TokensOf(d) = {}
        <4>1. TokensForRun(tokens', d, v) # {}
          BY <1>1, <1>7, FS_EmptySet DEF CountTokens
        <4>2. PICK t \in tokens' : t.document_id = d
          BY <4>1 DEF TokensForRun
        <4>3. t \notin tokens
          BY <3>2, <4>2 DEF TokensOf
        <4>4. t.status = "PENDING"
          BY <1>3, <4>3 DEF NewToken
        <4> QED BY <4>2, <4>4 DEF TokensOf, AllAnswered
      <3> QED BY <3>1, <3>2
    <2> QED BY <2>1, <2>2 DEF MarkOK
  <1>8. MarkOK(d)'
    BY <1>5, <1>6, <1>7
  <1>9. \A x \in Docs \ {d} : MarkOK(x)'
    BY <1>3, MarkFrame DEF MarkInv
  <1> QED
    BY <1>8, <1>9 DEF MarkInv

\* The apply that stamps is the one after which every token is answered: the counters
\* are exact.
LEMMA RecordMark ==
    ASSUME StoreInv, StoreInv', MarkInv, NEW t \in tokens, NEW category \in Categories,
           t.status # "CLASSIFIED", RecordResult(t, category)
    PROVE  MarkInv'
  <1>1. PICK d : d = t.document_id
    OBVIOUS
  <1>2. /\ d \in Docs /\ t \in TokensOf(d)
        /\ \A x \in Docs \ {d} : documents'[x] = documents[x] /\ TokensOf(x)' = TokensOf(x)
        /\ documents'[d].classified_count = documents[d].classified_count + 1
        /\ documents'[d].total_tokens = documents[d].total_tokens
        /\ documents'[d].status = IF LastAnswer(d) THEN "COMPLETED" ELSE documents[d].status
        /\ documents'[d].stamped = documents[d].stamped
              \cup (IF LastAnswer(d) THEN {"classification_completed_at"} ELSE {})
    BY <1>1, RecordEffect
  <1>3. ~Marked(d)
    BY <1>2 DEF MarkInv, MarkOK, AllAnswered
  <1>4. ASSUME LastAnswer(d) PROVE MarkOK(d)'
    <2>1. Extracted(d)' /\ AllAnswered(d)'
      BY <1>2, <1>4 DEF StoreInv, StageInv, AllAnswered
    <2> QED
      BY <1>2, <1>4, <2>1 DEF MarkOK, Marked
  <1>5. ASSUME ~LastAnswer(d) PROVE MarkOK(d)'
    <2>1. ~AllAnswered(d)'
      <3> SUFFICES ASSUME AllAnswered(d)' PROVE FALSE
        OBVIOUS
      <3>1. TokensOf(d)' = ClassifiedOf(d)'
        BY DEF AllAnswered, TokensOf, ClassifiedOf
      <3>2. documents'[d].total_tokens = documents'[d].classified_count
        BY <1>2, <3>1 DEF StoreInv, ProgressIsExact
      <3>3. documents[d].total_tokens \in Nat /\ documents[d].classified_count \in Nat
        BY <1>2 DEF StoreInv, TypeOK, StoreTypeOK, Document
      <3> QED
        BY <1>2, <1>5, <3>2, <3>3 DEF LastAnswer
    <2> QED
      BY <1>2, <1>3, <1>5, <2>1 DEF MarkOK, Marked
  <1>6. \A x \in Docs \ {d} : MarkOK(x)'
    BY <1>2, MarkFrame DEF MarkInv
  <1> QED
    BY <1>4, <1>5, <1>6 DEF MarkInv

LEMMA MarkStep ==
    ASSUME StoreInv, StoreInv', MarkInv, [AdverseNext]_vars
    PROVE  MarkInv'
  <1>1. CASE UNCHANGED <<documents, tokens>>
    <2>1. \A d \in Docs : documents'[d] = documents[d] /\ TokensOf(d)' = TokensOf(d)
      BY <1>1 DEF TokensOf
    <2> QED BY <2>1, MarkFrame DEF MarkInv
  <1>2. CASE ServiceStep
    BY <1>2, SubmitMark DEF ServiceStep
  <1>3. CASE ExtractorStep
    <2>1. PICK c \in Extractors : ExtractorNext(c)
      BY <1>3 DEF ExtractorStep
    <2> QED
      BY <1>1, <2>1, ClaimMark, PersistMark DEF ExtractorNext, ExtractorStart, ExtractorRead,
         ExtractorReclaim, ClaimSkips, PersistStale, ExtractorAck, ExtractorError, storeVars
  <1>4. CASE ClassifierStep
    <2>1. PICK c \in Classifiers : ClassifierNext(c)
      BY <1>4 DEF ClassifierStep
    <2>2. ASSUME NEW e \in inbox[c], NEW category \in Categories, ApplyResult(c, e, category)
          PROVE  MarkInv'
      BY <2>2, RecordMark DEF ApplyResult, Applicable
    <2> QED
      BY <1>1, <2>1, <2>2 DEF ClassifierNext, ClassifierStart, ClassifierRead, ClassifierReclaim,
         LookUpSkips, LookUpClassifies, ApplyDrops, ClassifierAck, ClassifierError, storeVars
  <1>5. CASE OperatorStep
    <2>1. PICK d \in Docs : MarkFailed(d)
      BY <1>5 DEF OperatorStep
    <2>2. documents \in [Docs -> Document] /\ \A x \in Docs : TokensOf(x)' = TokensOf(x)
      BY <2>1 DEF MarkFailed, TokensOf, StoreInv, TypeOK, StoreTypeOK
    <2>3. /\ documents'[d].status = "FAILED" /\ documents'[d].text = documents[d].text
          /\ documents'[d].stamped = documents[d].stamped
          /\ \A x \in Docs \ {d} : documents'[x] = documents[x]
      BY <2>1, <2>2 DEF MarkFailed, Document
    <2> QED BY <2>2, <2>3, MarkFrame DEF MarkInv
  <1>6. CASE RelayStep \/ LossStep \/ UNCHANGED vars
    BY <1>1, <1>6 DEF RelayStep, RelayNext, ClaimOutboxBatch, PublishRow, CommitBatch, AbortBatch,
       LossStep, storeVars, vars
  <1> QED
    BY <1>2, <1>3, <1>4, <1>5, <1>6 DEF AdverseNext, OperatorNext, Next

\* classification_completed_at marks true completion (duration-tracking.md), with any number
\* of extractors and classifiers: it is there exactly when every entity of the current text
\* has its answer, even if a second persist of the run has taken the status back.
THEOREM CompletionMarked == AdverseSpec => []CompletionIsMarked
  <1>1. Init => MarkInv
    BY DEF Init, StoreInit, NoDocument, MarkInv, MarkOK, Marked, TokensOf
  <1>2. StoreInv /\ StoreInv' /\ MarkInv /\ [AdverseNext]_vars => MarkInv'
    BY MarkStep
  <1>3. MarkInv => CompletionIsMarked
    BY DEF MarkInv, MarkOK, Marked, AllAnswered, Extracted, CompletionIsMarked
  <1> QED
    BY <1>1, <1>2, <1>3, StoreInvariant, PTL DEF AdverseSpec

----------------------------------------------------------------------------
(* COMPLETED is final once no extractor is behind. *)

\* The status stays COMPLETED and nobody takes a snapshot.
LEMMA SettledFrame ==
    ASSUME NEW d \in Docs, Settled(d), documents'[d].status = "COMPLETED",
           documents'[d].run_version = documents[d].run_version,
           \A c \in Extractors : extraction'[c] = extraction[c] \/ extraction'[c].pc # "extracting"
    PROVE  Settled(d)'
  BY DEF Settled

LEMMA SettledExtractor ==
    ASSUME StoreInv, NEW d \in Docs, NEW c \in Extractors, ExtractorNext(c), Settled(d),
           documents'[d].run_version = documents[d].run_version
    PROVE  Settled(d)'
  <1>1. documents \in [Docs -> Document] /\ extraction \in [Extractors -> ExtractorState]
    BY DEF StoreInv, TypeOK, StoreTypeOK, ExtractionTypeOK
  <1>2. ASSUME NEW e \in inbox[c], ClaimExtracts(c, e) PROVE Settled(d)'
    <2>1. PICK x : x = JobAt(c, e).document_id
      OBVIOUS
    <2>2. x # d
      BY <1>2, <2>1 DEF ClaimExtracts, NothingToExtract, Settled
    <2>3. documents'[d] = documents[d] /\ extraction' = [extraction EXCEPT ![c] = Extracting(x)]
      BY <1>1, <1>2, <2>1, <2>2 DEF ClaimExtracts, SetExtractionStarted, SetExtractor
    <2> QED
      BY <1>1, <2>2, <2>3 DEF Settled, Extracting
  <1>3. ASSUME NEW e \in inbox[c], PersistTokens(c, e) PROVE Settled(d)'
    <2>1. PICK x, v, total : /\ x = extraction[c].document_id /\ v = extraction[c].run_version
                             /\ total = CountTokens(tokens', x, v)
      OBVIOUS
    <2>2. /\ documents[x].run_version = v /\ extraction[c].pc = "extracting"
          /\ \A y \in Docs \ {x} : documents'[y] = documents[y]
          /\ extraction' = [extraction EXCEPT ![c] = AtPc("done")]
      BY <1>3, <2>1, PersistEffect
    <2>3. x # d
      BY <2>1, <2>2 DEF Settled
    <2>4. \A y \in Extractors : extraction'[y] = extraction[y] \/ extraction'[y].pc # "extracting"
      BY <1>1, <2>2 DEF AtPc
    <2> QED
      BY <2>2, <2>3, <2>4, SettledFrame DEF Settled
  <1>4. CASE UNCHANGED storeVars /\ (UNCHANGED extraction \/ SetExtractor(c, AtPc("idle"))
                                       \/ SetExtractor(c, AtPc("done")))
    <2>1. \A x \in Extractors : extraction'[x] = extraction[x] \/ extraction'[x].pc # "extracting"
      BY <1>1, <1>4 DEF SetExtractor, AtPc
    <2> QED BY <1>4, <2>1, SettledFrame DEF Settled, storeVars
  <1> QED
    BY <1>2, <1>3, <1>4 DEF ExtractorNext, ExtractorStart, ExtractorRead, ExtractorReclaim,
       ClaimSkips, PersistStale, ExtractorAck, ExtractorError

LEMMA SettledStep ==
    ASSUME StoreInv, AdverseNext, NEW d \in Docs, Settled(d),
           documents'[d].run_version = documents[d].run_version
    PROVE  Settled(d)' \/ documents'[d].status = "FAILED"
  <1>1. documents \in [Docs -> Document] /\ documents[d].status = "COMPLETED"
    BY DEF StoreInv, TypeOK, StoreTypeOK, Settled
  <1>2. CASE documents'[d] = documents[d] /\ UNCHANGED extraction
    BY <1>1, <1>2, SettledFrame
  <1>3. CASE ServiceStep
    <2>1. PICK x \in Docs : Submit(x)
      BY <1>3 DEF ServiceStep
    <2>2. documents'[d] = documents[d]
      <3>1. ~SubmitFailed(d)
        BY <1>1 DEF SubmitFailed
      <3>2. \A text \in Texts : ~SubmitNew(d, text)
        BY <1>1 DEF SubmitNew, Exists
      <3>3. \A text \in Texts : ~SubmitFull(d, text)
        <4>1. documents[d].run_version \in Nat
          BY <1>1 DEF Document
        <4> QED BY <1>1, <4>1 DEF SubmitFull, ResetDocument
      <3> QED
        BY <1>1, <2>1, <3>1, <3>2, <3>3 DEF Submit, SubmitNew, SubmitFull, SubmitFailed,
           SubmitCompleted, SubmitActive, InsertDocument, ResetDocument, SetDocumentPending,
           storeVars
    <2> QED BY <1>2, <1>3, <2>2 DEF ServiceStep
  <1>4. CASE ExtractorStep
    BY <1>4, SettledExtractor DEF ExtractorStep
  <1>5. CASE ClassifierStep
    <2>1. PICK c \in Classifiers : ClassifierNext(c)
      BY <1>5 DEF ClassifierStep
    <2>2. ASSUME NEW e \in inbox[c], NEW category \in Categories, ApplyResult(c, e, category)
          PROVE  documents'[d].status = "COMPLETED"
      <3>1. PICK t \in tokens : RecordResult(t, category)
        BY <2>2 DEF ApplyResult
      <3>2. PICK x : x = t.document_id
        OBVIOUS
      <3>3. /\ \A y \in Docs \ {x} : documents'[y] = documents[y]
            /\ documents'[x].status = IF LastAnswer(x) THEN "COMPLETED" ELSE documents[x].status
        BY <3>1, <3>2, RecordEffect
      <3> QED BY <1>1, <3>3
    <2>3. documents'[d].status = "COMPLETED"
      BY <1>1, <2>1, <2>2 DEF ClassifierNext, ClassifierStart, ClassifierRead, ClassifierReclaim,
         LookUpSkips, LookUpClassifies, ApplyDrops, ClassifierAck, ClassifierError, storeVars
    <2> QED BY <1>5, <2>3, SettledFrame DEF ClassifierStep
  <1>6. CASE OperatorStep
    <2>1. PICK x \in Docs : MarkFailed(x)
      BY <1>6 DEF OperatorStep
    <2>2. documents'[d].status = "FAILED" \/ documents'[d] = documents[d]
      BY <1>1, <2>1 DEF MarkFailed, Document
    <2> QED BY <1>2, <1>6, <2>2 DEF OperatorStep
  <1>7. CASE RelayStep \/ LossStep
    BY <1>2, <1>7 DEF RelayStep, RelayNext, ClaimOutboxBatch, PublishRow, CommitBatch, AbortBatch,
       LossStep, storeVars
  <1> QED
    BY <1>3, <1>4, <1>5, <1>6, <1>7 DEF AdverseNext, OperatorNext, Next

\* COMPLETED is final for its run (domain.go:18), with any number of extractors, once those
\* that claimed the run have persisted, failed or died: nothing but a full rerun or an
\* operator changes the status after that.
THEOREM CompletionIsFinal == AdverseSpec => SettledIsFinal
  <1>1. StoreInv /\ [AdverseNext]_vars =>
           [\A d \in Docs :
               Settled(d) /\ documents'[d].run_version = documents[d].run_version
               => Settled(d)' \/ documents'[d].status = "FAILED"]_vars
    BY SettledStep
  <1> QED
    BY <1>1, StoreInvariant, PTL DEF AdverseSpec, SettledIsFinal

----------------------------------------------------------------------------
(* Pipeline implements DocumentResults: every step of the pipeline maps to *)
(* a step of DocumentResults or to none at all.  StoreInv supplies the     *)
(* facts about the tables.                                                 *)

\* A document that exists has had a run.
RunInv == \A d \in Docs : Exists(d) => documents[d].run_version > 0

----------------------------------------------------------------------------
(* A submission or a full rerun opens a run. *)

LEMMA SubmitNewOpens ==
    ASSUME StoreInv, NEW d \in Docs, NEW text \in Texts, SubmitNew(d, text)
    PROVE  Results!Open(d, text)
  <1>1. /\ documents \in [Docs -> Document] /\ documents[d] = NoDocument
        /\ TokensOf(d) = {} /\ tokens' = tokens
    BY DEF StoreInv, TypeOK, StoreTypeOK, DocumentRowsInv, SubmitNew, Exists
  <1>2. documents' = [documents EXCEPT ![d] = [NoDocument EXCEPT !.status = "PENDING",
                                                                !.run_version = 1,
                                                                !.text = text]]
    BY DEF SubmitNew, InsertDocument
  <1>3. documents'[d].run_version = 1 /\ documents'[d].text = text
    BY <1>1, <1>2 DEF NoDocument
  <1>4. RowsOf(d)' = {} /\ documents[d].run_version = 0
    BY <1>1 DEF RowsOf, TokensOf, NoDocument
  <1>5. \A x \in Docs \ {d} : ResultOf(x)' = ResultOf(x)
    BY <1>1, <1>2, OthersFrame
  <1> QED
    BY <1>3, <1>4, <1>5, OpenMaps

LEMMA SubmitFullOpens ==
    ASSUME StoreInv, NEW d \in Docs, NEW text \in Texts, SubmitFull(d, text)
    PROVE  Results!Open(d, text)
  <1>1. /\ documents \in [Docs -> Document]
        /\ tokens' = {t \in tokens : t.document_id # d}
    BY DEF StoreInv, TypeOK, StoreTypeOK, SubmitFull, DeleteTokens
  <1>2. /\ documents'[d].run_version = documents[d].run_version + 1
        /\ documents'[d].text = text
        /\ \A x \in Docs \ {d} : documents'[x] = documents[x]
    BY <1>1 DEF SubmitFull, ResetDocument
  <1>3. RowsOf(d)' = {}
    BY <1>1 DEF RowsOf
  <1>4. \A x \in Docs \ {d} : ResultOf(x)' = ResultOf(x)
    BY <1>1, <1>2, OthersFrame
  <1> QED
    BY <1>2, <1>3, <1>4, OpenMaps

----------------------------------------------------------------------------
(* persist finds all the entities at once, or those that are there already. *)

LEMMA PersistFinds ==
    ASSUME StoreInv, RunInv, NEW c \in Extractors, NEW e, PersistTokens(c, e)
    PROVE  (\E d \in Docs : Results!Find(d)) \/ Mapped' = Mapped
  <1>a. PICK d : d = extraction[c].document_id
    OBVIOUS
  <1>b. PICK v : v = extraction[c].run_version
    OBVIOUS
  <1> DEFINE total == CountTokens(tokens', d, v)
  <1>0. tokens \subseteq Token /\ documents \in [Docs -> Document] /\ RunsDoNotMix /\ StageInv
    BY DEF StoreInv, TypeOK, StoreTypeOK
  <1>1. /\ d \in Docs /\ v \in Nat /\ documents[d].status # "NONE"
        /\ documents[d].run_version = v
        /\ extraction[c].text = documents[d].text
    BY <1>a, <1>b, SnapshotTypes DEF PersistTokens, PersistGuard
  <1>2. tokens' = UpsertTokens(tokens, d, v, Extract[documents[d].text])
    BY <1>1, <1>a, <1>b DEF PersistTokens
  <1>3. documents' = IF total = 0 THEN MarkExtractionCompletedEmpty(documents, d)
                     ELSE AdvanceToClassifying(documents, d, total)
    BY <1>a, <1>b DEF PersistTokens
  <1> HIDE DEF total
  <1>4. /\ documents'[d].run_version = v /\ documents'[d].text = documents[d].text
        /\ \A x \in Docs \ {d} : documents'[x] = documents[x]
    <2>1. documents[d] \in Document
      BY <1>0, <1>1
    <2>2. CASE total = 0
      BY <1>0, <1>1, <1>3, <2>1, <2>2 DEF MarkExtractionCompletedEmpty, Document
    <2>3. CASE total # 0
      BY <1>0, <1>1, <1>3, <2>1, <2>3 DEF AdvanceToClassifying, Document
    <2> QED BY <2>2, <2>3
  <1>5. v > 0
    BY <1>1 DEF RunInv, Exists
  <1>6. \A t \in RowsOf(d) : t.run_version = v
    BY <1>0, <1>1 DEF RowsOf, RunsDoNotMix
  <1>7. RowsOf(d) # {} => {t.entity : t \in RowsOf(d)} = Extract[documents[d].text]
    BY <1>0, <1>1 DEF StageInv, Extracted, RowsOf, TokensOf
  <1> QED
    BY <1>1, <1>2, <1>4, <1>5, <1>6, <1>7, UpsertMaps

----------------------------------------------------------------------------
(* apply answers one entity that had no answer. *)

LEMMA RecordAnswers ==
    ASSUME StoreInv, NEW t \in tokens, NEW category \in Categories,
           t.status # "CLASSIFIED", RecordResult(t, category)
    PROVE  \E d \in Docs, e \in Entities : Results!Answer(d, e, category)
  <1>0. /\ tokens \subseteq Token /\ documents \in [Docs -> Document] /\ RunsDoNotMix
        /\ t.document_id \in Docs /\ documents[t.document_id] \in Document
        /\ t.entity \in Entities
    BY DEF StoreInv, TypeOK, StoreTypeOK, Token
  <1>1. \A x, y \in tokens : IdOf(x) = IdOf(y) => x = y
    BY DEF StoreInv, TokenRowsInv
  <1>2. tokens' = SetTokenClassified(tokens, IdOf(t), category)
    BY DEF RecordResult
  <1>3. \A x \in Docs : /\ documents'[x].run_version = documents[x].run_version
                        /\ documents'[x].text = documents[x].text
    BY <1>0 DEF RecordResult, IncrementClassifiedCount, MarkDocumentCompleted, Document
  <1>4. \A x \in RowsOf(t.document_id) : x.run_version = t.run_version
    BY <1>0 DEF RowsOf, RunsDoNotMix
  <1>5. Results!Answer(t.document_id, t.entity, category)
    BY <1>0, <1>1, <1>2, <1>3, <1>4, ClassifiedMaps
  <1> QED
    BY <1>0, <1>5

----------------------------------------------------------------------------
(* Every step. *)

\* A step maps to a step of DocumentResults, or leaves the results as they are.
LEMMA StepMaps ==
    ASSUME StoreInv, RunInv, [AdverseNext]_vars
    PROVE  Results!Next \/ Mapped' = Mapped
  <1>0. documents \in [Docs -> Document]
    BY DEF StoreInv, TypeOK, StoreTypeOK
  <1>1. UNCHANGED <<documents, tokens>> => Mapped' = Mapped
    BY StatusOnly
  <1>2. CASE ServiceStep
    <2>1. PICK d \in Docs : Submit(d)
      BY <1>2 DEF ServiceStep
    <2>2. ASSUME NEW text \in Texts, SubmitNew(d, text) \/ SubmitFull(d, text)
          PROVE  Results!Next
      BY <2>2, SubmitNewOpens, SubmitFullOpens DEF Results!Next
    <2>3. CASE SubmitCompleted(d) \/ SubmitActive(d)
      BY <1>1, <2>3 DEF SubmitCompleted, SubmitActive, storeVars
    <2>4. CASE SubmitFailed(d)
      <3>1. documents[d] \in Document
        BY <1>0
      <3>2. \A x \in Docs : /\ documents'[x].run_version = documents[x].run_version
                            /\ documents'[x].text = documents[x].text
        BY <1>0, <2>4, <3>1 DEF SubmitFailed, SetDocumentPending, Document
      <3> QED BY <2>4, <3>2, StatusOnly DEF SubmitFailed
    <2> QED
      BY <2>1, <2>2, <2>3, <2>4 DEF Submit
  <1>3. CASE RelayStep
    BY <1>1, <1>3 DEF RelayStep, RelayNext, ClaimOutboxBatch, PublishRow, CommitBatch,
       AbortBatch, storeVars
  <1>4. CASE ExtractorStep
    <2>1. PICK c \in Extractors : ExtractorNext(c)
      BY <1>4 DEF ExtractorStep
    <2>2. ASSUME NEW e \in inbox[c], PersistTokens(c, e)
          PROVE  Results!Next \/ Mapped' = Mapped
      BY <2>2, PersistFinds DEF Results!Next, Results!Work
    <2>3. ASSUME NEW e \in inbox[c], ClaimExtracts(c, e) PROVE Mapped' = Mapped
      <3>1. \A x \in Docs : /\ documents'[x].run_version = documents[x].run_version
                            /\ documents'[x].text = documents[x].text
        BY <1>0, <2>3 DEF ClaimExtracts, SetExtractionStarted, Document
      <3> QED BY <2>3, <3>1, StatusOnly DEF ClaimExtracts
    <2>4. CASE UNCHANGED storeVars
      BY <1>1, <2>4 DEF storeVars
    <2> QED
      BY <2>1, <2>2, <2>3, <2>4 DEF ExtractorNext, ExtractorStart, ExtractorRead,
         ExtractorReclaim, ClaimSkips, PersistStale, ExtractorAck, ExtractorError
  <1>5. CASE ClassifierStep
    <2>1. PICK c \in Classifiers : ClassifierNext(c)
      BY <1>5 DEF ClassifierStep
    <2>2. ASSUME NEW e \in inbox[c], NEW category \in Categories, ApplyResult(c, e, category)
          PROVE  Results!Next
      <3>1. PICK t \in tokens : t.status # "CLASSIFIED" /\ RecordResult(t, category)
        BY <2>2 DEF ApplyResult, Applicable
      <3> QED
        BY <3>1, RecordAnswers DEF Results!Next, Results!Work
    <2>3. CASE UNCHANGED storeVars
      BY <1>1, <2>3 DEF storeVars
    <2> QED
      BY <2>1, <2>2, <2>3 DEF ClassifierNext, ClassifierStart, ClassifierRead,
         ClassifierReclaim, LookUpSkips, LookUpClassifies, ApplyDrops, ClassifierAck,
         ClassifierError
  <1>6. CASE OperatorStep
    <2>1. \A x \in Docs : /\ documents'[x].run_version = documents[x].run_version
                          /\ documents'[x].text = documents[x].text
      BY <1>0, <1>6 DEF OperatorStep, MarkFailed, Document
    <2> QED BY <1>6, <2>1, StatusOnly DEF OperatorStep, MarkFailed
  <1>7. CASE LossStep \/ UNCHANGED vars
    BY <1>1, <1>7 DEF LossStep, vars, storeVars
  <1> QED
    BY <1>2, <1>3, <1>4, <1>5, <1>6, <1>7 DEF AdverseNext, OperatorNext, Next

----------------------------------------------------------------------------
(* A document that exists has had a run. *)

LEMMA RunFrame ==
    ASSUME RunInv,
           \A x \in Docs : \/ documents'[x].run_version > 0
                           \/ /\ documents'[x].run_version = documents[x].run_version
                              /\ Exists(x)' => Exists(x)
    PROVE  RunInv'
  BY DEF RunInv

LEMMA RunStep ==
    ASSUME StoreInv, RunInv, [AdverseNext]_vars
    PROVE  RunInv'
  <1>0. documents \in [Docs -> Document] /\ tokens \subseteq Token
    BY DEF StoreInv, TypeOK, StoreTypeOK
  <1>1. UNCHANGED documents => RunInv'
    BY DEF RunInv, Exists
  <1>2. CASE ServiceStep
    <2>1. PICK d \in Docs : Submit(d)
      BY <1>2 DEF ServiceStep
    <2>2. ASSUME NEW text \in Texts, SubmitNew(d, text)
          PROVE  RunInv'
      BY <1>0, <2>2, RunFrame DEF SubmitNew, InsertDocument, NoDocument, Exists
    <2>3. ASSUME NEW text \in Texts, SubmitFull(d, text)
          PROVE  RunInv'
      <3>1. documents[d].run_version \in Nat
        BY <1>0 DEF Document
      <3> QED
        BY <1>0, <2>3, <3>1, RunFrame DEF SubmitFull, ResetDocument, Exists
    <2>4. CASE SubmitCompleted(d) \/ SubmitActive(d)
      BY <1>1, <2>4 DEF SubmitCompleted, SubmitActive, storeVars
    <2>5. CASE SubmitFailed(d)
      BY <1>0, <2>5, RunFrame DEF SubmitFailed, SetDocumentPending, Exists, Document
    <2> QED
      BY <2>1, <2>2, <2>3, <2>4, <2>5 DEF Submit
  <1>3. CASE RelayStep
    BY <1>1, <1>3 DEF RelayStep, RelayNext, ClaimOutboxBatch, PublishRow, CommitBatch,
       AbortBatch, storeVars
  <1>4. CASE ExtractorStep
    <2>1. PICK c \in Extractors : ExtractorNext(c)
      BY <1>4 DEF ExtractorStep
    <2>2. ASSUME NEW e \in inbox[c], PersistTokens(c, e) PROVE RunInv'
      <3>a. PICK d : d = extraction[c].document_id
        OBVIOUS
      <3>b. PICK total : total = CountTokens(tokens', d, extraction[c].run_version)
        OBVIOUS
      <3>1. d \in Docs /\ documents[d].status # "NONE" /\ documents[d] \in Document
        BY <1>0, <2>2, <3>a, SnapshotTypes DEF PersistTokens, PersistGuard
      <3>2. documents' = IF total = 0 THEN MarkExtractionCompletedEmpty(documents, d)
                         ELSE AdvanceToClassifying(documents, d, total)
        BY <2>2, <3>a, <3>b DEF PersistTokens
      <3>3. CASE total = 0
        BY <1>0, <3>1, <3>2, <3>3, RunFrame DEF MarkExtractionCompletedEmpty, Exists, Document
      <3>4. CASE total # 0
        BY <1>0, <3>1, <3>2, <3>4, RunFrame DEF AdvanceToClassifying, Exists, Document
      <3> QED
        BY <3>3, <3>4
    <2>3. ASSUME NEW e \in inbox[c], ClaimExtracts(c, e) PROVE RunInv'
      BY <1>0, <2>3, RunFrame DEF ClaimExtracts, SetExtractionStarted, NothingToExtract, Exists,
         Document
    <2>4. CASE UNCHANGED storeVars
      BY <1>1, <2>4 DEF storeVars
    <2> QED
      BY <2>1, <2>2, <2>3, <2>4 DEF ExtractorNext, ExtractorStart, ExtractorRead,
         ExtractorReclaim, ClaimSkips, PersistStale, ExtractorAck, ExtractorError
  <1>5. CASE ClassifierStep
    <2>1. PICK c \in Classifiers : ClassifierNext(c)
      BY <1>5 DEF ClassifierStep
    <2>2. ASSUME NEW e \in inbox[c], NEW category \in Categories, ApplyResult(c, e, category)
          PROVE  RunInv'
      <3>1. PICK t \in tokens : RecordResult(t, category)
        BY <2>2 DEF ApplyResult
      <3>a. PICK d : d = t.document_id
        OBVIOUS
      <3>2. d \in Docs /\ documents[d] \in Document /\ documents[d].status # "NONE"
        BY <1>0, <3>a DEF StoreInv, DocumentRowsInv, TokensOf, Token
      <3> QED
        BY <1>0, <3>1, <3>2, <3>a, RunFrame DEF RecordResult, IncrementClassifiedCount,
           MarkDocumentCompleted, Exists, Document
    <2>3. CASE UNCHANGED storeVars
      BY <1>1, <2>3 DEF storeVars
    <2> QED
      BY <2>1, <2>2, <2>3 DEF ClassifierNext, ClassifierStart, ClassifierRead,
         ClassifierReclaim, LookUpSkips, LookUpClassifies, ApplyDrops, ClassifierAck,
         ClassifierError
  <1>6. CASE OperatorStep
    BY <1>0, <1>6, RunFrame DEF OperatorStep, MarkFailed, Exists, Document
  <1>7. CASE LossStep \/ UNCHANGED vars
    BY <1>1, <1>7 DEF LossStep, vars, storeVars
  <1> QED
    BY <1>2, <1>3, <1>4, <1>5, <1>6, <1>7 DEF AdverseNext, OperatorNext, Next

LEMMA InitMaps ==
    ASSUME Init
    PROVE  Results!Init /\ RunInv
  <1>1. documents = [d \in Docs |-> NoDocument] /\ tokens = {}
    BY DEF Init, StoreInit
  <1>2. \A d \in Docs : ResultOf(d) = [run |-> 0, text |-> NoText, found |-> {}, answers |-> {}]
    <2> TAKE d \in Docs
    <2>1. documents[d].run_version = 0 /\ documents[d].text = NoText /\ RowsOf(d) = {}
      BY <1>1 DEF NoDocument, RowsOf
    <2> QED
      BY <2>1 DEF ResultOf
  <1>3. RunInv
    BY <1>1 DEF RunInv, Exists, NoDocument
  <1> QED
    BY <1>2, <1>3 DEF Results!Init, Results!NoText, NoText

----------------------------------------------------------------------------
(* The refinement. *)

\* The tables show a document's runs being opened, found and answered the way
\* DocumentResults says, whatever relays, workers, an operator and the loss of
\* Redis do: every transaction of submit, claim, persist and apply is a step of
\* DocumentResults or leaves the results alone.
THEOREM ResultsImplemented == AdverseSpec => ImplementsResults
  <1>1. AdverseSpec => [](StoreInv /\ RunInv)
    <2>1. Init => RunInv
      BY InitMaps
    <2>2. StoreInv /\ RunInv /\ [AdverseNext]_vars => RunInv'
      BY RunStep
    <2> QED
      BY <2>1, <2>2, StoreInvariant, PTL DEF AdverseSpec
  <1>2. Init => Results!Init
    BY InitMaps
  <1>3. StoreInv /\ RunInv /\ [AdverseNext]_vars => [Results!Next]_Mapped
    BY StepMaps
  <1> QED
    BY <1>1, <1>2, <1>3, PTL DEF AdverseSpec, ImplementsResults, Results!Spec, Mapped

----------------------------------------------------------------------------
(* What the pipeline does with the broker. *)

\* A relay publishes what the type of the outbox row promises.
LEMMA RelayPublishes ==
    ASSUME TypeOK, NEW r \in Relays, PublishRow(r)
    PROVE  SomePublish
  <1>1. PICK row \in relay[r].claimed : Publish(row.stream, row.payload)
    BY DEF PublishRow
  <1>2. row.stream \in Streams /\ row.payload \in Job(row.stream)
    BY RowTypes DEF TypeOK, RelayTypeOK
  <1>3. log[row.stream] \in Seq(Job(row.stream)) /\ Len(log[row.stream]) \in Nat
    BY <1>2, LogTypes DEF TypeOK
  <1>4. log'[row.stream] = Append(log[row.stream], row.payload)
    BY <1>1, <1>2 DEF Publish, TypeOK, BrokerTypeOK
  <1>5. /\ Len(log'[row.stream]) = Len(log[row.stream]) + 1
        /\ log'[row.stream][Len(log[row.stream]) + 1] = row.payload
    BY <1>2, <1>3, <1>4
  <1> QED
    BY <1>1, <1>2, <1>5 DEF SomePublish

\* Every step of the pipeline that changes the broker is one of its operations.
LEMMA GroupStep ==
    ASSUME TypeOK, [AdverseNext]_vars
    PROVE  [GroupNext]_brokerVars
  <1>1. CASE ServiceStep \/ OperatorStep \/ UNCHANGED vars
    BY <1>1 DEF ServiceStep, OperatorStep, vars
  <1>2. CASE RelayStep
    <2>1. PICK r \in Relays : RelayNext(r)
      BY <1>2 DEF RelayStep
    <2>2. CASE PublishRow(r)
      BY <2>2, RelayPublishes DEF GroupNext
    <2>3. CASE ~PublishRow(r)
      BY <2>1, <2>3 DEF RelayNext, ClaimOutboxBatch, CommitBatch, AbortBatch
    <2> QED
      BY <2>2, <2>3
  <1>3. CASE ExtractorStep
    <2>1. PICK c \in Extractors : ExtractorNext(c)
      BY <1>3 DEF ExtractorStep
    <2>2. c \in Consumers /\ StreamOf(c) = StreamExtract
      BY StreamTypes
    <2>3. CASE UNCHANGED brokerVars
      BY <2>3
    <2>4. CASE StartConsumer(c) \/ ReadNew(c)
      BY <2>2, <2>4 DEF GroupNext
    <2>5. CASE \E batch \in SUBSET pel[StreamExtract] : Reclaim(c, batch)
      BY <2>2, <2>5 DEF GroupNext
    <2>6. CASE \E e \in inbox[c] : Ack(c, e) \/ LeavePending(c, e)
      BY <2>2, <2>6 DEF GroupNext
    <2> QED
      BY <2>1, <2>3, <2>4, <2>5, <2>6
      DEF ExtractorNext, ExtractorStart, ExtractorRead, ExtractorReclaim, ClaimSkips,
          ClaimExtracts, PersistStale, PersistTokens, ExtractorAck, ExtractorError
  <1>4. CASE ClassifierStep
    <2>1. PICK c \in Classifiers : ClassifierNext(c)
      BY <1>4 DEF ClassifierStep
    <2>2. c \in Consumers /\ StreamOf(c) = StreamClassify
      BY StreamTypes
    <2>3. CASE UNCHANGED brokerVars
      BY <2>3
    <2>4. CASE StartConsumer(c) \/ ReadNew(c)
      BY <2>2, <2>4 DEF GroupNext
    <2>5. CASE \E batch \in SUBSET pel[StreamClassify] : Reclaim(c, batch)
      BY <2>2, <2>5 DEF GroupNext
    <2>6. CASE \E e \in inbox[c] : Ack(c, e) \/ LeavePending(c, e)
      BY <2>2, <2>6 DEF GroupNext
    <2> QED
      BY <2>1, <2>3, <2>4, <2>5, <2>6
      DEF ClassifierNext, ClassifierStart, ClassifierRead, ClassifierReclaim, LookUpSkips,
          LookUpClassifies, ApplyDrops, ApplyResult, ClassifierAck, ClassifierError
  <1>5. CASE LossStep
    BY <1>5 DEF LossStep, GroupNext
  <1> QED
    BY <1>1, <1>2, <1>3, <1>4, <1>5 DEF AdverseNext, OperatorNext, Next

\* The relays publish well-formed jobs and the workers use the broker only through
\* the operations of a consumer group (Consume, redis.go): the broker inside the
\* pipeline and the consume loop with its clock are two refinements of one
\* specification.
THEOREM GroupIsUsed == AdverseSpec => GroupSpec
  <1>1. Init => BrokerInit
    BY DEF Init
  <1>2. TypeOK /\ [AdverseNext]_vars => [GroupNext]_brokerVars
    BY GroupStep
  <1> QED
    BY <1>1, <1>2, TypeCorrect, PTL DEF AdverseSpec, GroupSpec
============================================================================
