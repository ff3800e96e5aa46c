------------------------------ MODULE Pipeline ------------------------------
(***************************************************************************)
(* The document pipeline: clients submit documents through the api, the    *)
(* relay moves jobs from the outbox to the broker, extractors turn a       *)
(* document into tokens, classifiers classify the tokens and complete the  *)
(* document.  This module composes the components.                         *)
(***************************************************************************)
EXTENDS DocumentService, Relay, ExtractionWorker, ClassificationWorker

CONSTANT MaxEnqueues  \* bound: an operator intervenes only until so many transactions enqueued jobs

ASSUME MaxEnqueuesAssumption == MaxEnqueues \in Nat

vars == <<storeVars, brokerVars, relayVars, submits, extraction, classification>>

TypeOK ==
    /\ StoreTypeOK
    /\ BrokerTypeOK
    /\ RelayTypeOK
    /\ ExtractionTypeOK
    /\ ClassificationTypeOK
    /\ submits \in 0..MaxSubmits

Init ==
    /\ StoreInit
    /\ BrokerInit
    /\ RelayInit
    /\ ExtractionInit
    /\ ClassificationInit
    /\ submits = 0

ServiceStep ==
    /\ \E d \in Docs : Submit(d)
    /\ UNCHANGED <<brokerVars, relayVars, extraction, classification>>

RelayStep ==
    /\ \E r \in Relays : RelayNext(r)
    /\ UNCHANGED <<submits, extraction, classification>>

ExtractorStep ==
    /\ \E c \in Extractors : ExtractorNext(c)
    /\ UNCHANGED <<relayVars, submits, classification>>

ClassifierStep ==
    /\ \E c \in Classifiers : ClassifierNext(c)
    /\ UNCHANGED <<relayVars, submits, extraction>>

Next == ServiceStep \/ RelayStep \/ ExtractorStep \/ ClassifierStep

Spec == Init /\ [][Next]_vars

\* MarkFailed has no caller in the repository.  An operator who calls it gives
\* the FAILED branches of Submit and of claim something to do.
OperatorStep ==
    /\ outboxSeq < MaxEnqueues
    /\ \E d \in Docs : MarkFailed(d)
    /\ UNCHANGED <<brokerVars, relayVars, submits, extraction, classification>>

OperatorNext == Next \/ OperatorStep

OperatorSpec == Init /\ [][OperatorNext]_vars

\* The deployment in which Redis may lose its data.
LossStep ==
    /\ LoseStreams
    /\ UNCHANGED <<storeVars, relayVars, submits, extraction, classification>>

LossSpec == Init /\ [][Next \/ LossStep]_vars

\* Both: the weakest environment the store's guarantees survive.
AdverseNext == OperatorNext \/ LossStep

AdverseSpec == Init /\ [][AdverseNext]_vars

----------------------------------------------------------------------------
(***************************************************************************)
(* Safety.                                                                 *)
(***************************************************************************)
TokensOf(d) == {t \in tokens : t.document_id = d}
ClassifiedOf(d) == {t \in TokensOf(d) : t.status = "CLASSIFIED"}

\* The counters that GET /status reports are exact at every moment: total_tokens
\* is the number of the document's token rows and classified_count the number of
\* classified ones, whatever redeliveries, concurrent consumers and reruns did
\* (the comment on ClassificationWorker.Process: "progress can never diverge
\* from the classified rows").
ProgressIsExact ==
    \A d \in Docs :
        /\ documents[d].total_tokens = Cardinality(TokensOf(d))
        /\ documents[d].classified_count = Cardinality(ClassifiedOf(d))

\* A COMPLETED document has exactly the entities of its current text, each of
\* them classified: MarkDocumentCompleted and MarkExtractionCompletedEmpty are
\* never reached with work missing.
CompletedIsComplete ==
    \A d \in Docs : documents[d].status = "COMPLETED" =>
        /\ {t.entity : t \in TokensOf(d)} = Extract[documents[d].text]
        /\ \A t \in TokensOf(d) : t.status = "CLASSIFIED" /\ t.classification # NoCategory

\* Every token row belongs to the current run of its document and to its current
\* text: no worker of a superseded run writes after a full rerun (the fences on
\* run_version in persist and apply).
RunsDoNotMix ==
    \A t \in tokens :
        /\ t.run_version = documents[t.document_id].run_version
        /\ t.entity \in Extract[documents[t.document_id].text]

\* Jobs of stream s that some consumer will still get.
Awaiting(s) == {row.payload : row \in {r \in outbox : r.stream = s}}
                 \cup {log[s][i] : i \in Outstanding(s)}

\* An unclassified token always has a classify job in the outbox or in the
\* stream: no interleaving of relay failures, worker deaths, redeliveries and
\* early acks loses it.
NoLostToken ==
    \A t \in tokens : t.status = "PENDING" =>
        \E j \in Awaiting(StreamClassify) : j.token_id = IdOf(t)

CurrentJob(d) == [document_id |-> d, run_version |-> documents[d].run_version]

\* A document that still has to be extracted always has an extract job of its
\* current run in the outbox or in the stream.
NoLostDocument ==
    \A d \in Docs : documents[d].status \in {"PENDING", "EXTRACTING"} =>
        CurrentJob(d) \in Awaiting(StreamExtract)

\* A document in a stage has the timestamps of the boundaries it passed, the ones
\* Durations (domain.go) subtracts: none is missing and, before extraction ends,
\* none is left over from an earlier run.
StampsFollowStage ==
    \A d \in Docs :
        CASE documents[d].status = "EXTRACTING" ->
                documents[d].stamped = {"extraction_started_at"}
          [] documents[d].status = "CLASSIFYING" ->
                Stamps \ {"classification_completed_at"} \subseteq documents[d].stamped
          [] documents[d].status = "COMPLETED" -> documents[d].stamped = Stamps
          [] OTHER -> documents[d].stamped = {}

\* classification_completed_at "marks true completion" (duration-tracking.md:38): it is
\* stamped only while every entity of the text is stored and answered, also when a second
\* persist has taken COMPLETED back, and it is never missing once that is so.
CompletionIsMarked ==
    \A d \in Docs :
        /\ "classification_completed_at" \in documents[d].stamped =>
              /\ {t.entity : t \in TokensOf(d)} = Extract[documents[d].text]
              /\ \A t \in TokensOf(d) : t.status = "CLASSIFIED"
        /\ /\ documents[d].status \in {"CLASSIFYING", "COMPLETED"}
           /\ \A t \in TokensOf(d) : t.status = "CLASSIFIED"
           => "classification_completed_at" \in documents[d].stamped

----------------------------------------------------------------------------
(***************************************************************************)
(* Action properties.                                                      *)
(***************************************************************************)

\* Finished work is kept: within one run no step removes a token row or touches
\* a classified one, so a token is classified and counted at most once (the
\* re-check under lock in apply); only a full rerun discards work.
FinishedWorkIsKept ==
    [][\A t \in tokens :
          documents'[t.document_id].run_version = documents[t.document_id].run_version =>
             /\ \E u \in tokens' : IdOf(u) = IdOf(t)
             /\ t.status = "CLASSIFIED" => t \in tokens']_vars

\* COMPLETED, and no extractor still holds a snapshot of the current run.
Settled(d) ==
    /\ documents[d].status = "COMPLETED"
    /\ \A c \in Extractors :
          \/ extraction[c].pc # "extracting"
          \/ extraction[c].document_id # d
          \/ extraction[c].run_version # documents[d].run_version

\* COMPLETED is final for a run (the lifecycle of domain.go:18) once the extractors that
\* claimed the document before are through: no redelivered or repeated job, partial rerun
\* or late answer takes it back, and no new snapshot of it is taken.  Only a full rerun or
\* an operator does.
SettledIsFinal ==
    [][\A d \in Docs :
          Settled(d) /\ documents'[d].run_version = documents[d].run_version
          => Settled(d)' \/ documents'[d].status = "FAILED"]_vars

----------------------------------------------------------------------------
(***************************************************************************)
(* Liveness.  A goroutine that is not failing goes on: one weak-fairness   *)
(* condition per relay and per consumer, over all the steps of its loop.   *)
(* Failures (a process restart, a handler or XACK error) are not forced to *)
(* be few, but they do not go on forever.                                  *)
(***************************************************************************)
RelayProgress(r) ==
    /\ ClaimOutboxBatch(r) \/ PublishRow(r) \/ CommitBatch(r)
    /\ UNCHANGED <<submits, extraction, classification>>

ExtractorProgress(c) ==
    /\ \/ ~group[StreamExtract] /\ ExtractorStart(c)
       \/ ExtractorRead(c)
       \/ \E batch \in SUBSET pel[StreamExtract] : ExtractorReclaim(c, batch)
       \/ \E e \in inbox[c] : \/ ClaimSkips(c, e) \/ ClaimExtracts(c, e)
                              \/ PersistStale(c, e) \/ PersistTokens(c, e)
                              \/ ExtractorAck(c, e)
    /\ UNCHANGED <<relayVars, submits, classification>>

ClassifierProgress(c) ==
    /\ \/ ~group[StreamClassify] /\ ClassifierStart(c)
       \/ ClassifierRead(c)
       \/ \E batch \in SUBSET pel[StreamClassify] : ClassifierReclaim(c, batch)
       \/ \E e \in inbox[c] : \/ LookUpSkips(c, e) \/ LookUpClassifies(c, e)
                              \/ ApplyDrops(c, e)
                              \/ \E category \in Categories : ApplyResult(c, e, category)
                              \/ ClassifierAck(c, e)
    /\ UNCHANGED <<relayVars, submits, extraction>>

\* Lines of progress; every other step of a worker is a failure.
Reliable ==
    \/ ServiceStep
    \/ RelayStep
    \/ \E c \in Extractors : ExtractorProgress(c)
    \/ \E c \in Classifiers : ClassifierProgress(c)

Fairness ==
    /\ \A r \in Relays : WF_vars(RelayProgress(r))
    /\ \A c \in Extractors : WF_vars(ExtractorProgress(c))
    /\ \A c \in Classifiers : WF_vars(ClassifierProgress(c))
    /\ <>[][Reliable]_vars

FairSpec == Spec /\ Fairness

\* The work on every submitted document, and after every full rerun, is completed, with
\* any number of extractors: also in the executions in which a second persist then takes
\* the status back (see CompletionIsMarked).
WorkCompletes ==
    \A d \in Docs : Exists(d) ~> "classification_completed_at" \in documents[d].stamped

\* Every submitted document is eventually COMPLETED (domain.go:18), however often it is
\* extracted: "re-extraction converges to the same tokens" (extractor.go:66).
SubmittedCompletes ==
    \A d \in Docs : Exists(d) ~> documents[d].status = "COMPLETED"

----------------------------------------------------------------------------
(***************************************************************************)
(* The inductive invariants behind the safety properties.                  *)
(*                                                                         *)
(* StoreInv needs nothing of the broker but that consumers hold entries of *)
(* their stream, so it survives even the loss of Redis.                    *)
(***************************************************************************)
BrokerInv ==
    /\ \A s \in Streams :
          /\ lastDelivered[s] <= Len(log[s])
          /\ pel[s] \subseteq 1..lastDelivered[s]
    /\ \A c \in Consumers : inbox[c] \subseteq 1..lastDelivered[StreamOf(c)]

\* tokens is finite and its natural key is a key; classified rows carry an
\* answer.
TokenRowsInv ==
    /\ IsFiniteSet(tokens)
    /\ \A t, u \in tokens : IdOf(t) = IdOf(u) => t = u
    /\ \A t \in tokens : t.status = "CLASSIFIED" => t.classification # NoCategory

\* A row holds a submitted text; a missing row is all defaults.
DocumentRowsInv ==
    \A d \in Docs :
        IF documents[d].status = "NONE"
        THEN documents[d] = NoDocument /\ TokensOf(d) = {}
        ELSE documents[d].text \in Texts

\* The snapshot an extractor works on is of a run that is not in the future,
\* and if it is of the current run it holds the current text.
SnapshotInv ==
    \A c \in Extractors : extraction[c].pc = "extracting" =>
        LET d == extraction[c].document_id IN
        /\ d \in Docs
        /\ documents[d].status # "NONE"
        /\ extraction[c].run_version <= documents[d].run_version
        /\ extraction[c].run_version = documents[d].run_version =>
              extraction[c].text = documents[d].text

\* persist writes all of a text's tokens or none.
Extracted(d) == {t.entity : t \in TokensOf(d)} = Extract[documents[d].text]

StageInv ==
    \A d \in Docs :
        /\ TokensOf(d) # {} => Extracted(d)
        /\ documents[d].status \in {"CLASSIFYING", "COMPLETED"} => Extracted(d)
        /\ documents[d].status = "COMPLETED" =>
              \A t \in TokensOf(d) : t.status = "CLASSIFIED"

StoreInv ==
    /\ TypeOK
    /\ BrokerInv
    /\ TokenRowsInv
    /\ DocumentRowsInv
    /\ SnapshotInv
    /\ RunsDoNotMix
    /\ ProgressIsExact
    /\ StageInv

(***************************************************************************)
(* DeliveryInv: what makes NoLostToken and NoLostDocument inductive.  A    *)
(* job counts only where it cannot vanish in the next step: in an outbox   *)
(* row no open relay transaction has published, or in an outstanding entry *)
(* no consumer is about to acknowledge.                                    *)
(***************************************************************************)
KnownRows == outbox \cup UNION {relay[r].claimed \cup relay[r].published : r \in Relays}

Unpublished == {row \in outbox : \A r \in Relays : row \notin relay[r].published}

\* Consumers whose handler returned nil and whose XACK is next.
AboutToAck == {c \in Extractors : extraction[c].pc = "done"}
                \cup {c \in Classifiers : classification[c] = "done"}

Safe(s) == {i \in Outstanding(s) :
               \A c \in AboutToAck : StreamOf(c) = s => ~Current(c, i)}

\* Jobs never name a future run; a classify job names its token's run.
ExtractJobOK(j) == j.run_version <= documents[j.document_id].run_version

ClassifyJobOK(j) == j.run_version = j.token_id[2]

JobsInv ==
    /\ \A row \in KnownRows :
          /\ row.id <= outboxSeq
          /\ row.stream = StreamExtract => ExtractJobOK(row.payload)
          /\ row.stream = StreamClassify => ClassifyJobOK(row.payload)
    /\ \A i \in Entries(StreamExtract) : ExtractJobOK(log[StreamExtract][i])
    /\ \A i \in Entries(StreamClassify) : ClassifyJobOK(log[StreamClassify][i])

\* The extractor's snapshot belongs to the message it is handling.
HandlingInv ==
    \A c \in Extractors : \A e \in inbox[c] :
        extraction[c].pc = "extracting" /\ Current(c, e) =>
            /\ log[StreamExtract][e].document_id = extraction[c].document_id
            /\ log[StreamExtract][e].run_version <= extraction[c].run_version

ClassifyJobSafe(id) ==
    \/ \E row \in Unpublished :
          row.stream = StreamClassify /\ row.payload.token_id = id
    \/ \E i \in Safe(StreamClassify) : log[StreamClassify][i].token_id = id

ExtractJobSafe(job) ==
    \/ \E row \in Unpublished : row.stream = StreamExtract /\ row.payload = job
    \/ \E i \in Safe(StreamExtract) : log[StreamExtract][i] = job

DeliveryInv ==
    /\ JobsInv
    /\ HandlingInv
    /\ \A t \in tokens : t.status = "PENDING" => ClassifyJobSafe(IdOf(t))
    /\ \A d \in Docs : documents[d].status \in {"PENDING", "EXTRACTING"} =>
                          ExtractJobSafe(CurrentJob(d))
============================================================================
