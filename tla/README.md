# Verification of the document pipeline

A TLA+ model of the document-processing pipeline in this repository: clients
submit documents over HTTP, an NLP stage extracts tokens, an LLM stage classifies
them, Postgres holds the state and Redis Streams carries the work. The model is
checked with TLC on small instances, and all of its safety properties are proved with
TLAPS for instances of any size.

## 1. The system

| component | source | state it keeps | operations that change it |
|---|---|---|---|
| store | `internal/store` | tables `documents`, `tokens`, `outbox` | the `Tx` primitives, composed inside `WithinTx` |
| document service | `internal/service/document.go` | none | `Submit`: insert, full rerun, resume, no-op, each with an extract job in the outbox |
| outbox relay | `internal/outbox/relay.go` | one open transaction: rows locked, rows published | `drainBatch`: claim, publish and delete row by row, commit or roll back |
| broker | `internal/queue` | Redis: streams, consumer groups, pending entries (PEL); per consumer: the fetched batch | `Publish`, `Consume` (create group, reclaim, read, handle, ack) |
| extraction worker | `internal/pipeline/extractor.go`, `runner.go` | the claimed document between two transactions | `claim`, NLP call, `persist` |
| classification worker | `internal/pipeline/classifier.go`, `runner.go` | the looked-up token during the LLM call | look-up, LLM call, `apply` |
| http api | `internal/api` | none; a client keeps what it was told | `POST /process`, `GET .../status`, `GET .../tokens` with limit and offset |
| LLM clients | `internal/llm` | attempt, backoff | `Classify` with retries, and the normalisation of the answer |
| NLP extractor | `internal/nlp` | none | pure function from text to entities: sentences, rules, positions |
| schema migration | `store.Migrate` | advisory lock, applied files | runs the SQL files at start, one process at a time |
| start-up, shutdown | `internal/app`, `cmd` | where each process is | connect and ping with retries, serve or consume, stop on SIGTERM |
| configuration | `internal/config` | none | reads the environment once |

How they interact. A state change and the job that follows from it are written in
one transaction (the transactional outbox). A relay in each api process moves
outbox rows to a stream, at least once. A stage is a consumer group; its
consumers are goroutines of any number of processes. A handler that returns nil
is acknowledged; otherwise the entry stays in the PEL and any consumer may reclaim
it after an idle time. A full rerun deletes the tokens and bumps `run_version`,
and `persist` and `apply` compare it before they write (the fence).

What is hard here: two transactions with a slow call between them in both workers;
handlers that run twice at the same time, because a reclaim does not stop the first
one; a relay that fails after it published; reruns against workers in flight; the
early acknowledgements that decide whether a job may be forgotten; whether all of it
still gets every document to COMPLETED; row locks that `apply` and a full rerun take in
opposite orders; an idle clock that runs while a batch is still being worked off; clients
that read in several requests while the rows change; and processes that start, migrate
and are killed together. `PROJECT.json` lists these hazards at their lines.

What makes each component correct:

- store and classification: the counters are exact, an answer is stored once;
- service and extraction: no writer of a superseded run gets through, COMPLETED
  means that every entity of the current text is classified, and the stage
  timestamps fit the stage;
- relay, broker and the early returns of both workers: work that is left always has
  a job somewhere;
- the transactions: their interleaved statements still have the effect of atomic ones,
  and row locks bring nothing to a standstill;
- the api: a listing is complete, and durations are those of stages that have ended;
- the consume loop: an entry is in two pairs of hands only behind a slow batch, and none is
  passed over for good as long as the entries that fail leave the consumers time;
- the LLM client: it returns in bounded time, gives up when cancelled, and succeeds only
  with an answer the pipeline can store;
- the extractor: sentences, priorities and positions are what their definition says;
- migration and start-up: one process migrates, none works on half a schema, all of them
  come up or exit, and stop when told;
- all together: the work on every submitted document is completed, and a client sees each
  of its runs opened, found and answered entity by entity (`DocumentResults`).

## 2. The modules

| module | models | state |
|---|---|---|
| `Domain` | `domain.go`, `jobs.go` | constants only: documents, texts, entities, categories |
| `Store` | the tables and the `Tx` primitives, as operators on table contents | `documents`, `tokens`, `outbox`, `outboxSeq` |
| `Broker` | Redis Streams as `redis.go` uses it | `log`, `lastDelivered`, `pel`, `group`, `inbox` |
| `ConsumerGroup` | the operations of `Broker` as a specification: what a consumer group does with its stream | |
| `DocumentService` | `Submit`, one action per branch | `submits` (bound) |
| `Relay` | `drainBatch` in four steps | `relay`, `aborts` (bound) |
| `ExtractionWorker` | `Consume` + `handle` + `Process` of the extract stage | `extraction` |
| `ClassificationWorker` | the same for the classify stage | `classification` |
| `Pipeline` | the composition, all properties, the inductive invariants | |
| `DocumentResults` | abstract specification: what a client is promised about a document | `results` |
| `StoreResults` | the refinement mapping from the tables to `DocumentResults` | |
| `Transactions` | `Submit`, `claim`, `persist`, `apply` statement by statement, row locks, deadlock detector, `now()` | the tables, `tx`, `held`, `clock`, `times` |
| `DocumentApi` | the http api over `Transactions`, and what clients learn from it | `client` |
| `ConsumeLoop` | `RedisBroker.Consume` with its idle clock, block and pause | stream and group, `idle`, `handled`, `consumer` |
| `LoopBroker` | the refinement mapping from `ConsumeLoop` to `ConsumerGroup` | |
| `LlmClient` | one call of `OllamaClassifier.Classify` | `pc`, `attempt`, `wait`, `elapsed`, `cancelAt`, `unsent`, `result` |
| `PoisonToken` | `Pipeline` with an LLM that refuses an entity every time | |
| `MockExtractor` | `MockExtractor.Extract` over byte classes | the text, the loop variables, `entities` |
| `Lifecycle` | the three `main`s, `internal/app`, `store.Migrate` | `pc`, `tries`, `file`, `signalled`, `lock`, `applied`, `up` |
| `StoreProofs` | what each transaction does to the tables and to `DocumentResults`, whoever runs it | |
| `PipelineProofs` | proofs about the tables, the stages and their timestamps in `Pipeline`, and that it implements `DocumentResults` and `ConsumerGroup` | |
| `DeliveryProofs` | proofs that no job is lost | |
| `TransactionsProofs` | proofs about the interleaved transactions and the api on top of them | |
| `ConsumeLoopProofs` | proofs about the consume loop, and that it implements `ConsumerGroup` | |
| `LlmClientProofs` | proofs about a call of the LLM client | |
| `MockExtractorProofs` | proofs about sentences, rules and positions, for texts of any length | |
| `LifecycleProofs` | proofs about the migration | |
| `MC*` | values for TLC, one per module that is run | |

What extends what: `Store` and the workers make up `Pipeline`, which treats a closure of
`WithinTx` as one step. `Transactions` takes the same tables and primitives apart again
and leaves delivery open; `DocumentApi` composes it with clients. Both `Pipeline` and
`Transactions` are shown to implement `DocumentResults` through the mapping of
`StoreResults`. `Broker` inside `Pipeline` leaves the idle clock open and `ConsumeLoop` counts
it; both are shown to implement `ConsumerGroup`, which says that every change of a stream is
one of Broker's operations. `LlmClient`, `MockExtractor` and `Lifecycle` stand for
themselves: what they promise is what `ClassificationWorker` (any category, or an error),
`Domain` (`Extract` gives a set of entities) and the initial state of `Pipeline` take for
granted.

Correspondence with the code:

- A closure given to `WithinTx` is one atomic action, except the relay's, which
  spans calls to the broker and is split into `ClaimOutboxBatch`, `PublishRow`,
  `CommitBatch` and `AbortBatch`. Atomicity is justified by the row locks: each
  closure locks its document (`FOR UPDATE`) before its first write. A transaction
  that Postgres aborts is an error of the handler, or a request that has no effect.
- The two transactions of a handler are separate actions, and everybody else may act
  between them. `extraction[c]` is the snapshot that `claim` returned.
- Reading new entries, reclaiming, acknowledging, failing (`ExtractorError`,
  `ClassifierError`: a transient error anywhere in the handler, or a failing XACK) and
  dying (`ExtractorStart`, `ClassifierStart`: what was in memory is gone) are separate
  actions. A consumer that is down is one that takes no step.
- Reclaim may return any pending entries, also ones still being handled: handlers
  have no deadline, and entries of a batch of 16 wait for each other while their
  idle clock runs.
- `MarkFailed` exists but nothing calls it. `OperatorSpec` lets an operator call it,
  which gives the FAILED branches of `Submit` and `claim` something to do.
  `LossSpec` lets Redis lose its data. `AdverseSpec` has both.
- `inbox[c]` is the whole batch of one consumer, handled in id order.
- In `Transactions` a step is a statement. `SELECT ... FOR UPDATE` and `DELETE` wait for
  the row's lock and keep it; writes become visible with the commit, and the last lock is
  taken in the step that commits, because from there on nothing waits. A first submit
  finds no row and so locks nothing: a second one may insert in between
  (`InsertConflict`). Any job in the outbox may be handled at any time and again.
- In `DocumentApi` a `POST` is a session of `Transactions` and a `GET` a read of what is
  committed; `GET /tokens` is two queries with room between them.
- In `ConsumeLoop` a handler takes `HandleTime` ticks, `XREADGROUP` blocks for `BlockTime`, and
  an entry can be reclaimed after `MinIdle`, also while its batch is still worked off; `age`
  is how long a consumer has had its batch. Some entries fail every time, the others may fail
  for once, and so may the XACK after a success (`Outcomes`). `reclaim` drops the cursor of
  `XAUTOCLAIM`, which looks at the first `Scan` pending entries only (Redis: ten times the
  count). After a loss the loop sees only errors until
  some process starts again and creates the group. `Broker` restarts a dead consumer in the
  step in which it dies; `ConsumeLoop` does it in two, so `ConsumerGroup` has a step `Die` of
  its own. In `ConsumerGroup` a job may be published by anybody.
- In `LlmClient` the server may answer anything, late or never. Each of the two blocking
  statements awaits its own events (`Awaited`): `Do` the timeout of the client and the context
  the request was made with, the select the timer and the context. Time passes only while
  none of these has happened. The loop itself never asks for the context: a request that ends
  because of it is retried like any other, and if the timer has fired as well the select may
  take that and begin another request, which is not sent (`unsent`). A category arrives in any spelling and outside the list, a
  confidence outside 0..1.
- In `MockExtractor` a text is a sequence of bytes by class (letter, terminator, space, LF,
  FF, the two bytes of any other rune, which is white space for `TrimSpace` if it begins
  with a `wide` byte: U+0085, U+00A0); rules claim any set of spans of the shape their
  expressions share. The two sorts of the code are a choice of an order: `Orders` is the set
  of sequences of a set's elements that respect a comparison. `sort.Slice` is not stable, so
  spans with the same start could come in any order; there are none.
- In `Lifecycle` the advisory lock belongs to a session and ends with the process. An unlock
  under a cancelled context is not sent. Processes are killed and told to stop
  anywhere, and Postgres and Redis come and go.

Abstractions: a text is a model value and `Extract` says which entities it has; an
entity stands for its text, context and position; a token's serial id is its natural
key; a job payload is a record; of the timestamps only whether they are set; what
the LLM answers is any category, chosen when it is applied. All outbox rows of one
transaction share an id and their order is left open. Outbox ids are given in commit
order; two overlapping transactions of different documents may take them the other
way round, which only permutes rows of different documents in the relay's batch.

The sections named "Mutants" in the modules hold deliberately
wrong versions of one definition each. No specification uses them; `PROJECT.json`
pairs each with the property that detects it.

## 3. Properties

`Pipeline`. Invariants: `TypeOK`; `ProgressIsExact` (both counters equal the rows they count);
`CompletedIsComplete`; `RunsDoNotMix` (every token is of the current run and text);
`NoLostToken` and `NoLostDocument` (work left has a job in the outbox or still to be
delivered); `StampsFollowStage`; `CompletionIsMarked` (`classification_completed_at` is set
exactly while every entity of the text is stored and answered, whatever a second `persist`
does to the status); and the inductive invariants `StoreInv` and `DeliveryInv`. Action
properties: `FinishedWorkIsKept`; `SettledIsFinal` (COMPLETED is final for a run once no
extractor of that run is behind). Liveness: `WorkCompletes` (every submitted document comes
to that mark, with any number of extractors); `SubmittedCompletes` (it comes to COMPLETED)
is what the code does not keep.

Refinement. `ImplementsResults`: the tables, read through `ResultOf`, only take steps of
`DocumentResults`: a run is opened, all its entities are found at once, each is answered
once, and nothing of a run changes afterwards. It is checked, and proved, of `Pipeline`
and of `Transactions`.

`Transactions`: `TokenLockFencesRun` (while `apply` holds its token no rerun can commit;
the second fence of `apply` is never the one that catches it), `NoStandstill` (the
opposite lock orders of `apply` and `ResetDocument` cost an abort, never a standstill: who
waits for a lock waits for a transaction that can go on, and every early return gives its
locks back), `DurationsAreHonest` (the extraction time and the sum of both stages are never
negative, and both are zero until extraction has completed).
`DocumentApi`: `PagesAreExact`, `CompletedMeansAnswered` (a listing after COMPLETED is
complete and answered).
`ConsumeLoop`: `ImplementsBroker` (a refinement: whatever the loop, its crashes and losses of
Redis do to a stream is one of Broker's operations), `DisjointBatches` (an entry is in two
hands only when one of them has had its batch for `MinIdle`), `PublishedIsHandled` (if the
failing entries leave the consumers time, `FailuresFit`, every other published entry is
handled and acknowledged).
`LlmClient`: `AnswerIsUsable`, `CallIsBounded`, `CancellationEndsCall` (after a cancellation
at most one more request is begun and no request or pause is waited out), `Returns`.
`MockExtractor`: `SentencesAreExact` (against a definition of a boundary by position instead
of by search), `EarlierRuleWins`, `NaturalKeysAreUnique`, `OffsetsCountRunes`.
`Lifecycle`: `OneCreator`, `RunsOnFullSchema`, `MigrationInv` (inductive), `LockIsReleased`,
`ComesUpOrExits`, `StopsWhenTold`.

## 4. Runs

| run | instance | result |
|---|---|---|
| `rerun_fencing` | `OperatorSpec`: 1 document, texts with 0 and 1 entities, 2 extractors, 1 classifier, 1 relay, 2 requests, MarkFailed at any moment | `TypeOK`, `RunsDoNotMix`, `CompletedIsComplete`, `NoLostDocument`, `StoreInv`, `DeliveryInv`, `ImplementsResults` hold (889 k states) |
| `redelivery` | 1 document with 2 entities, 2 categories, 2 classifiers, 2 relays with batches of 1, 1 relay abort | `ProgressIsExact`, `NoLostToken`, `FinishedWorkIsKept` hold (127 k) |
| `completion` | `FairSpec`: 1 document, texts with 0 and 1 entities, 2 extractors, 1 classifier, 1 relay, 2 requests | `StampsFollowStage`, `CompletionIsMarked`, `SettledIsFinal`, `WorkCompletes` hold (288 k) |
| `locks` | `Transactions`: 2 requests at once, 2 extractors, 2 classifiers, 2 entities, 2 categories, 2 points in time | `TokenLockFencesRun`, `ImplementsResults`, `NoStandstill`, `DurationsAreHonest` hold (108 k) |
| `api` | 2 clients, one of them reading, page sizes none and 1, 2 entities, 2 extractors, 1 classifier | `ApiTypeOK`, `PagesAreExact`, `CompletedMeansAnswered` hold (291 k) |
| `loop` | 2 consumers, 4 entries of which 2 fail forever, batches of 2 that take up to 4 ticks and can be reclaimed after 3, 1 failure of a handler or XACK for once, 1 crash, 1 loss of Redis | `ImplementsBroker`, `DisjointBatches`, `PublishedIsHandled` hold (118 k) |
| `llm` | 2 retries, requests of up to 3 units (a unit is the first backoff), cancelled at any time or not | `TypeOK`, `AnswerIsUsable`, `CallIsBounded`, `CancellationEndsCall`, `Returns` hold (0.9 k) |
| `extractor` | all texts of up to 6 bytes, 2 rules | the four properties of `MockExtractor` hold (607 k) |
| `lifecycle` | 1 api and 2 workers, 2 migration files, 2 attempts | the six properties of `Lifecycle` hold (90 k) |
| `duplicate_extraction` | `FairSpec`, 2 extractors, 2 requests | `SubmittedCompletes` is violated |
| `redis_loss` | `LossSpec`, 1 request | `NoLostDocument` is violated |
| `poison_token` | `RefusingSpec`, 2 entities of which the LLM refuses one | `DocumentEnds` is violated |

The bounds. Two requests are enough for a rerun, a resume or a repeated request
against work in flight; one abort for a duplicated publication; two consumers of a
stage for every race between two handlers, since a handler only interacts with
others through one document's row; two entities for the decision who completes the
document, and for a page break. Deaths, handler errors and redeliveries are not bounded
in any run of `Pipeline` or `Transactions`. `MaxEnqueues` only limits when the operator of
`OperatorSpec` intervenes: without it MarkFailed and a redelivered job could alternate
forever. A cycle in the lock graph has two sessions, as only a rerun and an `apply` wait
while they hold a lock. In `loop` as many entries fail as one `XAUTOCLAIM` returns, so that the
reclaim could crowd out the reads, and a batch takes longer than `MinIdle`, so that it is
reclaimed while it is handled and its entries are idle again when the batch is through; three
of the four entries are within `Scan`. `FailuresFit` holds there (4 < 6, and 2 < 3). With
handlers of 3 ticks it does not (6 < 6), and without that condition TLC finds the consumers
doing nothing but the two failing entries; with a `Scan` of 2 it finds a pending entry that
no `XAUTOCLAIM` gets to. `completion` reads and relays one by one and has no abort, which leaves room for the
second extractor; aborts are in `redelivery`, and in the theorems about delivery. Six bytes hold every pair of adjacent
classes, a boundary with text on both sides, and a two-byte rune before an
entity. Three processes let one hold the lock, one wait and one be killed. `api` does
without the clock (`MaxTime` 0, nothing in it reads the time); `locks` has it.
Symmetry is used for interchangeable goroutines and documents (and entities and categories
where every text has all of them), never in a run with a liveness property. `llm` ends,
and in `locks` all requests may have been made and nobody have a job
left that needs work: these switch the deadlock check off. In `extractor` it stays on, and
only a call that has returned may stop: every set of spans has an order.

Fairness.

- `Pipeline` asks weak fairness of each relay goroutine and each consumer goroutine over all
  the steps of its loop: they are endless loops that never wait for each other.
  `<>[][Reliable]_vars` says that failures (errors, failing XACKs, deaths) end at some
  time; nothing is assumed of how many there are, nor of clients. The code cannot promise
  more: a handler that fails forever is redelivered forever. `PoisonToken` has the
  same weak fairness and no failures but the LLM's.
- `Transactions` has no fairness: `NoStandstill` is an invariant. It does not say that Postgres
  serves the waiters of a row in turn, nor that a transaction cannot wait long behind others.
- `ConsumeLoop`: weak fairness of each consumer's steps and of the clock. Crashes and losses
  are not forced to happen or not to.
- `LlmClient`: weak fairness of the call and of the clock: `http.Client.Timeout` ends a request.
- `Lifecycle`: weak fairness of each process, strong fairness of taking the advisory lock,
  whose waiters Postgres queues too. Dependencies need not recover.

### What the violations show

`duplicate_extraction`. `persist` (extractor.go:133) looks at the run version but not
at the status. Two workers are past `claim` for the same run, because a partial
resubmit enqueued a second job or because a slow job was reclaimed. The first
persists, the tokens are classified, the document is COMPLETED; the second persists,
`AdvanceToClassifying` takes it back to CLASSIFYING, and as no token is pending no job
is written. Nothing leads out: `claim` skips CLASSIFYING documents, so partial
resubmits do nothing, and only a full rerun helps. The comment at extractor.go:66
calls the stage idempotent. All safety properties about counters and runs survive
this, and so does the completion of the work: `completion` runs two extractors as well, and
what the second `persist` spoils is the status alone. `WorkCompletes` and
`CompletionIsMarked` say what is still true of such a document (all its tokens are answered,
and `classification_completed_at` is set), `SettledIsFinal` when the status is out of danger.

`redis_loss`. Once the relay has committed, the only message for a document is in
Redis. `docs/architecture.md:158` covers undelivered outbox rows only, but the text
after it and `docs/rerun-and-recovery.md:4` promise more than the code keeps.

`poison_token`. `OllamaClassifier` does not retry a 4xx, but the handler returns the error like
any other and the message stays pending. It is redelivered forever, and the document
stays CLASSIFYING; `MarkFailed`, made for "an unrecoverable error" (documents.go:118),
has no caller.

### Seen while modelling, not kept as runs

- With a second extractor `ClassificationDuration` alone may be negative: the second
  `persist` of a run stamps the start of classification again, after its end. The document is
  CLASSIFYING again, and `GET /status` reports a time for a stage that, going by the status,
  has not completed, although `docs/duration-tracking.md:31` says that such a duration is zero.
  It is the defect of `duplicate_extraction` once more; `DurationsAreHonest` is what holds in
  spite of it.
- An entry can be in two hands as soon as its batch takes `MinIdle` or longer. By
  `CallIsBounded` a single LLM call may take 153.75 s with the values in the code, and
  `CLAIM_MIN_IDLE` is 30 s by default (5 s in `docker-compose.yml`). Nothing goes wrong in the
  tables then (`ProgressIsExact`, `FinishedWorkIsKept`), but calls are paid for twice.
  `DisjointBatches` says that there is no other way to it.
- After Redis lost the group nothing is read until some worker process restarts:
  `ensureGroup` is called once per `Consume`. Hence the `~group` in `PublishedIsHandled`.
- Entries that fail forever can starve the others. A call that uses up its retries takes at
  least 3.75 s, a batch of 16 of them at least 60 s, so its entries are idle again
  before it is through, and the next consumer that comes along reclaims them before it reads
  anything new. What saves the others is only that each failing entry is claimed at most once
  per `CLAIM_MIN_IDLE`: with 8 consumers and 30 s, 63 entries that fail in 3.75 s can be
  stood, 64 need not be (`FailuresFit`). And since `reclaim` drops the cursor, as many failing
  entries as one `XAUTOCLAIM` looks at, 160, hide every pending entry behind them.
- `GET` for an id that does not exist answers 500 (`MissingCode`): the error of the store is
  not the `domain.ErrNotFound` the handler asks for.
- A mode other than the exact word "full" is a partial rerun (`RerunIsFull`).
- The page of an entity is that of its sentence's start; a form feed inside the sentence
  counts only from the next one on (nlp/mock.go:106).
- In cmd/api `main` returns when `ListenAndServe` does, that is when `Shutdown` is called, and
  does not wait for it (`MainReturns`): requests in flight are cut off.

## 5. Proofs

Assumed of the constants: `Extract` maps texts to sets of entities, `Entities` is
finite, "no category" is no category, clients, extractors and classifiers are different
goroutines, the bounds are natural numbers, times and the read count are positive, and
the extractor's order of the entities (`Rank`) is one. Nothing is assumed of the number of
documents, texts, extractors, classifiers, relays, consumers or requests, nor of how long a
batch takes. Each inductive
invariant below was checked with TLC on the instance of a run before it was proved.

`PipelineProofs` proves `AdverseSpec => []StoreInv` and from it `TypeOK`,
`ProgressIsExact`, `RunsDoNotMix`, `CompletedIsComplete` and `FinishedWorkIsKept`:
they depend on Postgres alone and survive even the loss of Redis. `StoreInv` adds to
the properties what makes them inductive:

- `BrokerInv`: consumers hold entries that were delivered, so a job can be looked up;
- `TokenRowsInv`: the natural key is a key and `tokens` is finite, so that
  classifying one token changes the count by exactly one;
- `SnapshotInv`: an extractor's snapshot is never of a future run, and if it is of the
  current run it has the current text. This is what makes the comparison of run
  versions in `persist` sufficient;
- `StageInv`: a document has all the tokens of its text or none, and from CLASSIFYING
  on it has all. A second `persist` of a run therefore inserts nothing, and
  `classified_count >= total_tokens` really means that none is left.

`StampsFollowStage` is proved of `Spec`, in which nobody calls `MarkFailed`. It needs
`StagesInv`: tokens appear with CLASSIFYING and not before, and the
document of an extractor's current snapshot is past PENDING, so that `persist` never meets
one without a start time.

`CompletionIsMarked` is proved of `AdverseSpec` by `MarkInv`. A stamp means that the text is
extracted and answered, because only `persist` of an empty text and the `apply` that counts up to
`total_tokens` set it, and the counts are exact (`StoreInv`). Conversely a document that has
tokens, all of them answered, has the stamp, whatever its status: this half must also speak
of documents that an operator failed and a client resumed, as they keep their tokens and
come back to CLASSIFYING through another `persist`. `SettledIsFinal`, also of
`AdverseSpec`, is read off the steps: `claim` skips a COMPLETED document, so no extractor gets a
new snapshot of the run; the only ones that could persist are those that hold one already,
and `apply` does not touch the status of a document that has no pending token.

It proves `AdverseSpec => ImplementsResults` too: the initial tables map to no
results, and every step maps to a step of `DocumentResults` or to none. The argument needs
`StoreInv` and, besides, that a document that exists has had a run (`RunInv`). A first
submission and a full rerun are `Open`. `persist` is `Find` if the document has no tokens; if it
has some, it has all of them (`StageInv`) of this very run (`RunsDoNotMix`), so
`ON CONFLICT DO NOTHING` inserts none and the step is a stutter: this is why a duplicated
extraction, which does upset the status, never upsets the results. `apply` is `Answer`, as
the natural key is a key (`TokenRowsInv`) and the token had no answer yet. The last theorem,
`AdverseSpec => GroupSpec`, says that relays and workers change the broker only through the
operations of `ConsumerGroup`; it needs the types of the outbox, for the jobs that are
published.

`DeliveryProofs` proves `OperatorSpec => []DeliveryInv` and from it `NoLostToken` and
`NoLostDocument`. These two are not inductive: a job may be in an outbox row that an
open relay transaction already published, and so will delete, or in an entry whose
handler has returned and whose XACK is due. `DeliveryInv` says that there is always a
job in a better place: an unpublished row or a *safe* entry. Each early return of a
handler must then be shown not to forget a needed job: `claim` skips only documents
that need no extraction; a stale `persist` holds a job of an older run (`HandlingInv`);
`apply` drops only jobs whose token is not pending, which needs `RunsDoNotMix` and
that a classify job names its token's run (`JobsInv`).

`LifecycleProofs` proves `Spec => []MigrationInv` for any number of processes and files, and
from it `OneCreator` and `RunsOnFullSchema`. Neither is inductive: that who migrates holds
the lock gives the first; that it has applied every file before its own, even after others
failed half-way, gives the second.

`StoreProofs` treats the transactions apart from who runs them: a first submission, a reset, a
status change, `persist` and `apply` each keep `DatabaseInv` (the natural key is a key,
tokens are of the current run, all of a text's entities or none, exact counts, COMPLETED
means answered) and map to one step of `DocumentResults` or to none.

`TransactionsProofs` builds on it for sessions that interleave statement by statement. `TxInv` is
`DatabaseInv`, that jobs name documents that exist, and of each session what it knows and
which locks it has: locks are exclusive; only a rerun in its DELETE and an `apply` that has
its token hold any between two statements; and the token an `apply` has locked is still
there and unanswered. The last part is inductive because a transaction removes or changes
only token rows it has locked (`KeepsRows`), which for a rerun is what waiting for the lock
of every token in the DELETE amounts to. It gives `TokenLockFencesRun`: the row is there,
rows are of the document's run (`DatabaseInv`), so the run is the token's. With it every
commit is one of the steps of `StoreProofs` and everything else a stutter, which is
`ImplementsResults`: the row locks justify the atomic transactions of `Pipeline`.

For the api, `ApiInv` adds what a client has learned (`LearnedOK`): while the run is the one
of its rows, the rows it has are the first ones of the run in the order of `Rank`, row `i`
having `i - 1` entities of the run in front of it. A page behind them continues the count, and when
the last page is shorter than its limit the count is the run's. That the rows of a run
stay, and stay answered, comes from the refinement: no step of `DocumentResults` takes
anything back within a run. `PagesAreExact` and `CompletedMeansAnswered` follow. Places are
counted by cardinality, since the provers cannot do induction over a sequence; for the same
reason `Ordered` chooses the sequence that is in order instead of sorting.

`NoStandstill` needs, besides `TxInv`, what locks a session may hold at which place: a
session that holds any is a rerun in its DELETE or an `apply` that wants its document.
Such an `apply` waits at most for a rerun that deletes, and such a rerun for an `apply` of its own
document; when they wait for each other they are a cycle of two, and Postgres aborts one.
So nobody who holds a lock is ever stuck, and everybody else waits for one of those. An
early return that kept its locks would hold them at a place where nothing gives them back.

`DurationsAreHonest` needs `TimeInv`, for any number of extractors: nothing is stamped after
the present clock; the extraction begins once per run; `persist` stamps the end of extraction and
the start of classification with the same time; and an extractor that persists, or a classifier that
applies, for the current run began its transaction after the extraction had begun. So both
columns that end a stage lie after the start of extraction, whichever `persist` was the last,
and the sum of the two durations is the distance of the outermost ones.

`ConsumeLoopProofs` proves `TypeOK` and `DisjointBatches`, however long a batch takes. `LoopInv`
relates the two clocks: an entry that a consumer holds has been idle for no longer than the
consumer has had its batch. A reclaim takes only entries idle for `MinIdle`, so it takes one out of
another's hands only if that one's batch is that old; from then on the age of the first batch
stays at its cap, and nothing sets it back. Crashes and losses of Redis only take entries away.

It also proves `Spec => ImplementsBroker`, for any batch size. An entry
of the loop is a job of the extract stream, the PEL is the set of entries that have an idle
time, a consumer's inbox its batch. `Publish`, `EnsureGroup`, `Reclaim`, `ReadNew`, `HandleOne` (an XACK or none),
`Crash` and `Loss` map to Broker's operations; blocking, pausing and the clock to no step.
What takes work is that the first `ReadCount` of the entries past `lastDelivered`, which the
loop selects by counting, are the interval that Broker reads, and that a batch of
`XAUTOCLAIM` has at most `ReadCount` entries and all of them pending. The invariant needed
is `TypeOK`, which is why that states more than types: pending entries were delivered, and
a consumer holds a batch exactly while it handles one.

`LlmClientProofs` proves the four invariants of `LlmClient`. `CallIsBounded` needs how much of the
time went into the attempts before this one (`Spent`), which grows by a timeout and a
doubled pause per attempt; that `2^(n+1)` is twice `2^n` is proved by counting subsets, as
the provers know no exponents. `CancellationEndsCall` follows from what each statement awaits:
with the context in both, no time passes once it is done, so the pause after a request that
was not sent never sees its timer fire, and only the context can end it (`CancelOK`). A pause
that awaits the timer alone (`time.Sleep`) breaks it.

`MockExtractorProofs` proves the four properties of `MockExtractor` for texts of any length and any
number of rules. They follow from `ExtractorInv`, which says of each stage what it has done so far:

- `SearchInv`, while boundaries are searched: of the positions up to `pos`, the starts are
  exactly those that `IsStart` says are one. `IsStart` looks at the text around a position and
  knows nothing of where the search came from, so each step must show that the leftmost
  match ends at the next such position: that no position before it is one (a terminator
  whose white space ends there, or the end of a run of line breaks, would have matched
  earlier), and that white space begun inside an earlier match is no boundary of its own;
- `SentencesInv`: sentences are not empty and each lies behind the one before it, which makes
  offsets grow from one sentence to the next;
- `SpansInv`: spans start at a word, lie inside the sentence, and are pairwise apart. That
  they are apart is what makes starts, and so keys, different, and it needs both
  `occupied` between rules and disjoint matches within one;
- `EntitiesInv`: entities are at words of sentences already scanned, have their number and
  page, count the runes before them, and come in strictly increasing order of position.

Strictly increasing byte positions of words give strictly increasing rune counts (a word's first byte is
no continuation byte), which gives unique keys and shows that the last sort of `Extract`
finds the list sorted; a byte that is not counted belongs to a pair, which gives the exact
offset. What the loops compute is thereby proved step by step, as invariants. A run of bytes
and a sorted list are described by what they are (`RunEnd`, `Orders`) and not computed by
recursion, because the provers cannot do induction over data. The price is that
such a choice must exist, and that is the part TLC looks after (`extractor` has no deadlock).

Only model-checked: `WorkCompletes`, `PublishedIsHandled`, `Returns`, `LockIsReleased`,
`ComesUpOrExits` and `StopsWhenTold`, and the three violations. The former are liveness:
fairness and ENABLED are out of the prover's reach.

## 6. Not modelled, and what comes next

Not modelled: the regular expressions and the hash of the mock classifier and the word
lists of the mock extractor (which spans they match is left open); the token filters of
`GET /tokens`, the percentage and the rounding of the progress, `/healthz`; HTTP and JSON
encoding, SQL text, prompts, logging; the parsing of the configuration, which happens
once before there is any state.

Every safety property that a run checks is proved. Not shown is the converse of the two
refinements of `ConsumerGroup`: that `Pipeline` allows every behaviour of a group that the loop
allows. It would need the workers' states beside the loop's; that the workers' guards on
Broker's operations are only their own program counters can be read off
`ExtractionWorker` and `ClassificationWorker`. Nor is it modelled in which order Postgres serves
the sessions that wait for a row, so nothing is said of how long a transaction may wait.
