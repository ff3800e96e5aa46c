------------------------------- MODULE Relay -------------------------------
(***************************************************************************)
(* The outbox relay (internal/outbox/relay.go), one per api process.       *)
(* drainBatch is one long transaction: it locks a batch of rows, publishes *)
(* them to the broker one by one, marks each deleted, and commits.  The    *)
(* broker is not part of the transaction, so an abort after a publish      *)
(* leaves rows behind that are already in a stream.                        *)
(***************************************************************************)
EXTENDS Store, Broker

CONSTANTS
    Relays,      \* the relay goroutines of the api processes
    BatchSize,   \* LIMIT of ClaimOutboxBatch
    MaxAborts    \* bound: how many relay transactions fail

ASSUME BatchSizeAssumption == BatchSize \in Nat \ {0}
ASSUME MaxAbortsAssumption == MaxAborts \in Nat

VARIABLES
    relay,    \* [Relays -> the rows its open transaction locked and published]
    aborts    \* relay transactions that failed so far

relayVars == <<relay, aborts>>

NoTransaction == [claimed |-> {}, published |-> {}]

RelayTypeOK ==
    /\ relay \in [Relays -> [claimed : SUBSET OutboxRow, published : SUBSET OutboxRow]]
    /\ aborts \in 0..MaxAborts

RelayInit ==
    /\ relay = [r \in Relays |-> NoTransaction]
    /\ aborts = 0

Locked == UNION {relay[r].claimed : r \in Relays}

\* SELECT ... ORDER BY id FOR UPDATE SKIP LOCKED LIMIT BatchSize.
IsBatch(batch, free) ==
    /\ batch # {}
    /\ batch = free \/ Cardinality(batch) = BatchSize
    /\ Cardinality(batch) <= BatchSize
    /\ \A row \in batch, other \in free \ batch : row.id <= other.id

ClaimOutboxBatch(r) ==
    /\ relay[r] = NoTransaction
    /\ \E batch \in SUBSET (outbox \ Locked) :
          /\ IsBatch(batch, outbox \ Locked)
          /\ relay' = [relay EXCEPT ![r].claimed = batch]
    /\ UNCHANGED <<storeVars, brokerVars, aborts>>

\* Publish the next row and delete it inside the transaction.
PublishRow(r) ==
    /\ \E row \in relay[r].claimed \ relay[r].published :
          /\ \A other \in relay[r].claimed \ relay[r].published : row.id <= other.id
          /\ Publish(row.stream, row.payload)
          /\ relay' = [relay EXCEPT ![r].published = @ \cup {row}]
    /\ UNCHANGED <<storeVars, aborts>>

CommitBatch(r) ==
    /\ relay[r].claimed # {}
    /\ relay[r].published = relay[r].claimed
    /\ outbox' = DeleteOutbox(outbox, relay[r].published)
    /\ relay' = [relay EXCEPT ![r] = NoTransaction]
    /\ UNCHANGED <<documents, tokens, outboxSeq, brokerVars, aborts>>

\* A publish fails, the commit fails or the process dies: Postgres rolls back.
AbortBatch(r) ==
    /\ relay[r].claimed # {}
    /\ aborts < MaxAborts
    /\ aborts' = aborts + 1
    /\ relay' = [relay EXCEPT ![r] = NoTransaction]
    /\ UNCHANGED <<storeVars, brokerVars>>

RelayNext(r) ==
    \/ ClaimOutboxBatch(r)
    \/ PublishRow(r)
    \/ CommitBatch(r)
    \/ AbortBatch(r)
============================================================================
