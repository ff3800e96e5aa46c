------------------------------- MODULE Broker -------------------------------
(***************************************************************************)
(* The Redis Streams broker (internal/queue/redis.go): one stream and one  *)
(* consumer group per stage, and the read / reclaim / ack loop of Consume. *)
(*                                                                         *)
(* An entry's id is its position in the stream.  The group keeps the last  *)
(* position it delivered and its pending entries list (PEL).  The owner of *)
(* a pending entry is not kept: neither XACK nor XAUTOCLAIM asks for it.   *)
(* The idle clock is not kept either: XAUTOCLAIM may return any pending    *)
(* entries, also ones whose handler is still running, because nothing      *)
(* bounds how long a handler takes against the configured minimum idle     *)
(* time.  inbox[c] is the batch that consumer c fetched and is handling in *)
(* id order; it lives in the process and dies with it.                     *)
(***************************************************************************)
EXTENDS Domain, Sequences

CONSTANTS
    Extractors,   \* consumers of the extract group: the goroutines of all extractor processes
    Classifiers,  \* consumers of the classify group
    ReadCount     \* how many entries one XREADGROUP or XAUTOCLAIM returns at most

ASSUME ConsumersAssumption == Extractors \cap Classifiers = {}
ASSUME ReadCountAssumption == ReadCount \in Nat \ {0}

VARIABLES
    log,            \* [Streams -> Seq(Job)]: everything ever added
    lastDelivered,  \* [Streams -> Nat]: last entry the group delivered
    pel,            \* [Streams -> SUBSET Nat]: delivered and not acknowledged
    group,          \* [Streams -> BOOLEAN]: does the consumer group exist
    inbox           \* [Consumers -> SUBSET Nat]: fetched batch, not handled yet

brokerVars == <<log, lastDelivered, pel, group, inbox>>

Consumers == Extractors \cup Classifiers

StreamOf(c) == IF c \in Extractors THEN StreamExtract ELSE StreamClassify

Entries(s) == 1..Len(log[s])

\* Entries the group still owes to some consumer.
Outstanding(s) == pel[s] \cup (lastDelivered[s] + 1)..Len(log[s])

\* The message consumer c is handling: the first of its batch.
Current(c, e) == e \in inbox[c] /\ \A f \in inbox[c] : e <= f

JobAt(c, e) == log[StreamOf(c)][e]

BrokerTypeOK ==
    /\ DOMAIN log = Streams
    /\ \A s \in Streams : log[s] \in Seq(Job(s))
    /\ lastDelivered \in [Streams -> Nat]
    /\ pel \in [Streams -> SUBSET Nat]
    /\ group \in [Streams -> BOOLEAN]
    /\ inbox \in [Consumers -> SUBSET Nat]

BrokerInit ==
    /\ log = [s \in Streams |-> <<>>]
    /\ lastDelivered = [s \in Streams |-> 0]
    /\ pel = [s \in Streams |-> {}]
    /\ group = [s \in Streams |-> FALSE]
    /\ inbox = [c \in Consumers |-> {}]

----------------------------------------------------------------------------
(* Mutants (no specification uses them). *)

\* No XAUTOCLAIM.
ReclaimNever(c, batch) == FALSE

\* XACK also after an error.
AckOnError(c, e) ==
    /\ Current(c, e)
    /\ pel' = [pel EXCEPT ![StreamOf(c)] = @ \ {e}]
    /\ inbox' = [inbox EXCEPT ![c] = @ \ {e}]
    /\ UNCHANGED <<log, lastDelivered, group>>

----------------------------------------------------------------------------

\* Publish: XADD.
Publish(s, j) ==
    /\ log' = [log EXCEPT ![s] = Append(@, j)]
    /\ UNCHANGED <<lastDelivered, pel, group, inbox>>

\* The process of a consumer starts, for the first time or after its death at
\* any point: what it had fetched stays in the PEL only, and Consume creates
\* the group at "0" unless it exists.
StartConsumer(c) ==
    /\ inbox' = [inbox EXCEPT ![c] = {}]
    /\ group' = [group EXCEPT ![StreamOf(c)] = TRUE]
    /\ UNCHANGED <<log, lastDelivered, pel>>

\* XREADGROUP ... ">": the next entries never delivered to the group.
ReadNew(c) ==
    LET s == StreamOf(c)
        last == IF lastDelivered[s] + ReadCount <= Len(log[s])
                THEN lastDelivered[s] + ReadCount ELSE Len(log[s])
        batch == (lastDelivered[s] + 1)..last
    IN  /\ inbox[c] = {}
        /\ group[s]
        /\ lastDelivered[s] < Len(log[s])
        /\ lastDelivered' = [lastDelivered EXCEPT ![s] = last]
        /\ pel' = [pel EXCEPT ![s] = @ \cup batch]
        /\ inbox' = [inbox EXCEPT ![c] = batch]
        /\ UNCHANGED <<log, group>>

\* reclaim: XAUTOCLAIM from "0" of up to ReadCount idle pending entries.
Reclaim(c, batch) ==
    /\ inbox[c] = {}
    /\ group[StreamOf(c)]
    /\ batch # {} /\ batch \subseteq pel[StreamOf(c)]
    /\ Cardinality(batch) <= ReadCount
    /\ inbox' = [inbox EXCEPT ![c] = batch]
    /\ UNCHANGED <<log, lastDelivered, pel, group>>

\* handleOne after a handler that returned nil: XACK.
Ack(c, e) ==
    /\ Current(c, e)
    /\ pel' = [pel EXCEPT ![StreamOf(c)] = @ \ {e}]
    /\ inbox' = [inbox EXCEPT ![c] = @ \ {e}]
    /\ UNCHANGED <<log, lastDelivered, group>>

\* handleOne after a handler that returned an error, or when XACK fails: the
\* entry stays pending and the loop goes on to the next one.
LeavePending(c, e) ==
    /\ Current(c, e)
    /\ inbox' = [inbox EXCEPT ![c] = @ \ {e}]
    /\ UNCHANGED <<log, lastDelivered, pel, group>>

\* Redis loses its data: streams and groups are gone.  log keeps the history,
\* because a consumer still holds in memory what it fetched.
LoseStreams ==
    /\ lastDelivered' = [s \in Streams |-> Len(log[s])]
    /\ pel' = [s \in Streams |-> {}]
    /\ group' = [s \in Streams |-> FALSE]
    /\ UNCHANGED <<log, inbox>>
============================================================================
