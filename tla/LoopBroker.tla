----------------------------- MODULE LoopBroker -----------------------------
(***************************************************************************)
(* ConsumeLoop implements ConsumerGroup: its entries are the jobs of the   *)
(* extract stream, its pending entries those that have an idle time, and   *)
(* a consumer's inbox the batch it is handling.  What the jobs say does    *)
(* not matter to the group; entry e is the job of run e of one document.   *)
(***************************************************************************)
EXTENDS ConsumeLoop

\* x for the stream of this loop, none for the other one.
OfStream(x, none) == [s \in {"extract", "classify"} |-> IF s = "extract" THEN x ELSE none]

JobOf(e) == [document_id |-> "document", run_version |-> e]

Log == OfStream([e \in 1..published |-> JobOf(e)], <<>>)
LastDelivered == OfStream(lastDelivered, 0)
Pel == OfStream(DOMAIN idle, {})
GroupExists == OfStream(group, FALSE)
Inbox == [c \in Members |-> consumer[c].batch]

Group == INSTANCE ConsumerGroup WITH
    Docs <- {"document"}, Texts <- {}, Entities <- {}, Extract <- <<>>, Categories <- {},
    Extractors <- Members, Classifiers <- {},
    log <- Log, lastDelivered <- LastDelivered, pel <- Pel, group <- GroupExists, inbox <- Inbox

\* Blocking reads, pauses, the clock, crashes between any two steps and losses of
\* Redis add nothing to what Broker says of a consumer group: new entries are
\* delivered in order, none is skipped, a batch is not longer than ReadCount, a
\* pending entry leaves the list only by the XACK of a consumer that holds it,
\* and a consumer takes entries only when it has none.
ImplementsBroker == Group!GroupSpec
============================================================================
