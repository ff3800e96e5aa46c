--------------------------- MODULE ConsumerGroup ---------------------------
(***************************************************************************)
(* The operations of Broker as a specification of their own: what the      *)
(* stages of the pipeline are told a consumer group does with its stream,  *)
(* whoever publishes and whatever the handlers do.  Pipeline joins these   *)
(* operations to the workers' steps; ConsumeLoop, which has the positions  *)
(* of the loop and the clock, is shown to implement them.                  *)
(***************************************************************************)
EXTENDS Broker

\* The process of c dies.  Broker and Pipeline let it die and restart in one step;
\* what it had fetched can as well be gone before the restart.
Die(c) ==
    /\ inbox' = [inbox EXCEPT ![c] = {}]
    /\ UNCHANGED <<log, lastDelivered, pel, group>>

\* Somebody publishes the job that is last in the log afterwards.
SomePublish ==
    \E s \in Streams : /\ Len(log'[s]) = Len(log[s]) + 1
                       /\ log'[s][Len(log[s]) + 1] \in Job(s)
                       /\ Publish(s, log'[s][Len(log[s]) + 1])

GroupNext ==
    \/ SomePublish
    \/ \E c \in Consumers :
          \/ StartConsumer(c) \/ Die(c)
          \/ ReadNew(c)
          \/ \E batch \in SUBSET pel[StreamOf(c)] : Reclaim(c, batch)
          \/ \E e \in inbox[c] : Ack(c, e) \/ LeavePending(c, e)
    \/ LoseStreams

GroupSpec == BrokerInit /\ [][GroupNext]_brokerVars
============================================================================
