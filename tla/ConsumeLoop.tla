---------------------------- MODULE ConsumeLoop ----------------------------
(***************************************************************************)
(* RedisBroker.Consume with its clock (internal/queue/redis.go): one       *)
(* stream, its consumer group, and the consumers' loop of reclaim, read    *)
(* and handle.  Broker leaves the idle time of pending entries open; here  *)
(* it is counted, because who gets an entry, and when, depends on it.      *)
(*                                                                         *)
(* Entry e is the e-th one published.  The handler of an entry takes       *)
(* HandleTime ticks.  It fails every time for the entries in Failing; for  *)
(* the others it may fail for once, or XACK may fail after it succeeded,   *)
(* MaxFaults times in all.  A batch may well take longer than MinIdle.     *)
(* Steps of a loop take no time; the clock advances when every consumer is *)
(* busy or blocked.                                                        *)
(***************************************************************************)
EXTENDS Naturals, FiniteSets, FiniteSetsExt

CONSTANTS
    Members,      \* the consumers of the group
    MaxEntries,   \* bound: entries published
    Failing,      \* entries whose handler never succeeds
    HandleTime,   \* ticks of one handler call
    MinIdle,      \* CLAIM_MIN_IDLE
    BlockTime,    \* how long XREADGROUP blocks; also the pause after an error
    ReadCount,    \* entries per XREADGROUP or XAUTOCLAIM
    Scan,         \* pending entries that one XAUTOCLAIM looks at (Redis: 10 * ReadCount)
    MaxFaults,    \* bound: handlers and XACKs that fail for once
    MaxCrashes,   \* bound: consumer processes that die
    MaxLosses     \* bound: how often Redis loses its data

ASSUME LoopAssumption ==
    /\ {HandleTime, MinIdle, BlockTime, ReadCount, Scan} \subseteq Nat \ {0}
    /\ {MaxEntries, MaxFaults, MaxCrashes, MaxLosses} \subseteq Nat
    /\ Failing \subseteq 1..MaxEntries

VARIABLES
    published,      \* entries added so far
    gone,           \* entries that Redis lost
    lastDelivered,  \* last entry the group delivered
    idle,           \* [entries of the PEL -> ticks since the last delivery]
    group,          \* does the consumer group exist
    handled,        \* entries whose handler has succeeded
    consumer,       \* [Members -> position in the loop]
    faults, crashes, losses

vars == <<published, gone, lastDelivered, idle, group, handled, consumer,
          faults, crashes, losses>>

Entry == 1..MaxEntries

\* at: "start" ensureGroup; "reclaim"; "read" and "blocked" XREADGROUP; "paused"
\* after its error; "handle".
\* batch: fetched and not handled yet, in id order; left: ticks until the
\* handler returns or the block ends; age: ticks since the batch was fetched,
\* counted up to MinIdle.
Loop == [at : {"start", "reclaim", "read", "blocked", "paused", "handle"},
         batch : SUBSET Entry,
         left : Nat,
         age : 0..MinIdle]

At(place, ticks) == [at |-> place, batch |-> {}, left |-> ticks, age |-> 0]

Handling(batch, age) == [at |-> "handle", batch |-> batch, left |-> HandleTime, age |-> age]

TypeOK ==
    /\ published \in 0..MaxEntries
    /\ gone \subseteq Entry
    /\ lastDelivered \in 0..published
    /\ DOMAIN idle \subseteq 1..lastDelivered
    /\ \A e \in DOMAIN idle : idle[e] \in 0..MinIdle
    /\ group \in BOOLEAN
    /\ handled \subseteq Entry
    /\ consumer \in [Members -> Loop]
    /\ \A c \in Members : consumer[c].at = "handle" <=> consumer[c].batch # {}
    /\ faults \in 0..MaxFaults /\ crashes \in 0..MaxCrashes /\ losses \in 0..MaxLosses

Init ==
    /\ published = 0 /\ lastDelivered = 0
    /\ gone = {} /\ handled = {}
    /\ idle = [e \in {} |-> 0]
    /\ group = FALSE
    /\ consumer = [c \in Members |-> At("start", 0)]
    /\ faults = 0 /\ crashes = 0 /\ losses = 0

Move(c, loop) == consumer' = [consumer EXCEPT ![c] = loop]

\* The first n entries of S by id.
FirstOf(n, S) == {e \in S : Cardinality({f \in S : f < e}) < n}

----------------------------------------------------------------------------
(* Mutants (no specification uses them). *)

\* XAUTOCLAIM with a minimum idle time of zero.
ClaimableAtOnce == DOMAIN idle

\* No return after a handler's error: XACK all the same.
OutcomesAckedAnyway(e) ==
    {[ok |-> ok, acked |-> acked] : ok \in {e \notin Failing, FALSE}, acked \in BOOLEAN}

\* A group created at "$": what was published before is not delivered to it.
EnsureGroupAtEnd(c) ==
    /\ consumer[c].at = "start"
    /\ group' = TRUE
    /\ lastDelivered' = IF group THEN lastDelivered ELSE published
    /\ Move(c, At("reclaim", 0))
    /\ UNCHANGED <<published, gone, idle, handled, faults, crashes, losses>>

----------------------------------------------------------------------------
\* The group notes a delivery of batch.
Delivered(batch) == [e \in DOMAIN idle \cup batch |-> IF e \in batch THEN 0 ELSE idle[e]]

Publish ==
    /\ published < MaxEntries
    /\ published' = published + 1
    /\ UNCHANGED <<gone, lastDelivered, idle, group, handled, consumer, faults, crashes, losses>>

\* ensureGroup, at "0": also what was published before belongs to the group.
EnsureGroup(c) ==
    /\ consumer[c].at = "start"
    /\ group' = TRUE
    /\ Move(c, At("reclaim", 0))
    /\ UNCHANGED <<published, gone, lastDelivered, idle, handled, faults, crashes, losses>>

\* XAUTOCLAIM looks at the first pending entries, always from "0" (the cursor it
\* returns is dropped), and finds those that have been idle for the minimum time.
Claimable == {e \in FirstOf(Scan, DOMAIN idle) : idle[e] >= MinIdle}

\* reclaim: XAUTOCLAIM; claiming resets the idle time.
Reclaim(c) ==
    LET batch == FirstOf(ReadCount, Claimable) IN
    /\ consumer[c].at = "reclaim"
    /\ group
    /\ batch # {}
    /\ idle' = Delivered(batch)
    /\ Move(c, Handling(batch, 0))
    /\ UNCHANGED <<published, gone, lastDelivered, group, handled, faults, crashes, losses>>

\* Nothing to reclaim, or no group to reclaim from: on to XREADGROUP.
NothingReclaimed(c) ==
    /\ consumer[c].at = "reclaim"
    /\ ~group \/ Claimable = {}
    /\ Move(c, At("read", 0))
    /\ UNCHANGED <<published, gone, lastDelivered, idle, group, handled, faults, crashes, losses>>

New == (lastDelivered + 1)..published

ReadNew(c) ==
    LET batch == FirstOf(ReadCount, New) IN
    /\ consumer[c].at \in {"read", "blocked"}
    /\ group
    /\ batch # {}
    /\ lastDelivered' = Max(batch)
    /\ idle' = Delivered(batch)
    /\ Move(c, Handling(batch, 0))
    /\ UNCHANGED <<published, gone, group, handled, faults, crashes, losses>>

\* No new entry: XREADGROUP blocks.
ReadNothing(c) ==
    /\ consumer[c].at = "read"
    /\ group /\ New = {}
    /\ Move(c, At("blocked", BlockTime))
    /\ UNCHANGED <<published, gone, lastDelivered, idle, group, handled, faults, crashes, losses>>

\* No group: XREADGROUP fails and the loop pauses.
ReadFails(c) ==
    /\ consumer[c].at = "read"
    /\ ~group
    /\ Move(c, At("paused", BlockTime))
    /\ UNCHANGED <<published, gone, lastDelivered, idle, group, handled, faults, crashes, losses>>

BlockEnds(c) ==
    /\ consumer[c].at \in {"blocked", "paused"}
    /\ consumer[c].left = 0
    /\ Move(c, At("reclaim", 0))
    /\ UNCHANGED <<published, gone, lastDelivered, idle, group, handled, faults, crashes, losses>>

\* How a call of handleOne may end: XACK only after a handler that returned nil;
\* the handler may fail for once, and XACK may fail.
Outcomes(e) ==
    {o \in [ok : BOOLEAN, acked : BOOLEAN] : (o.ok => e \notin Failing) /\ (o.acked => o.ok)}

\* handleOne: the handler of the first entry of the batch returns.  Unless it is
\* acknowledged the entry stays pending; then the next entry, or back to reclaim
\* after the last.
HandleOne(c, o) ==
    LET e == Min(consumer[c].batch)
        rest == consumer[c].batch \ {e}
    IN  /\ faults' = IF e \in Failing \/ o.acked THEN faults ELSE faults + 1
        /\ faults' <= MaxFaults
        /\ idle' = [f \in (IF o.acked THEN DOMAIN idle \ {e} ELSE DOMAIN idle) |-> idle[f]]
        /\ handled' = IF o.ok THEN handled \cup {e} ELSE handled
        /\ Move(c, IF rest = {} THEN At("reclaim", 0) ELSE Handling(rest, consumer[c].age))
        /\ UNCHANGED <<published, gone, lastDelivered, group, crashes, losses>>

HandlerReturns(c) ==
    /\ consumer[c].at = "handle"
    /\ consumer[c].left = 0
    /\ \E o \in Outcomes(Min(consumer[c].batch)) : HandleOne(c, o)

\* The process dies and is started again.
Crash(c) ==
    /\ crashes < MaxCrashes
    /\ crashes' = crashes + 1
    /\ Move(c, At("start", 0))
    /\ UNCHANGED <<published, gone, lastDelivered, idle, group, handled, faults, losses>>

\* Redis comes back without its data.  A consumer does not notice: its next
\* commands fail because there is no group.
Loss ==
    /\ losses < MaxLosses
    /\ losses' = losses + 1
    /\ gone' = gone \cup (1..published \ handled)
    /\ lastDelivered' = published
    /\ idle' = [e \in {} |-> 0]
    /\ group' = FALSE
    /\ UNCHANGED <<published, handled, consumer, faults, crashes>>

\* Steps of the loop that take no time.
Step(c) ==
    \/ EnsureGroup(c)
    \/ Reclaim(c)
    \/ NothingReclaimed(c)
    \/ ReadNew(c)
    \/ ReadNothing(c)
    \/ ReadFails(c)
    \/ BlockEnds(c)
    \/ HandlerReturns(c)

\* The consumer runs a handler, pauses, or is blocked with nothing to read.
Waiting(c) ==
    \/ consumer[c].at \in {"handle", "paused"} /\ consumer[c].left > 0
    \/ consumer[c].at = "blocked" /\ consumer[c].left > 0 /\ (~group \/ New = {})

Later(ticks) == IF ticks < MinIdle THEN ticks + 1 ELSE MinIdle

Tick ==
    /\ \A c \in Members : Waiting(c)
    /\ consumer' = [c \in Members |->
                       [consumer[c] EXCEPT !.left = @ - 1,
                                           !.age = IF consumer[c].at = "handle" THEN Later(@) ELSE @]]
    /\ idle' = [e \in DOMAIN idle |-> Later(idle[e])]
    /\ UNCHANGED <<published, gone, lastDelivered, group, handled, faults, crashes, losses>>

Next ==
    \/ Publish
    \/ \E c \in Members : Step(c) \/ Crash(c)
    \/ Loss
    \/ Tick

Spec == Init /\ [][Next]_vars

\* Consumers run and time passes.
FairSpec ==
    /\ Spec
    /\ \A c \in Members : WF_vars(Step(c))
    /\ WF_vars(Tick)

----------------------------------------------------------------------------
(* Properties. *)

\* An entry is in the hands of two consumers only when one of them has spent
\* CLAIM_MIN_IDLE or more on its batch, which is worked off one entry after the
\* other while the idle clock of all of them runs: nothing else breaks "the
\* consumer group distributes disjoint tokens to each" (architecture.md:84).
DisjointBatches ==
    \A c, d \in Members : c # d /\ consumer[c].batch \cap consumer[d].batch # {}
        => MinIdle \in {consumer[c].age, consumer[d].age}

\* Each failing entry is reclaimed at most once in MinIdle ticks, and that costs a
\* consumer HandleTime: the consumers together can do more than that.  And XAUTOCLAIM
\* sees past the failing entries, which stay at the head of the PEL.
FailuresFit ==
    /\ HandleTime * Cardinality(Failing) < MinIdle * Cardinality(Members)
    /\ Cardinality(Failing) < Scan

\* As long as the entries that fail forever do not occupy every consumer, nor hide the
\* others from XAUTOCLAIM, every other published entry is handled and acknowledged: the
\* ones published before the group existed, the ones a dead consumer had fetched, the
\* ones whose handler or XACK failed for once, and the ones behind the failing ones,
\* which are reclaimed before anything new is read; also when a failing batch takes
\* longer than CLAIM_MIN_IDLE and is reclaimed while it is handled.  What Redis lost is
\* lost, and after that loss nothing is handled until a restarted consumer creates the
\* group again.
PublishedIsHandled ==
    FailuresFit =>
        \A e \in Entry \ Failing :
            e <= published ~> \/ e \in handled \ DOMAIN idle
                             \/ e \in gone
                             \/ ~group
============================================================================
