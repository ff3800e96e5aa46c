-------------------------- MODULE LifecycleProofs --------------------------
(***************************************************************************)
(* Proofs about Lifecycle, for every number of services, migration files   *)
(* and attempts, with processes and databases that fail at any time.       *)
(***************************************************************************)
EXTENDS Lifecycle, TLAPS

\* Nothing is migrated and nobody runs before the first start.
LEMMA MigrationInit == ASSUME Init PROVE MigrationInv
  BY LifecycleAssumption
  DEF Init, MigrationInv, TypeOK, Pc, Migrating, RunsOnFullSchema

\* The end of a process disturbs no other one: it only frees its own lock.
LEMMA ExitOK ==
    ASSUME MigrationInv, NEW p \in Services, Exit(p)
    PROVE  MigrationInv'
  <1>1. TypeOK'
    BY DEF MigrationInv, TypeOK, Exit, Go, Pc
  <1>2. \A q \in Services : pc'[q] = IF q = p THEN "exited" ELSE pc[q]
    BY DEF MigrationInv, TypeOK, Exit, Go
  <1>3. \A q \in Services : pc'[q] \in Migrating => lock' = q
    BY <1>2 DEF MigrationInv, Exit, Migrating
  <1>4. UNCHANGED <<file, applied>>
    BY DEF Exit
  <1> QED
    BY <1>1, <1>2, <1>3, <1>4 DEF MigrationInv, Migrating, RunsOnFullSchema

\* A process that goes from one place to another outside Migrate, or comes to the
\* queue of the lock, keeps the invariant.
LEMMA RetryStepOK ==
    ASSUME MigrationInv, NEW p \in Services,
           \/ RetryStep(p, "connect", "postgres", "lock")
           \/ RetryStep(p, "ping", "redis", "running")
    PROVE  MigrationInv'
  <1>1. CASE Exit(p)
    BY <1>1, ExitOK
  <1>2. CASE ~Exit(p)
    <2>1. \/ pc[p] = "connect" /\ pc' = [pc EXCEPT ![p] = "lock"]
          \/ pc[p] = "ping" /\ pc' = [pc EXCEPT ![p] = "running"]
          \/ pc' = pc
      BY <1>2 DEF RetryStep, Go
    <2>2. UNCHANGED <<file, signalled, lock, applied, up>>
      BY <1>2 DEF RetryStep, Go
    <2>3. tries' \in [Services -> 0..MaxAttempts - 1]
      BY <1>2, LifecycleAssumption DEF RetryStep, Go, LastAttempt, MigrationInv, TypeOK
    <2>4. TypeOK'
      BY <2>1, <2>2, <2>3 DEF MigrationInv, TypeOK, Pc
    <2> QED
      BY <2>1, <2>2, <2>4 DEF MigrationInv, TypeOK, Migrating, RunsOnFullSchema
  <1> QED
    BY <1>1, <1>2

\* One step of one process.
LEMMA ProcessOK ==
    ASSUME MigrationInv, NEW p \in Services,
           Start(p) \/ Step(p) \/ TakeLock(p) \/ FileFails(p) \/ Signal(p) \/ Killed(p)
    PROVE  MigrationInv'
  <1>1. CASE Start(p)
    <2>1. TypeOK'
      BY <1>1, LifecycleAssumption DEF Start, Go, MigrationInv, TypeOK, Pc
    <2> QED
      BY <1>1, <2>1 DEF Start, Go, MigrationInv, TypeOK, Migrating, RunsOnFullSchema
  <1>2. CASE Connect(p) \/ PingBroker(p)
    BY <1>2, RetryStepOK DEF Connect, PingBroker
  <1>3. CASE TakeLock(p)
    <2>1. TypeOK'
      BY <1>3 DEF TakeLock, Go, MigrationInv, TypeOK, Pc
    <2>2. file[p] = 1 /\ file' = file
      BY <1>3 DEF TakeLock, MigrationInv
    <2>3. \A q \in Services : pc[q] \notin Migrating
      BY <1>3, LifecycleAssumption DEF TakeLock, MigrationInv
    <2>4. \A q \in Services : pc'[q] \in Migrating => q = p /\ lock' = p
      BY <1>3, <2>3 DEF TakeLock, Go, MigrationInv, TypeOK
    <2>5. 1..file'[p] - 1 \subseteq applied'
      BY <2>2
    <2> QED
      BY <1>3, <2>1, <2>2, <2>4, <2>5
      DEF TakeLock, Go, MigrationInv, TypeOK, Migrating, RunsOnFullSchema
  <1>4. CASE BeginFile(p)
    <2>1. TypeOK'
      BY <1>4 DEF BeginFile, Go, MigrationInv, TypeOK, Pc
    <2> QED
      BY <1>4, <2>1 DEF BeginFile, Go, MigrationInv, TypeOK, Migrating, RunsOnFullSchema
  <1>5. CASE EndFile(p)
    <2>1. file[p] \in 1..Files
      BY <1>5 DEF EndFile, MigrationInv, TypeOK
    <2>2. TypeOK'
      <3>1. file[p] + 1 \in 1..Files + 1
        BY <2>1, LifecycleAssumption
      <3>2. file' \in [Services -> 1..Files + 1]
        BY <1>5, <3>1 DEF EndFile, MigrationInv, TypeOK
      <3>3. applied' \subseteq 1..Files
        BY <1>5, <2>1 DEF EndFile, MigrationInv, TypeOK
      <3>4. pc' \in [Services -> Pc]
        BY <1>5 DEF EndFile, Go, MigrationInv, TypeOK, Pc
      <3> QED
        BY <1>5, <3>2, <3>3, <3>4 DEF EndFile, MigrationInv, TypeOK
    <2>3. \A q \in Services : pc'[q] \in Migrating => q = p /\ lock' = p
      BY <1>5 DEF EndFile, Go, MigrationInv, TypeOK, Migrating
    <2>4. 1..file'[p] - 1 \subseteq applied'
      BY <1>5, <2>1, LifecycleAssumption DEF EndFile, MigrationInv, TypeOK, Migrating
    <2>5. \A q \in Services \ {p} : file'[q] = file[q]
      BY <1>5 DEF EndFile, MigrationInv, TypeOK
    <2>6. RunsOnFullSchema'
      BY <1>5, <2>1 DEF EndFile, Go, MigrationInv, TypeOK, RunsOnFullSchema
    <2> QED
      BY <1>5, <2>2, <2>3, <2>4, <2>5, <2>6 DEF EndFile, Go, MigrationInv, TypeOK, Migrating
  <1>6. CASE Unlock(p)
    <2>1. TypeOK'
      BY <1>6 DEF Unlock, Go, MigrationInv, TypeOK, Pc
    <2>2. applied = 1..Files
      <3>1. file[p] = Files + 1 /\ 1..file[p] - 1 \subseteq applied
        BY <1>6, LifecycleAssumption DEF Unlock, MigrationInv, TypeOK, Migrating
      <3>2. \A i \in 1..Files : i \in 1..file[p] - 1
        BY <3>1, LifecycleAssumption
      <3>3. 1..Files \subseteq applied
        BY <3>1, <3>2
      <3>4. applied \subseteq 1..Files
        BY DEF MigrationInv, TypeOK
      <3> QED
        BY <3>3, <3>4
    <2>3. \A q \in Services : pc'[q] \notin Migrating
      BY <1>6 DEF Unlock, Go, MigrationInv, TypeOK, Migrating
    <2> QED
      BY <1>6, <2>1, <2>2, <2>3
      DEF Unlock, Go, MigrationInv, TypeOK, Migrating, RunsOnFullSchema
  <1>7. CASE StopListening(p)
    <2>1. TypeOK'
      BY <1>7 DEF StopListening, Go, MigrationInv, TypeOK, Pc
    <2> QED
      BY <1>7, <2>1 DEF StopListening, Go, MigrationInv, TypeOK, Migrating, RunsOnFullSchema
  <1>8. CASE Signal(p)
    <2>1. TypeOK'
      BY <1>8 DEF Signal, MigrationInv, TypeOK
    <2> QED
      BY <1>8, <2>1 DEF Signal, MigrationInv, Migrating, RunsOnFullSchema
  <1>9. CASE \/ MainReturns(p) \/ ConsumersReturn(p) \/ MigrateCancelled(p)
             \/ FileFails(p) \/ Killed(p)
    BY <1>9, ExitOK DEF MainReturns, ConsumersReturn, MigrateCancelled, FileFails, Killed
  <1> QED
    BY <1>1, <1>2, <1>3, <1>4, <1>5, <1>6, <1>7, <1>8, <1>9 DEF Step

\* An outage, or its end.
LEMMA DependencyOK ==
    ASSUME MigrationInv,
           PostgresStops \/ RedisStops \/ \E d \in {"postgres", "redis"} : Recovers(d)
    PROVE  MigrationInv'
  <1>1. CASE PostgresStops
    <2>1. TypeOK'
      BY <1>1 DEF PostgresStops, MigrationInv, TypeOK, Pc
    <2> QED
      BY <1>1, <2>1 DEF PostgresStops, MigrationInv, TypeOK, Migrating, RunsOnFullSchema
  <1>2. CASE RedisStops \/ \E d \in {"postgres", "redis"} : Recovers(d)
    <2>1. UNCHANGED <<procVars, lock, applied>> /\ up' \subseteq {"postgres", "redis"}
      BY <1>2 DEF RedisStops, Recovers, MigrationInv, TypeOK
    <2> QED
      BY <2>1 DEF procVars, MigrationInv, TypeOK, Migrating, RunsOnFullSchema
  <1> QED
    BY <1>1, <1>2

\* Migrate under its advisory lock keeps the invariant of the migration in every
\* execution, whoever is killed, cancelled or cut off from Postgres.
THEOREM MigrationInvariant == Spec => []MigrationInv
  <1>1. Init => MigrationInv
    BY MigrationInit
  <1>2. MigrationInv /\ [Next]_vars => MigrationInv'
    <2> SUFFICES ASSUME MigrationInv, [Next]_vars PROVE MigrationInv'
      OBVIOUS
    <2>1. CASE Next
      BY <2>1, ProcessOK, DependencyOK DEF Next
    <2>2. CASE UNCHANGED vars
      BY <2>2 DEF vars, procVars, MigrationInv, TypeOK, Migrating, RunsOnFullSchema
    <2> QED
      BY <2>1, <2>2
  <1> QED
    BY <1>1, <1>2, PTL DEF Spec

\* Two processes never execute migrations at the same time.
THEOREM OneCreatorCorrect == Spec => []OneCreator
  <1>1. MigrationInv => OneCreator
    BY DEF MigrationInv, OneCreator
  <1> QED
    BY <1>1, MigrationInvariant, PTL

\* A process serves or consumes only on the whole schema.
THEOREM FullSchemaCorrect == Spec => []RunsOnFullSchema
  <1>1. MigrationInv => RunsOnFullSchema
    BY DEF MigrationInv
  <1> QED
    BY <1>1, MigrationInvariant, PTL
============================================================================
