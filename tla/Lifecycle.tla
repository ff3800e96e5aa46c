----------------------------- MODULE Lifecycle -----------------------------
(***************************************************************************)
(* A service process from its start to its end: main of cmd/api,           *)
(* cmd/extractor and cmd/classifier, the helpers of internal/app, and      *)
(* store.Migrate, which every process runs against the same database.      *)
(* Between start and end a worker consumes and the api serves requests.    *)
(***************************************************************************)
EXTENDS Integers, FiniteSets

CONSTANTS
    Services,     \* the processes
    Apis,         \* ... of them, those that run cmd/api
    Files,        \* the number of migration files
    MaxAttempts   \* attempts of retry

NoOne == "no one"

ASSUME LifecycleAssumption ==
    /\ Apis \subseteq Services /\ NoOne \notin Services
    /\ Files \in Nat /\ MaxAttempts \in Nat \ {0}

VARIABLES
    pc,         \* where each process is
    tries,      \* failed attempts of its current retry loop
    file,       \* the migration file it is at
    signalled,  \* SIGTERM cancelled its context
    lock,       \* the process whose session holds migrateLockKey, or NoOne
    applied,    \* the migration files that are applied
    up          \* "postgres" and "redis", as far as they are up

procVars == <<pc, tries, file, signalled>>
vars == <<procVars, lock, applied, up>>

\* "connect": retry store.New; "lock": wait for the advisory lock; "migrate":
\* between two files; "creating": in a file; "ping": retry Redis; "running";
\* "stopping": an api whose ListenAndServe has returned; "exited".
Pc == {"connect", "lock", "migrate", "creating", "ping", "running", "stopping", "exited"}

TypeOK ==
    /\ pc \in [Services -> Pc]
    /\ tries \in [Services -> 0..MaxAttempts - 1]
    /\ file \in [Services -> 1..Files + 1]
    /\ signalled \in [Services -> BOOLEAN]
    /\ lock \in Services \cup {NoOne}
    /\ applied \subseteq 1..Files
    /\ up \subseteq {"postgres", "redis"}

Init ==
    /\ pc = [p \in Services |-> "exited"]
    /\ tries = [p \in Services |-> 0]
    /\ file = [p \in Services |-> 1]
    /\ signalled = [p \in Services |-> FALSE]
    /\ lock = NoOne
    /\ applied = {}
    /\ up = {"postgres", "redis"}

Go(p, where) == pc' = [pc EXCEPT ![p] = where]

\* The process of p ends, for whatever reason: its sessions end, and the advisory
\* lock with them.
Exit(p) ==
    /\ Go(p, "exited")
    /\ lock' = IF lock = p THEN NoOne ELSE lock
    /\ UNCHANGED <<tries, file, signalled, applied, up>>

----------------------------------------------------------------------------
(* Mutants (no specification uses them). *)

\* No advisory lock.
TakeLockShared(p) ==
    /\ pc[p] = "lock"
    /\ lock' = p
    /\ Go(p, "migrate")
    /\ UNCHANGED <<tries, file, signalled, applied, up>>

\* A file that fails is logged and skipped.
FileFailsSkipped(p) ==
    /\ pc[p] = "creating"
    /\ file' = [file EXCEPT ![p] = @ + 1]
    /\ Go(p, "migrate")
    /\ UNCHANGED <<tries, signalled, lock, applied, up>>

\* No deferred unlock.
UnlockForgotten(p) ==
    /\ pc[p] = "migrate"
    /\ file[p] > Files
    /\ Go(p, "ping")
    /\ UNCHANGED <<tries, file, signalled, lock, applied, up>>

\* A loop without a bound on the attempts that does not look at the context.
RetryStepForever(p, at, d, next) ==
    /\ pc[p] = at
    /\ d \in up
    /\ Go(p, next)
    /\ UNCHANGED <<tries, file, signalled, lock, applied, up>>

\* Waiting for the lock with a context that is never cancelled.
MigrateCancelledNotWaiting(p) ==
    /\ signalled[p]
    /\ \/ pc[p] = "creating"
       \/ pc[p] = "migrate" /\ file[p] <= Files
    /\ Exit(p)

\* A retry loop that goes one attempt further.
LastAttemptLate(p) == tries[p] = MaxAttempts

----------------------------------------------------------------------------
(* Start-up. *)

\* The orchestrator starts the process: config.Load, SignalContext.
Start(p) ==
    /\ pc[p] = "exited"
    /\ Go(p, "connect")
    /\ tries' = [tries EXCEPT ![p] = 0]
    /\ file' = [file EXCEPT ![p] = 1]
    /\ signalled' = [signalled EXCEPT ![p] = FALSE]
    /\ UNCHANGED <<lock, applied, up>>

LastAttempt(p) == tries[p] = MaxAttempts - 1

\* retry: an attempt at dependency d while p is at `at'; success leads to `next'.
\* A failed attempt is followed by the delay, the last one too, and the context
\* ends the delay.
RetryStep(p, at, d, next) ==
    /\ pc[p] = at
    /\ IF d \in up /\ ~signalled[p]
       THEN /\ Go(p, next)
            /\ tries' = [tries EXCEPT ![p] = 0]
            /\ UNCHANGED <<file, signalled, lock, applied, up>>
       ELSE IF signalled[p] \/ LastAttempt(p)
       THEN Exit(p)
       ELSE /\ tries' = [tries EXCEPT ![p] = @ + 1]
            /\ UNCHANGED <<pc, file, signalled, lock, applied, up>>

\* NewStore: connect and ping; NewBroker: ping.
Connect(p) == RetryStep(p, "connect", "postgres", "lock")
PingBroker(p) == RetryStep(p, "ping", "redis", "running")

\* pg_advisory_lock.
TakeLock(p) ==
    /\ pc[p] = "lock"
    /\ ~signalled[p]
    /\ lock = NoOne
    /\ lock' = p
    /\ Go(p, "migrate")
    /\ UNCHANGED <<tries, file, signalled, applied, up>>

BeginFile(p) ==
    /\ pc[p] = "migrate"
    /\ ~signalled[p]
    /\ file[p] <= Files
    /\ Go(p, "creating")
    /\ UNCHANGED <<tries, file, signalled, lock, applied, up>>

EndFile(p) ==
    /\ pc[p] = "creating"
    /\ ~signalled[p]
    /\ applied' = applied \cup {file[p]}
    /\ file' = [file EXCEPT ![p] = @ + 1]
    /\ Go(p, "migrate")
    /\ UNCHANGED <<tries, signalled, lock, up>>

\* A file fails: Migrate returns the error and main exits.
FileFails(p) ==
    /\ pc[p] = "creating"
    /\ Exit(p)

\* The deferred unlock uses the context of the process: once that is cancelled it
\* is not sent, and the session goes back to the pool with the lock.
Unlock(p) ==
    /\ pc[p] = "migrate"
    /\ file[p] > Files
    /\ lock' = IF signalled[p] THEN lock ELSE NoOne
    /\ Go(p, "ping")
    /\ UNCHANGED <<tries, file, signalled, applied, up>>

----------------------------------------------------------------------------
(* Running and shutdown. *)

\* The goroutine at ctx.Done calls srv.Shutdown, and with that call ListenAndServe
\* returns in main.
StopListening(p) ==
    /\ p \in Apis /\ pc[p] = "running" /\ signalled[p]
    /\ Go(p, "stopping")
    /\ UNCHANGED <<tries, file, signalled, lock, applied, up>>

\* main returns.  It waits for no handler: the goroutine may still be in Shutdown.
MainReturns(p) ==
    /\ pc[p] = "stopping"
    /\ Exit(p)

\* A worker's Consume loops return when the context is done.
ConsumersReturn(p) ==
    /\ p \notin Apis /\ pc[p] = "running" /\ signalled[p]
    /\ Exit(p)

\* The context is cancelled while Migrate waits or is at a file: the statement
\* fails, Migrate returns the error, main exits.
MigrateCancelled(p) ==
    /\ signalled[p]
    /\ \/ pc[p] \in {"lock", "creating"}
       \/ pc[p] = "migrate" /\ file[p] <= Files
    /\ Exit(p)

Signal(p) ==
    /\ pc[p] # "exited" /\ ~signalled[p]
    /\ signalled' = [signalled EXCEPT ![p] = TRUE]
    /\ UNCHANGED <<pc, tries, file, lock, applied, up>>

\* The process is killed, a worker's Consume fails (errgroup ends the others and
\* main exits), or the server fails.
Killed(p) == pc[p] # "exited" /\ Exit(p)

\* Postgres goes away with its sessions: a Migrate that was at work fails.
PostgresStops ==
    /\ "postgres" \in up
    /\ up' = up \ {"postgres"}
    /\ lock' = NoOne
    /\ pc' = [p \in Services |-> IF pc[p] \in {"lock", "migrate", "creating"}
                                 THEN "exited" ELSE pc[p]]
    /\ UNCHANGED <<tries, file, signalled, applied>>

RedisStops ==
    /\ "redis" \in up
    /\ up' = up \ {"redis"}
    /\ UNCHANGED <<procVars, lock, applied>>

Recovers(d) ==
    /\ d \in {"postgres", "redis"} \ up
    /\ up' = up \cup {d}
    /\ UNCHANGED <<procVars, lock, applied>>

Step(p) ==
    \/ Connect(p) \/ BeginFile(p) \/ EndFile(p) \/ Unlock(p) \/ PingBroker(p)
    \/ StopListening(p) \/ MainReturns(p) \/ ConsumersReturn(p) \/ MigrateCancelled(p)

Next ==
    \/ \E p \in Services :
          Start(p) \/ Step(p) \/ TakeLock(p) \/ FileFails(p) \/ Signal(p) \/ Killed(p)
    \/ PostgresStops
    \/ RedisStops
    \/ \E d \in {"postgres", "redis"} : Recovers(d)

Spec == Init /\ [][Next]_vars

\* A process goes on, and Postgres serves the waiters of a lock in turn.
FairSpec ==
    /\ Spec
    /\ \A p \in Services : WF_vars(Step(p)) /\ SF_vars(TakeLock(p))

----------------------------------------------------------------------------
(* Properties. *)

Migrating == {"migrate", "creating"}

\* No two processes execute migrations at the same time, whoever is killed or
\* told to stop (Migrate: "the lock makes exactly one service create the schema
\* while the others wait and then no-op").
OneCreator ==
    \A p, q \in Services :
        pc[p] \in Migrating /\ pc[q] \in Migrating => p = q

\* A process that serves or consumes finds the whole schema, also when others
\* failed half-way before it.
RunsOnFullSchema ==
    \A p \in Services : pc[p] \in {"ping", "running", "stopping"} => applied = 1..Files

\* What the two rest on: who migrates holds the lock, and has applied all the
\* files before the one it is at.
MigrationInv ==
    /\ TypeOK
    /\ \A p \in Services : pc[p] \in Migrating => lock = p
    /\ \A p \in Services : pc[p] \in {"connect", "lock"} => file[p] = 1
    /\ \A p \in Services : pc[p] \in Migrating => 1..file[p] - 1 \subseteq applied
    /\ \A p \in Services : pc[p] = "creating" => file[p] <= Files
    /\ RunsOnFullSchema

\* The lock is given back: an unlock that the cancelled context suppressed is made
\* up for by the end of the process, so no restart waits forever.
LockIsReleased ==
    \A p \in Services : lock = p ~> lock # p

\* A process that starts comes up or exits, also while Postgres and Redis come
\* and go and other processes hold the lock.
ComesUpOrExits ==
    \A p \in Services : pc[p] = "connect" ~> pc[p] \in {"running", "exited"}

\* A process that is told to stop does so, wherever the signal finds it: in a
\* retry loop, in the queue for the lock, in a migration, or at work.
StopsWhenTold ==
    \A p \in Services : signalled[p] ~> pc[p] = "exited"
============================================================================
