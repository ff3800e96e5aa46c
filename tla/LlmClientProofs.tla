-------------------------- MODULE LlmClientProofs --------------------------
(***************************************************************************)
(* What Classify promises for every number of retries and every request    *)
(* timeout: LlmClient's four invariants.  The bound on the whole call needs *)
(* the time spent before the current wait, which doubles with each retry.  *)
(***************************************************************************)
EXTENDS LlmClient, FiniteSetTheorems, TLAPS

----------------------------------------------------------------------------
(* Powers of two.  The provers know nothing of ^; what is needed follows    *)
(* from counting the subsets of 1..n.                                       *)

\* 2^n counts the subsets of 1..n.
LEMMA PowerCounts ==
    ASSUME NEW n \in Nat
    PROVE  /\ IsFiniteSet(SUBSET (1..n))
           /\ Cardinality(SUBSET (1..n)) = 2 ^ n
           /\ 2 ^ n \in Nat
<1>1. IsFiniteSet(1..n) /\ Cardinality(1..n) = n
  BY FS_Interval
<1>2. IsFiniteSet(SUBSET (1..n)) /\ Cardinality(SUBSET (1..n)) = 2 ^ n
  BY <1>1, FS_SUBSET
<1> QED
  BY <1>2, FS_CardinalityType

\* Every pause of the loop is twice the one before.
LEMMA PowerDoubles ==
    ASSUME NEW n \in Nat
    PROVE  2 ^ (n + 1) = 2 * 2 ^ n
<1> DEFINE A == SUBSET (1..n)
           B == {T \in SUBSET (1..(n + 1)) : n + 1 \in T}
           f == [T \in A |-> T \cup {n + 1}]
<1>1. SUBSET (1..(n + 1)) = A \cup B /\ A \cap B = {}
  OBVIOUS
<1>2. IsFiniteSet(A) /\ Cardinality(A) = 2 ^ n /\ 2 ^ n \in Nat
  BY PowerCounts
<1>3. ExistsBijection(A, B)
  <2>1. f \in [A -> B]
    OBVIOUS
  <2>2. \A S, T \in A : f[S] = f[T] => S = T
    <3> SUFFICES ASSUME NEW S \in A, NEW T \in A, S \cup {n + 1} = T \cup {n + 1}
                 PROVE  S = T
      OBVIOUS
    <3>1. n + 1 \notin S /\ n + 1 \notin T
      OBVIOUS
    <3> HIDE DEF A
    <3> QED
      BY <3>1
  <2>3. \A T \in B : \E S \in A : f[S] = T
    <3> SUFFICES ASSUME NEW T \in B
                 PROVE  \E S \in A : f[S] = T
      OBVIOUS
    <3>1. T \ {n + 1} \in A
      OBVIOUS
    <3>2. (T \ {n + 1}) \cup {n + 1} = T
      OBVIOUS
    <3> QED
      BY <3>1, <3>2
  <2> HIDE DEF A, B, f
  <2>4. f \in Bijection(A, B)
    BY <2>1, <2>2, <2>3 DEF Bijection, Injection, Surjection, IsInjective
  <2> QED
    BY <2>4 DEF ExistsBijection
<1> HIDE DEF A, B
<1>4. IsFiniteSet(B) /\ Cardinality(B) = 2 ^ n
  BY <1>2, <1>3, FS_Bijection
<1>5. Cardinality(A \cup B) = Cardinality(A) + Cardinality(B) - Cardinality(A \cap B)
  BY <1>2, <1>4, FS_Union
<1>6. Cardinality(A \cap B) = 0
  BY <1>1, FS_EmptySet
<1>7. Cardinality(A \cup B) = 2 ^ (n + 1)
  BY <1>1, PowerCounts
<1> QED
  BY <1>2, <1>4, <1>5, <1>6, <1>7

\* A later power is no smaller.
LEMMA PowerGrows ==
    ASSUME NEW m \in Nat, NEW n \in Nat, m <= n
    PROVE  2 ^ m <= 2 ^ n
<1>1. SUBSET (1..m) \in SUBSET (SUBSET (1..n))
  OBVIOUS
<1>2. IsFiniteSet(SUBSET (1..n)) /\ Cardinality(SUBSET (1..n)) = 2 ^ n
  BY PowerCounts
<1>3. Cardinality(SUBSET (1..m)) = 2 ^ m
  BY PowerCounts
<1>4. Cardinality(SUBSET (1..m)) <= Cardinality(SUBSET (1..n))
  BY <1>1, <1>2, FS_Subset
<1> QED
  BY <1>2, <1>3, <1>4

----------------------------------------------------------------------------
(* The time spent. *)

\* The longest that the requests and pauses before attempt n take together.
Spent(n) == n * Timeout + 2 ^ n - 1

\* It grows by a timeout and a pause per attempt.
LEMMA SpentGrows ==
    /\ Spent(0) = 0
    /\ \A n \in Nat : Spent(n) \in Int
    /\ \A n \in Nat \ {0} : /\ Backoff(n) \in Nat \ {0}
                            /\ Spent(n) = Spent(n - 1) + Timeout + Backoff(n)
    /\ \A m, n \in Nat : m <= n => Spent(m) <= Spent(n)
<1> USE LlmAssumption
<1>1. Spent(0) = 0
  <2>1. 2 ^ 0 = 1
    OBVIOUS
  <2> QED
    BY <2>1 DEF Spent
<1>2. \A n \in Nat : Spent(n) \in Int
  BY PowerCounts DEF Spent
<1>3. ASSUME NEW n \in Nat \ {0}
      PROVE  Backoff(n) \in Nat \ {0} /\ Spent(n) = Spent(n - 1) + Timeout + Backoff(n)
  <2>1. n - 1 \in Nat /\ (n - 1) + 1 = n
    OBVIOUS
  <2>2. 2 ^ (n - 1) \in Nat /\ 2 ^ (n - 1) >= 1
    <3> DEFINE m == n - 1
    <3>3. m \in Nat /\ 0 \in Nat /\ 0 <= m
      BY <2>1
    <3> HIDE DEF m
    <3>4. 2 ^ 0 <= 2 ^ m
      BY <3>3, PowerGrows
    <3>1. 2 ^ 0 <= 2 ^ (n - 1) /\ 2 ^ (n - 1) \in Nat
      BY <3>3, <3>4, PowerCounts DEF m
    <3>2. 2 ^ 0 = 1
      OBVIOUS
    <3> QED
      BY <3>1, <3>2
  <2>3. 2 ^ ((n - 1) + 1) = 2 * 2 ^ (n - 1)
    BY <2>1, PowerDoubles
  <2>4. 2 ^ n = 2 * 2 ^ (n - 1)
    BY <2>1, <2>3
  <2>5. n * Timeout = (n - 1) * Timeout + Timeout
    OBVIOUS
  <2>6. n * Timeout \in Nat /\ (n - 1) * Timeout \in Nat
    BY <2>1
  <2> QED
    BY <2>2, <2>4, <2>5, <2>6 DEF Spent, Backoff
<1>4. ASSUME NEW m \in Nat, NEW n \in Nat, m <= n
      PROVE  Spent(m) <= Spent(n)
  <2>1. 2 ^ m <= 2 ^ n /\ 2 ^ m \in Nat /\ 2 ^ n \in Nat
    BY <1>4, PowerGrows, PowerCounts
  <2>2. m * Timeout <= n * Timeout
    BY <1>4
  <2>3. m * Timeout \in Nat /\ n * Timeout \in Nat
    OBVIOUS
  <2> QED
    BY <2>1, <2>2, <2>3 DEF Spent
<1> QED
  BY <1>1, <1>2, <1>3, <1>4

----------------------------------------------------------------------------
(* The inductive invariant. *)

\* What Classify can have returned.
ResultOK ==
    IF result.error = "none"
    THEN result.category \in ValidCategories /\ result.confidence \in 0..100
    ELSE result.category = "none"

\* The attempts before this one account for all but the current wait, and that wait
\* is no longer than the timeout or the pause; after the return only the sum is left.
TimeOK ==
    /\ pc = "request" => wait <= Timeout /\ elapsed <= Spent(attempt) + wait
    /\ pc = "backoff" => /\ attempt # 0
                         /\ wait <= Backoff(attempt)
                         /\ elapsed <= Spent(attempt - 1) + Timeout + wait
    /\ pc = "returned" => elapsed <= Spent(MaxRetries) + Timeout

\* Once the context is done no time passes.  So the pause after a request that was
\* not sent has its timer still to run, and only the done context can end it.
CancelOK ==
    /\ cancelled => elapsed = cancelAt
    /\ unsent \in {0, 1}
    /\ unsent = 1 => cancelled /\ (pc = "backoff" => wait = 0)

ClientInv == TypeOK /\ ResultOK /\ TimeOK /\ CancelOK

\* A call starts at time zero, with nothing returned.
LEMMA ClientInit == Init => ClientInv
<1> SUFFICES ASSUME Init
             PROVE  ClientInv
  OBVIOUS
<1>1. TypeOK
  <2>1. cancelAt \in Nat \cup {NotCancelled}
    BY DEF Init
  <2>2. attempt = 0 /\ wait = 0 /\ elapsed = 0 /\ pc = "request"
    BY DEF Init
  <2>3. attempt \in 0..MaxRetries
    BY <2>2, LlmAssumption
  <2>4. wait \in Nat /\ elapsed \in Nat
    BY <2>2
  <2> QED
    BY <2>1, <2>2, <2>3, <2>4 DEF TypeOK, Init
<1>4. CancelOK
  <2>1. ~cancelled /\ unsent = 0
    BY DEF Init, cancelled
  <2> QED
    BY <2>1 DEF CancelOK
<1>2. ResultOK
  BY DEF Init, ResultOK, Failed
<1>3. TimeOK
  <2>1. pc = "request" /\ wait = 0 /\ elapsed = 0 /\ attempt = 0
    BY DEF Init
  <2>2. Spent(attempt) = 0
    BY <2>1, SpentGrows
  <2> QED
    BY <2>1, <2>2, LlmAssumption DEF TimeOK
<1> QED
  BY <1>1, <1>2, <1>3, <1>4 DEF ClientInv

\* Every answer is one the pipeline can use, and every failure has no category.
LEMMA ReturnOK ==
    /\ \A answer \in Answers : Return(Normalise(answer)) => ResultOK'
    /\ \A why \in {"decode", "status", "exhausted", "cancelled"} :
          Return(Failed(why)) => ResultOK'
<1>1. ASSUME NEW answer \in Answers, Return(Normalise(answer))
      PROVE  ResultOK'
  <2>1. answer.confidence \in Int
    <3>1. answer.confidence \in {-50, 0, 50, 100, 150}
      BY DEF Answers
    <3> QED
      BY <3>1
  <2>2. /\ result'.error = "none"
        /\ result'.category \in ValidCategories
        /\ result'.confidence = IF answer.confidence < 0 THEN 0
                                ELSE IF answer.confidence > 100 THEN 100 ELSE answer.confidence
    BY <1>1 DEF Return, Normalise, ValidCategories
  <2>3. result'.confidence \in 0..100
    BY <2>1, <2>2
  <2> QED
    BY <2>2, <2>3 DEF ResultOK
<1>2. ASSUME NEW why \in {"decode", "status", "exhausted", "cancelled"}, Return(Failed(why))
      PROVE  ResultOK'
  BY <1>2 DEF Return, Failed, ResultOK
<1> QED
  BY <1>1, <1>2

\* Whatever ends a request, the time so far is within the bound on the call.
LEMMA RequestInBound ==
    ASSUME TypeOK, TimeOK, pc \in {"request", "backoff"}
    PROVE  elapsed <= Spent(MaxRetries) + Timeout
<1> USE LlmAssumption
<1>1. attempt \in Nat /\ attempt <= MaxRetries /\ elapsed \in Nat /\ wait \in Nat
  BY DEF TypeOK
<1>2. Spent(attempt) <= Spent(MaxRetries) /\ Spent(attempt) \in Int /\ Spent(MaxRetries) \in Int
  BY <1>1, SpentGrows
<1>3. CASE pc = "request"
  BY <1>1, <1>2, <1>3 DEF TimeOK
<1>4. CASE pc = "backoff"
  <2>1. attempt \in Nat \ {0} /\ wait <= Backoff(attempt)
          /\ elapsed <= Spent(attempt - 1) + Timeout + wait
    BY <1>1, <1>4 DEF TimeOK
  <2>2. /\ Spent(attempt) = Spent(attempt - 1) + Timeout + Backoff(attempt)
        /\ Spent(attempt - 1) \in Int /\ Backoff(attempt) \in Nat
    BY <2>1, SpentGrows
  <2> QED
    BY <1>1, <1>2, <2>1, <2>2
<1> QED
  BY <1>3, <1>4

\* Returning keeps the invariant: what is returned is usable and the time is bounded.
LEMMA ReturnKeeps ==
    ASSUME ClientInv, pc \in {"request", "backoff"}, pc' = "returned", ResultOK',
           attempt' \in 0..MaxRetries, wait' \in Nat, UNCHANGED <<elapsed, cancelAt, unsent>>
    PROVE  ClientInv'
<1>1. elapsed <= Spent(MaxRetries) + Timeout
  BY RequestInBound DEF ClientInv
<1> QED
  BY <1>1 DEF ClientInv, TypeOK, TimeOK, CancelOK, cancelled

\* The request ends in an answer, readable or not.
LEMMA AnsweredKeeps ==
    ASSUME ClientInv, (\E answer \in Answers : Answered(answer)) \/ AnsweredGarbage
    PROVE  ClientInv'
<1>1. ResultOK' /\ pc' = "returned"
  BY ReturnOK DEF Answered, AnsweredGarbage, Return
<1>2. /\ pc = "request" /\ wait' = 0
      /\ UNCHANGED <<attempt, elapsed, cancelAt, unsent>>
  BY DEF Answered, AnsweredGarbage, Ended
<1>3. attempt' \in 0..MaxRetries
  BY <1>2 DEF ClientInv, TypeOK
<1> QED
  BY <1>1, <1>2, <1>3, ReturnKeeps

\* The request ends in a failure: retried, given up or fatal.
LEMMA RefusedKeeps ==
    ASSUME ClientInv, NEW outcome \in Outcome \ {"200"}, Refused(outcome)
    PROVE  ClientInv'
<1> USE LlmAssumption
<1>1. /\ pc = "request" /\ wait' = 0
      /\ UNCHANGED <<elapsed, cancelAt, unsent>>
  BY DEF Refused, Ended
<1>2. attempt \in 0..MaxRetries /\ elapsed \in Nat /\ wait \in Nat
  BY DEF ClientInv, TypeOK
<1>3. CASE ~Retryable(outcome) \/ ~RetriesLeft
  <2>1. attempt' = attempt /\ (Return(Failed("status")) \/ Return(Failed("exhausted")))
    BY <1>3 DEF Refused
  <2>2. ResultOK' /\ pc' = "returned"
    BY <2>1, ReturnOK DEF Return
  <2> QED
    BY <1>1, <1>2, <2>1, <2>2, ReturnKeeps
<1>4. CASE Retryable(outcome) /\ RetriesLeft
  <2>1. Retry
    BY <1>4 DEF Refused
  <2>2. attempt' = attempt + 1 /\ attempt' \in 0..MaxRetries
    BY <1>2, <1>4, <2>1 DEF Retry, RetriesLeft
  <2>3. pc' = "backoff" /\ result' = result
    BY <2>1 DEF Retry
  <2>4. wait <= Timeout /\ elapsed <= Spent(attempt) + wait
    BY <1>1 DEF ClientInv, TimeOK
  <2>5. attempt' - 1 = attempt /\ attempt' \in Nat \ {0}
    BY <1>2, <2>2
  <2>6. Spent(attempt) \in Int /\ Backoff(attempt') \in Nat \ {0}
    BY <1>2, <2>5, SpentGrows
  <2>7. TimeOK'
    <3>1. wait' <= Backoff(attempt')
      BY <1>1, <2>6
    <3>2. elapsed' <= Spent(attempt' - 1) + Timeout + wait'
      <4>1. Spent(attempt' - 1) = Spent(attempt)
        BY <2>5
      <4> QED
        BY <1>1, <1>2, <2>4, <2>6, <4>1
    <3> QED
      BY <2>3, <2>5, <3>1, <3>2 DEF TimeOK, Spent, Backoff
  <2> QED
    BY <1>1, <1>2, <2>2, <2>3, <2>7 DEF ClientInv, TypeOK, ResultOK, CancelOK, cancelled
<1> QED
  BY <1>3, <1>4

\* The pause ends and the next attempt starts with all of it accounted for, or the
\* context ends it.
LEMMA BackoffKeeps ==
    ASSUME ClientInv, BackoffOver \/ BackoffCancelled
    PROVE  ClientInv'
<1> USE LlmAssumption
<1>1. attempt \in 0..MaxRetries /\ elapsed \in Nat /\ wait \in Nat /\ attempt' = attempt
        /\ pc = "backoff" /\ UNCHANGED <<elapsed, cancelAt>>
  BY DEF ClientInv, TypeOK, BackoffOver, BackoffCancelled, Woken, Awaited, Happened
<1>2. CASE BackoffOver
  <2>1. /\ attempt \in Nat \ {0}
        /\ wait = Backoff(attempt)
        /\ elapsed <= Spent(attempt - 1) + Timeout + wait
    BY <1>1, <1>2 DEF ClientInv, TimeOK, BackoffOver, Woken, Happened
  <2>2. Spent(attempt) = Spent(attempt - 1) + Timeout + Backoff(attempt)
          /\ Spent(attempt) \in Int /\ Backoff(attempt) \in Nat \ {0}
    BY <2>1, SpentGrows
  <2>3. pc' = "request" /\ wait' = 0 /\ result' = result
    BY <1>2 DEF BackoffOver
  <2>4. elapsed' <= Spent(attempt') + wait'
    BY <1>1, <2>1, <2>2, <2>3
  <2>5. TimeOK'
    BY <2>3, <2>4 DEF TimeOK, Spent
  <2>6. CancelOK'
    <3>1. unsent = 0
      BY <2>1, <2>2, <1>1 DEF ClientInv, CancelOK
    <3>2. unsent' = IF cancelled THEN 1 ELSE 0
      BY <1>2, <3>1 DEF BackoffOver
    <3> QED
      BY <1>1, <2>3, <3>2 DEF ClientInv, CancelOK, cancelled
  <2>7. unsent' \in Nat
    BY <2>6 DEF CancelOK
  <2> QED
    BY <1>1, <2>3, <2>5, <2>6, <2>7 DEF ClientInv, TypeOK, ResultOK
<1>3. CASE BackoffCancelled
  <2>1. ResultOK' /\ pc' = "returned" /\ wait' = wait /\ unsent' = unsent
    BY <1>3, ReturnOK DEF BackoffCancelled, Return
  <2> QED
    BY <1>1, <2>1, ReturnKeeps
<1> QED
  BY <1>2, <1>3

\* Time passes only before the cancellation and only up to the end of the wait.
LEMMA TickKeeps ==
    ASSUME ClientInv, Tick
    PROVE  ClientInv'
<1> USE LlmAssumption
<1>1. /\ attempt \in 0..MaxRetries /\ elapsed \in Nat /\ wait \in Nat
      /\ UNCHANGED <<pc, attempt, cancelAt, unsent, result>>
      /\ wait' = wait + 1 /\ elapsed' = elapsed + 1
      /\ pc # "returned"
  BY DEF ClientInv, TypeOK, Tick
<1>2. ~cancelled
  <2>1. pc \in {"request", "backoff"}
    BY <1>1 DEF ClientInv, TypeOK
  <2>2. "done" \in Awaited
    BY <2>1 DEF Awaited
  <2>3. "done" \notin Happened
    BY <2>2 DEF Tick, Woken
  <2> QED
    BY <2>3 DEF Happened
<1>5. CancelOK' /\ ~cancelled'
  BY <1>1, <1>2 DEF ClientInv, CancelOK, cancelled
<1>3. CASE pc = "request"
  <2>0. wait <= Timeout /\ elapsed <= Spent(attempt) + wait
    BY <1>3 DEF ClientInv, TimeOK
  <2>1. wait < Timeout
    <3>1. "timeout" \notin Happened
      BY <1>3 DEF Tick, Woken, Awaited
    <3>2. wait # Timeout
      BY <1>3, <3>1 DEF Happened
    <3> QED
      BY <1>1, <2>0, <3>2
  <2>2. Spent(attempt) \in Int
    BY <1>1, SpentGrows
  <2>3. wait' <= Timeout /\ elapsed' <= Spent(attempt) + wait'
    BY <1>1, <2>0, <2>1, <2>2
  <2>4. TimeOK'
    BY <1>1, <1>3, <2>3 DEF TimeOK, Spent
  <2> QED
    BY <1>1, <1>5, <2>4 DEF ClientInv, TypeOK, ResultOK
<1>4. CASE pc = "backoff"
  <2>1. /\ attempt \in Nat \ {0} /\ wait <= Backoff(attempt)
        /\ elapsed <= Spent(attempt - 1) + Timeout + wait
    BY <1>1, <1>4 DEF ClientInv, TimeOK
  <2>2. Spent(attempt - 1) \in Int /\ Backoff(attempt) \in Nat
    BY <2>1, SpentGrows
  <2>5. wait # Backoff(attempt)
    <3>1. "timer" \notin Happened
      BY <1>4 DEF Tick, Woken, Awaited
    <3> QED
      BY <1>4, <3>1 DEF Happened
  <2>3. wait' <= Backoff(attempt) /\ elapsed' <= Spent(attempt - 1) + Timeout + wait'
    BY <1>1, <2>1, <2>2, <2>5
  <2>4. TimeOK'
    BY <1>1, <1>4, <2>1, <2>3 DEF TimeOK, Spent, Backoff
  <2> QED
    BY <1>1, <1>5, <2>4 DEF ClientInv, TypeOK, ResultOK
<1> QED
  BY <1>1, <1>3, <1>4 DEF ClientInv, TypeOK

\* The invariant is inductive.
LEMMA ClientStep == ClientInv /\ [Next]_vars => ClientInv'
<1> SUFFICES ASSUME ClientInv, [Next]_vars
             PROVE  ClientInv'
  OBVIOUS
<1>1. CASE Cancel
  BY <1>1 DEF Cancel, ClientInv, TypeOK, ResultOK, TimeOK, Spent, Backoff, CancelOK, cancelled
<1>2. CASE UNCHANGED vars
  BY <1>2 DEF vars, ClientInv, TypeOK, ResultOK, TimeOK, Spent, Backoff, CancelOK, cancelled
<1> QED
  BY <1>1, <1>2, AnsweredKeeps, RefusedKeeps, BackoffKeeps, TickKeeps DEF Next, Step

----------------------------------------------------------------------------
(* The theorems. *)

LEMMA ClientInvariant == Spec => []ClientInv
  BY ClientInit, ClientStep, PTL DEF Spec

\* Type correctness: in particular the loop of doWithRetry never starts an attempt
\* past MaxRetries.
THEOREM ClientTypeCorrect == Spec => []TypeOK
<1>1. ClientInv => TypeOK
  BY DEF ClientInv
<1> QED
  BY <1>1, ClientInvariant, PTL

\* Whatever the model server answers, Classify returns a category of the pipeline
\* with a confidence in range, or an error and no category.
THEOREM AnswersAreUsable == Spec => []AnswerIsUsable
<1>1. ClientInv => AnswerIsUsable
  BY DEF ClientInv, ResultOK, AnswerIsUsable
<1> QED
  BY <1>1, ClientInvariant, PTL

\* A call of Classify is over after MaxRetries + 1 timeouts and the doubling pauses
\* between them, for every number of retries and every timeout.
THEOREM CallsAreBounded == Spec => []CallIsBounded
<1>1. ClientInv => CallIsBounded
  <2> SUFFICES ASSUME ClientInv
               PROVE  CallIsBounded
    OBVIOUS
  <2>1. elapsed <= Spent(MaxRetries) + Timeout
    BY RequestInBound DEF ClientInv, TypeOK, TimeOK
  <2>2. (MaxRetries + 1) * Timeout = MaxRetries * Timeout + Timeout
          /\ MaxRetries * Timeout \in Nat
    BY LlmAssumption
  <2>3. 2 ^ MaxRetries \in Nat
    BY PowerCounts, LlmAssumption
  <2>4. elapsed \in Nat
    BY DEF ClientInv, TypeOK
  <2> QED
    BY <2>1, <2>2, <2>3, <2>4, LlmAssumption DEF Spent, CallIsBounded
<1> QED
  BY <1>1, ClientInvariant, PTL

\* After its context is done, Classify begins at most one more request, which is not
\* sent, and waits for neither a response nor a pause, however many retries it has
\* left: every statement it can be in awaits the context, and a timer that has just
\* been set has not fired.
THEOREM CancellationIsPrompt == Spec => []CancellationEndsCall
<1>1. ClientInv => CancellationEndsCall
  BY DEF ClientInv, CancelOK, CancellationEndsCall
<1> QED
  BY <1>1, ClientInvariant, PTL
============================================================================
