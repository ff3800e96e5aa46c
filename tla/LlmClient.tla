----------------------------- MODULE LlmClient -----------------------------
(***************************************************************************)
(* One call of OllamaClassifier.Classify (internal/llm/ollama.go): the     *)
(* retry loop with its backoff, what counts as transient, cancellation     *)
(* through the context, and how the model's answer becomes a               *)
(* classification.  The model server is external: it may answer anything,  *)
(* late or not at all.                                                     *)
(*                                                                         *)
(* The unit of time is the first backoff (250 ms).                         *)
(***************************************************************************)
EXTENDS Integers

CONSTANTS
    MaxRetries,   \* how often a transient failure is retried
    Timeout       \* the longest that one HTTP request takes

ASSUME LlmAssumption == MaxRetries \in Nat /\ Timeout \in Nat \ {0}

VARIABLES
    pc,         \* "request" in do, "backoff" before a retry, "returned"
    attempt,    \* the loop variable
    wait,       \* time spent in this request or backoff
    elapsed,    \* time since Classify was called
    cancelAt,   \* when the context was cancelled, NotCancelled before that
    unsent,     \* requests begun after that, which net/http refuses to send
    result      \* what Classify returned

vars == <<pc, attempt, wait, elapsed, cancelAt, unsent, result>>

\* How a request ends: an error of do (connect, time out, read), a status the loop
\* retries (429, 5xx), one it does not (other 4xx), or 200.
Transient == {"error", "429", "5xx"}
Outcome == Transient \cup {"4xx", "200"}

ValidCategories == {"COMPANY", "PERSON", "ADDRESS", "DATE", "UNKNOWN"}

\* A 200 body that decodes: a category in some spelling, a confidence in percent.
Answers == [category   : ValidCategories \cup {"ORGANIZATION"},
            spelling   : {"exact", "lower case", "padded"},
            confidence : {-50, 0, 50, 100, 150}]

NotCancelled == -1
cancelled == cancelAt # NotCancelled

Failed(why) == [category |-> "none", confidence |-> 0, error |-> why]

Init ==
    /\ pc = "request"
    /\ attempt = 0
    /\ wait = 0 /\ elapsed = 0
    /\ cancelAt = NotCancelled
    /\ unsent = 0
    /\ result = Failed("not returned")

----------------------------------------------------------------------------
(* Mutants (no specification uses them). *)

\* One retry more than configured.
RetriesLeftOneMore == attempt <= MaxRetries

\* The category and the confidence as the model wrote them.
NormaliseUnchecked(answer) ==
    [category |-> answer.category, confidence |-> answer.confidence, error |-> "none"]

\* The pause of the attempt after this one.
BackoffLonger(n) == 2 ^ n

\* time.Sleep in place of the select.
AwaitedAsleep == IF pc = "request" THEN {"timeout", "done"} ELSE {"timer"}

\* The done context starts the pause again.
BackoffCancelledAgain ==
    /\ pc = "backoff"
    /\ cancelled
    /\ wait' = 0
    /\ UNCHANGED <<pc, attempt, elapsed, cancelAt, unsent, result>>

----------------------------------------------------------------------------

RetriesLeft == attempt < MaxRetries

Retryable(outcome) == outcome \in Transient

\* The pause before attempt n.
Backoff(n) == 2 ^ (n - 1)

\* The events that end the statement Classify is in, besides an answer: Do has the
\* timeout of the http.Client and the context of NewRequestWithContext, the select
\* has time.After and ctx.Done.
Awaited == CASE pc = "request"  -> {"timeout", "done"}
             [] pc = "backoff"  -> {"timer", "done"}
             [] pc = "returned" -> {}

\* The events that have happened.
Happened ==
    {event \in {"timeout", "timer", "done"} :
        CASE event = "timeout" -> pc = "request" /\ wait = Timeout
          [] event = "timer"   -> pc = "backoff" /\ wait = Backoff(attempt)
          [] event = "done"    -> cancelled}

Woken == Awaited \cap Happened

\* ToUpper, TrimSpace and Valid, whatever the spelling, and the clamped confidence.
Normalise(answer) ==
    [category   |-> IF answer.category \in ValidCategories THEN answer.category ELSE "UNKNOWN",
     confidence |-> IF answer.confidence < 0 THEN 0
                    ELSE IF answer.confidence > 100 THEN 100 ELSE answer.confidence,
     error      |-> "none"]

Return(r) == pc' = "returned" /\ result' = r

\* The request is over; the next wait starts at zero.
Ended ==
    /\ pc = "request"
    /\ wait' = 0
    /\ UNCHANGED <<elapsed, cancelAt, unsent>>

\* The server has the request.
Sent == unsent = 0

\* 200: the answer decodes, or does not.
Answered(answer) ==
    /\ Ended
    /\ Sent
    /\ Return(Normalise(answer))
    /\ UNCHANGED attempt

AnsweredGarbage ==
    /\ Ended
    /\ Sent
    /\ Return(Failed("decode"))
    /\ UNCHANGED attempt

\* The next turn of the loop, whatever the error was: also that of a done context.
Retry == attempt' = attempt + 1 /\ pc' = "backoff" /\ UNCHANGED result

\* An error or another status: retry, give up, or fail fast.  A request that timed
\* out, or whose context is done, ends in an error.
Refused(outcome) ==
    /\ Ended
    /\ outcome = "error" \/ Sent
    /\ CASE ~Retryable(outcome) -> Return(Failed("status")) /\ UNCHANGED attempt
         [] Retryable(outcome) /\ RetriesLeft -> Retry
         [] Retryable(outcome) /\ ~RetriesLeft -> Return(Failed("exhausted")) /\ UNCHANGED attempt

\* select: the timer has fired, or the context is done; if both, select takes either.
BackoffOver ==
    /\ "timer" \in Woken
    /\ pc' = "request"
    /\ wait' = 0
    /\ unsent' = IF cancelled THEN unsent + 1 ELSE unsent
    /\ UNCHANGED <<attempt, elapsed, cancelAt, result>>

BackoffCancelled ==
    /\ pc = "backoff"
    /\ "done" \in Woken
    /\ Return(Failed("cancelled"))
    /\ UNCHANGED <<attempt, wait, elapsed, cancelAt, unsent>>

\* The worker is told to stop.
Cancel ==
    /\ pc # "returned"
    /\ ~cancelled
    /\ cancelAt' = elapsed
    /\ UNCHANGED <<pc, attempt, wait, elapsed, unsent, result>>

\* Time passes while Classify waits and nothing it waits for has happened.
Tick ==
    /\ pc # "returned"
    /\ Woken = {}
    /\ wait' = wait + 1
    /\ elapsed' = elapsed + 1
    /\ UNCHANGED <<pc, attempt, cancelAt, unsent, result>>

Step ==
    \/ \E answer \in Answers : Answered(answer)
    \/ AnsweredGarbage
    \/ \E outcome \in Outcome \ {"200"} : Refused(outcome)
    \/ BackoffOver
    \/ BackoffCancelled

Next == Step \/ Cancel \/ Tick

Spec == Init /\ [][Next]_vars

\* Time passes, a request ends at the latest with its timeout, and timers fire.
FairSpec == Spec /\ WF_vars(Step) /\ WF_vars(Tick)

----------------------------------------------------------------------------
(* Properties. *)

TypeOK ==
    /\ pc \in {"request", "backoff", "returned"}
    /\ attempt \in 0..MaxRetries
    /\ wait \in Nat /\ elapsed \in Nat
    /\ cancelAt \in Nat \cup {NotCancelled}
    /\ unsent \in Nat

\* Classify succeeds only with a category the pipeline knows and a confidence
\* between 0 and 1, whatever the model wrote; otherwise it fails, and never with
\* half an answer.
AnswerIsUsable ==
    pc = "returned" =>
        IF result.error = "none"
        THEN result.category \in ValidCategories /\ result.confidence \in 0..100
        ELSE result.category = "none"

\* The worst case of doWithRetry: MaxRetries + 1 timeouts and the doubling
\* backoffs, 2^MaxRetries - 1 units together.  With the values of the code (4
\* retries, 30 s) that is 153.75 s, five times CLAIM_MIN_IDLE.
CallIsBounded == elapsed <= (MaxRetries + 1) * Timeout + 2 ^ MaxRetries - 1

\* A worker that is told to stop gives the remaining attempts up, although the loop
\* retries the error of a done context like any other and never asks for it: at
\* most one more request is begun, when timer and cancellation come together and
\* select takes the timer, and no request or pause is waited out.
CancellationEndsCall ==
    /\ unsent <= 1
    /\ cancelled => elapsed = cancelAt

\* Classify returns, cancelled or not.
Returns == <>(pc = "returned")
============================================================================
