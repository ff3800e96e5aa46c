---------------------------- MODULE Transactions ----------------------------
(***************************************************************************)
(* The transactions of Submit, claim, persist and apply at the level of    *)
(* row locks and statements, as Postgres runs them under READ COMMITTED.   *)
(* The other modules treat each of them as one step; this one shows what   *)
(* that rests on.                                                          *)
(*                                                                         *)
(* A session is a client request or a worker goroutine with at most one    *)
(* open transaction.  SELECT ... FOR UPDATE and DELETE wait for the lock   *)
(* of the row they touch and keep it; a transaction's writes become        *)
(* visible, and its locks free, when it commits.  The last lock a          *)
(* transaction takes is taken in the step that commits it: from there on   *)
(* it waits for nobody.  submit locks the document and then, one by one,   *)
(* the tokens it deletes; apply locks the token and then the document.     *)
(*                                                                         *)
(* now() is the time at which the transaction began.  Delivery is left     *)
(* open: the jobs in the outbox stay there and any of them may be handled  *)
(* at any time, any number of times.                                       *)
(***************************************************************************)
EXTENDS StoreResults, Integers

CONSTANTS
    Clients,      \* requests that may be open at the same time
    Extractors,
    Classifiers,
    MaxRequests,  \* bound: requests sent in all
    MaxTime       \* bound: the clock stops here

ASSUME TransactionsAssumption ==
    /\ Clients \cap Extractors = {} /\ Clients \cap Classifiers = {}
    /\ Extractors \cap Classifiers = {}
    /\ \A d \in Docs : d \notin TokenId
    /\ MaxRequests \in Nat
    /\ MaxTime \in Nat

VARIABLES
    tx,        \* [Sessions -> what the session is doing]
    held,      \* [Sessions -> the row locks its transaction holds]
    requests,  \* requests sent so far
    clock,
    times      \* [Docs -> [Stamps -> the value of the column, if stamped]]

vars == <<storeVars, tx, held, requests, clock, times>>

Sessions == Clients \cup Extractors \cup Classifiers

\* A document row is named by its id and a token row by its natural key.
Locks == Docs \cup TokenId

NoDoc == "no document"
NoTokenId == "no token"

\* pc: "idle" and "extracting", "classifying" (between two transactions of a
\* worker) are outside a transaction.  The others name the statement that is
\* next: "select" and "insert", "delete" in Submit, "claim", "persist", and in
\* apply "token" and then "document".
OutsidePc == {"idle", "extracting", "classifying"}
TxPc == {"select", "insert", "delete", "claim", "persist", "token", "document"}

Session == [pc : OutsidePc \cup TxPc,
            now : Nat,
            doc : Docs \cup {NoDoc},
            text : Texts \cup {NoText},
            full : BOOLEAN,
            run_version : Nat,
            token : TokenId \cup {NoTokenId}]

Idle == [pc |-> "idle", now |-> 0, doc |-> NoDoc, text |-> NoText,
         full |-> FALSE, run_version |-> 0, token |-> NoTokenId]

TypeOK ==
    /\ StoreTypeOK
    /\ tx \in [Sessions -> Session]
    /\ held \in [Sessions -> SUBSET Locks]
    /\ \A s, r \in Sessions : s # r => held[s] \cap held[r] = {}
    /\ requests \in 0..MaxRequests
    /\ clock \in 0..MaxTime
    /\ times \in [Docs -> [Stamps -> 0..MaxTime]]

Init ==
    /\ StoreInit
    /\ tx = [s \in Sessions |-> Idle]
    /\ held = [s \in Sessions |-> {}]
    /\ requests = 0
    /\ clock = 0
    /\ times = [d \in Docs |-> [x \in Stamps |-> 0]]

----------------------------------------------------------------------------
(* Locks. *)

\* Mutant (no specification uses it): row locks that exclude nobody.
FreeAlways(s, lock) == TRUE

\* No other session holds the lock.
Free(s, lock) == \A r \in Sessions \ {s} : lock \notin held[r]

Acquire(s, lock) == held' = [held EXCEPT ![s] = @ \cup {lock}]

\* The lock the next statement of s asks for; the DELETE of a rerun asks for
\* its tokens in any order.
Wants(s) ==
    CASE tx[s].pc \in {"claim", "persist", "document"} -> {tx[s].doc}
      [] tx[s].pc = "select" -> IF Exists(tx[s].doc) THEN {tx[s].doc} ELSE {}
      [] tx[s].pc = "token" -> {tx[s].token}
      [] tx[s].pc = "delete" -> {IdOf(t) : t \in RowsOf(tx[s].doc)} \ held[s]
      [] OTHER -> {}

WaitsFor(s, r) == s # r /\ Wants(s) \cap held[r] # {}

\* Postgres' deadlock detector.  A session that waits while it holds a lock is
\* a rerun, which has the document and waits for one of its tokens, or an
\* apply, which has a token and waits for its document: a cycle has two sessions.
OnCycle(s) == \E r \in Sessions : WaitsFor(s, r) /\ WaitsFor(r, s)

\* The transaction is over, committed or rolled back.
EndTx(s, next) ==
    /\ held' = [held EXCEPT ![s] = {}]
    /\ tx' = [tx EXCEPT ![s] = next]

\* BEGIN, which fixes now().
BeginTx(s, session) ==
    /\ tx' = [tx EXCEPT ![s] = [session EXCEPT !.now = clock]]
    /\ UNCHANGED <<storeVars, held, clock, times>>

\* The columns in S get the value of now().
Stamp(s, d, S) ==
    times' = [times EXCEPT ![d] = [x \in Stamps |-> IF x \in S THEN tx[s].now ELSE @[x]]]

Enqueue(stream, jobs) ==
    /\ outbox' = EnqueueOutbox(outbox, stream, jobs)
    /\ UNCHANGED outboxSeq

EnqueueExtract(d, v) == Enqueue(StreamExtract, {[document_id |-> d, run_version |-> v]})

----------------------------------------------------------------------------
(* Submit. *)

BeginSubmit(s, d, text, full) ==
    /\ tx[s].pc = "idle"
    /\ requests < MaxRequests
    /\ requests' = requests + 1
    /\ BeginTx(s, [Idle EXCEPT !.pc = "select", !.doc = d, !.text = text, !.full = full])

\* GetDocumentForUpdate finds no row, so there is nothing to lock.
SelectNone(s) ==
    /\ tx[s].pc = "select"
    /\ ~Exists(tx[s].doc)
    /\ tx' = [tx EXCEPT ![s].pc = "insert"]
    /\ UNCHANGED <<storeVars, held, requests, clock, times>>

\* Another request may have inserted the row since: the INSERT violates the
\* primary key and Submit returns the error.
InsertConflict(s) ==
    /\ tx[s].pc = "insert"
    /\ Exists(tx[s].doc)
    /\ EndTx(s, Idle)
    /\ UNCHANGED <<storeVars, requests, clock, times>>

Insert(s) ==
    LET d == tx[s].doc IN
    /\ tx[s].pc = "insert"
    /\ ~Exists(d)
    /\ documents' = InsertDocument(documents, d, tx[s].text)
    /\ EnqueueExtract(d, 1)
    /\ EndTx(s, Idle)
    /\ UNCHANGED <<tokens, requests, clock, times>>

\* The row is there and its lock free.
SelectRow(s) == tx[s].pc = "select" /\ Exists(tx[s].doc) /\ Free(s, tx[s].doc)

\* Partial mode, all branches of the switch.
Resume(s) ==
    LET d == tx[s].doc IN
    /\ SelectRow(s) /\ ~tx[s].full
    /\ documents' = IF documents[d].status = "FAILED"
                    THEN SetDocumentPending(documents, d) ELSE documents
    /\ IF documents[d].status = "COMPLETED"
       THEN UNCHANGED <<outbox, outboxSeq>>
       ELSE EnqueueExtract(d, documents[d].run_version)
    /\ EndTx(s, Idle)
    /\ UNCHANGED <<tokens, requests, clock, times>>

LockForReset(s) ==
    /\ SelectRow(s) /\ tx[s].full
    /\ Acquire(s, tx[s].doc)
    /\ tx' = [tx EXCEPT ![s].pc = "delete"]
    /\ UNCHANGED <<storeVars, requests, clock, times>>

\* DELETE FROM tokens meets the next row.
DeleteRow(s, id) ==
    /\ tx[s].pc = "delete"
    /\ id \in Wants(s)
    /\ Free(s, id)
    /\ Acquire(s, id)
    /\ UNCHANGED <<storeVars, tx, requests, clock, times>>

\* Mutant: a DELETE that skips the rows others have locked.
AllLockedOrBusy(s) == \A id \in Wants(s) : ~Free(s, id)

AllLocked(s) == Wants(s) = {}

\* The DELETE is through; UPDATE, the outbox row and COMMIT follow.
Reset(s) ==
    LET d == tx[s].doc IN
    /\ tx[s].pc = "delete"
    /\ AllLocked(s)
    /\ tokens' = DeleteTokens(tokens, d)
    /\ documents' = ResetDocument(documents, d, tx[s].text)
    /\ EnqueueExtract(d, documents'[d].run_version)
    /\ EndTx(s, Idle)
    /\ UNCHANGED <<requests, clock, times>>

----------------------------------------------------------------------------
(* The extraction worker. *)

BeginClaim(s, row) ==
    /\ tx[s].pc = "idle"
    /\ row.stream = StreamExtract
    /\ BeginTx(s, [Idle EXCEPT !.pc = "claim", !.doc = row.payload.document_id])
    /\ UNCHANGED requests

Claim(s) ==
    LET d == tx[s].doc
        row == documents[d]
    IN  /\ tx[s].pc = "claim"
        /\ Free(s, d)
        /\ IF row.status = "PENDING"
           THEN documents' = SetExtractionStarted(documents, d)
                  /\ Stamp(s, d, {"extraction_started_at"})
           ELSE UNCHANGED <<documents, times>>
        /\ EndTx(s, IF row.status \in {"COMPLETED", "CLASSIFYING"} THEN Idle
                    ELSE [Idle EXCEPT !.pc = "extracting", !.doc = d, !.text = row.text,
                                      !.run_version = row.run_version])
        /\ UNCHANGED <<tokens, outbox, outboxSeq, requests, clock>>

BeginPersist(s) ==
    /\ tx[s].pc = "extracting"
    /\ BeginTx(s, [tx[s] EXCEPT !.pc = "persist"])
    /\ UNCHANGED requests

PersistStale(s) ==
    /\ tx[s].pc = "persist"
    /\ Free(s, tx[s].doc)
    /\ documents[tx[s].doc].run_version # tx[s].run_version
    /\ EndTx(s, Idle)
    /\ UNCHANGED <<storeVars, requests, clock, times>>

ClassifyJobs(d, v, toks) ==
    {[token_id |-> IdOf(t), document_id |-> d, run_version |-> v] :
        t \in {u \in TokensForRun(toks, d, v) : u.status # "CLASSIFIED"}}

Persist(s) ==
    LET d == tx[s].doc
        v == tx[s].run_version
        total == CountTokens(tokens', d, v)
    IN  /\ tx[s].pc = "persist"
        /\ Free(s, d)
        /\ documents[d].run_version = v
        /\ tokens' = UpsertTokens(tokens, d, v, Extract[tx[s].text])
        /\ documents' = IF total = 0 THEN MarkExtractionCompletedEmpty(documents, d)
                        ELSE AdvanceToClassifying(documents, d, total)
        /\ Stamp(s, d, {"extraction_completed_at", "classification_started_at"} \cup
                         (IF total = 0 THEN {"classification_completed_at"} ELSE {}))
        /\ Enqueue(StreamClassify, ClassifyJobs(d, v, tokens'))
        /\ EndTx(s, Idle)
        /\ UNCHANGED <<requests, clock>>

----------------------------------------------------------------------------
(* The classification worker. *)

\* GetToken finds the row PENDING; the LLM call follows.
LookUp(s, row) ==
    /\ tx[s].pc = "idle"
    /\ row.stream = StreamClassify
    /\ \E t \in tokens : IdOf(t) = row.payload.token_id /\ t.status = "PENDING"
    /\ tx' = [tx EXCEPT ![s] = [Idle EXCEPT !.pc = "classifying",
                                            !.doc = row.payload.document_id,
                                            !.run_version = row.payload.run_version,
                                            !.token = row.payload.token_id]]
    /\ UNCHANGED <<storeVars, held, requests, clock, times>>

BeginApply(s) ==
    /\ tx[s].pc = "classifying"
    /\ BeginTx(s, [tx[s] EXCEPT !.pc = "token"])
    /\ UNCHANGED requests

\* The token that GetTokenForUpdate reads is there, of the job's run, and not
\* classified.
TokenUsable(s) ==
    \E t \in tokens : /\ IdOf(t) = tx[s].token
                      /\ t.run_version = tx[s].run_version
                      /\ t.status # "CLASSIFIED"

LockToken(s) ==
    /\ tx[s].pc = "token"
    /\ Free(s, tx[s].token)
    /\ TokenUsable(s)
    /\ Acquire(s, tx[s].token)
    /\ tx' = [tx EXCEPT ![s].pc = "document"]
    /\ UNCHANGED <<storeVars, requests, clock, times>>

\* Mutant: the early return forgets its transaction.
DropResultKeepsTx(s) ==
    /\ tx[s].pc = "token"
    /\ Free(s, tx[s].token)
    /\ ~TokenUsable(s)
    /\ Acquire(s, tx[s].token)
    /\ tx' = [tx EXCEPT ![s] = Idle]
    /\ UNCHANGED <<storeVars, requests, clock, times>>

\* ErrNotFound, ErrStaleWrite or a token classified meanwhile.
DropResult(s) ==
    /\ tx[s].pc = "token"
    /\ Free(s, tx[s].token)
    /\ ~TokenUsable(s)
    /\ EndTx(s, Idle)
    /\ UNCHANGED <<storeVars, requests, clock, times>>

\* Mutant: completion one answer too early.
CompletesEarly(row) == row.classified_count + 1 >= row.total_tokens

\* The answer just counted was the last one.
Completes(row) == row.classified_count >= row.total_tokens

\* GetDocumentForUpdate, the fence on the document, and the writes.
Apply(s, category) ==
    LET d == tx[s].doc
        counted == IncrementClassifiedCount(documents, d)
        last == Completes(counted[d])
    IN  /\ tx[s].pc = "document"
        /\ Free(s, d)
        /\ IF documents[d].run_version # tx[s].run_version
           THEN UNCHANGED <<documents, tokens, times>>
           ELSE /\ tokens' = SetTokenClassified(tokens, tx[s].token, category)
                /\ documents' = IF last THEN MarkDocumentCompleted(counted, d) ELSE counted
                /\ Stamp(s, d, IF last THEN {"classification_completed_at"} ELSE {})
        /\ EndTx(s, Idle)
        /\ UNCHANGED <<outbox, outboxSeq, requests, clock>>

----------------------------------------------------------------------------
(* Failures and time. *)

\* Postgres aborts a transaction that is part of a deadlock: the request fails,
\* the job stays pending and comes back.
AbortDeadlocked(s) ==
    /\ OnCycle(s)
    /\ EndTx(s, Idle)
    /\ UNCHANGED <<storeVars, requests, clock, times>>

\* The connection, the extractor, the LLM or the process fails.
Fail(s) ==
    /\ tx[s].pc # "idle"
    /\ EndTx(s, Idle)
    /\ UNCHANGED <<storeVars, requests, clock, times>>

\* Time passes; no other step waits for it.
Tick ==
    /\ clock < MaxTime
    /\ clock' = clock + 1
    /\ UNCHANGED <<storeVars, tx, held, requests, times>>

\* The next statement of an open transaction.
Statement(s) ==
    \/ SelectNone(s) \/ InsertConflict(s) \/ Insert(s) \/ Resume(s)
    \/ LockForReset(s) \/ (\E id \in Wants(s) : DeleteRow(s, id)) \/ Reset(s)
    \/ Claim(s) \/ PersistStale(s) \/ Persist(s)
    \/ LockToken(s) \/ DropResult(s)
    \/ \E category \in Categories : Apply(s, category)

Next ==
    \/ \E s \in Clients, d \in Docs, text \in Texts, full \in BOOLEAN :
          BeginSubmit(s, d, text, full)
    \/ \E s \in Extractors : (\E row \in outbox : BeginClaim(s, row)) \/ BeginPersist(s)
    \/ \E s \in Classifiers : (\E row \in outbox : LookUp(s, row)) \/ BeginApply(s)
    \/ \E s \in Sessions : Statement(s) \/ AbortDeadlocked(s) \/ Fail(s)
    \/ Tick

Spec == Init /\ [][Next]_vars

----------------------------------------------------------------------------
(* Properties. *)

\* While apply holds its token, nobody can move the document to another run: a
\* rerun needs the lock of every token before it commits.  The second fence of
\* apply (classifier.go:105) guards against nothing the first does not; without
\* the DELETE it would be the only one.
TokenLockFencesRun ==
    \A s \in Classifiers : tx[s].pc = "document" =>
        documents[tx[s].doc].run_version = tx[s].run_version

\* Domain.Durations: 0 while a boundary is not stamped.
Duration(d, from, to) ==
    IF {from, to} \subseteq documents[d].stamped THEN times[d][to] - times[d][from] ELSE 0

ExtractionDuration(d) == Duration(d, "extraction_started_at", "extraction_completed_at")
ClassificationDuration(d) ==
    Duration(d, "classification_started_at", "classification_completed_at")

\* Of the durations of GET /status that of extraction is never negative, nor are the
\* two together, and both are zero until the extraction has completed, although begin
\* and end are now() of different transactions that may have waited for locks ("Stage
\* boundaries are set by the single transaction that performs the transition",
\* duration-tracking.md:36).  ClassificationDuration alone may be negative with two
\* extractors: a second persist of a run stamps the start of classification again.
DurationsAreHonest ==
    \A d \in Docs :
        /\ ExtractionDuration(d) >= 0
        /\ ExtractionDuration(d) + ClassificationDuration(d) >= 0
        /\ documents[d].status \in {"PENDING", "EXTRACTING"} =>
              ExtractionDuration(d) = 0 /\ ClassificationDuration(d) = 0

\* The transaction of s can take its next statement (a DELETE takes its rows in any
\* order), or Postgres aborts it.
CanGoOn(s) ==
    /\ tx[s].pc \in TxPc
    /\ \/ Wants(s) = {}
       \/ \E lock \in Wants(s) : Free(s, lock)
       \/ OnCycle(s)

\* Row locks never bring the system to a standstill: apply and a full rerun lock the
\* same rows in opposite orders, every early return of both workers gives its locks
\* back, and so whoever waits, waits for a transaction that can go on.  (That
\* Postgres then serves its waiters in turn is not modelled.)
NoStandstill ==
    \A s \in Sessions : tx[s].pc \in TxPc =>
        CanGoOn(s) \/ \E r \in Sessions : WaitsFor(s, r) /\ CanGoOn(r)
============================================================================
