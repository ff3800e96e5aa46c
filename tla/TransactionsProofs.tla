------------------------- MODULE TransactionsProofs -------------------------
(***************************************************************************)
(* Proofs about the transactions as Postgres interleaves them, statement   *)
(* by statement, and about the api on top: for any number of clients,      *)
(* workers and documents.  What a transaction does to the tables comes     *)
(* from StoreProofs; here it is shown that the row locks make it one step. *)
(***************************************************************************)
EXTENDS DocumentApi, StoreProofs, SequenceTheorems

----------------------------------------------------------------------------
(* The invariant. *)

\* A request knows its document and text.
SubmitOK(x) == x.pc \in {"select", "insert", "delete"} => x.doc \in Docs /\ x.text \in Texts

\* Jobs are about documents that exist, and rows of documents are never deleted.
ClaimOK(x) == x.pc = "claim" => x.doc \in Docs /\ Exists(x.doc)

\* The snapshot of an extractor is not of a future run; one of the current run holds
\* the current text.
SnapshotOK(x) ==
    x.pc \in {"extracting", "persist"} =>
        /\ x.doc \in Docs /\ Exists(x.doc)
        /\ x.run_version <= documents[x.doc].run_version
        /\ x.run_version = documents[x.doc].run_version => x.text = documents[x.doc].text

\* A classifier's token is of the document and of the run of its job.  Once it has
\* locked the token, the row is there and not answered until it commits.
ApplyOK(x, locks) ==
    /\ x.pc \in {"classifying", "token", "document"} =>
          x.doc \in Docs /\ x.token \in TokenId /\ x.token[1] = x.doc /\ x.token[2] = x.run_version
    /\ x.pc = "document" =>
          x.token \in locks /\ \E t \in tokens : IdOf(t) = x.token /\ t.status # "CLASSIFIED"

\* A rerun that deletes has its document and some of its tokens, an apply that goes on
\* to the document has its token and nothing else.
HeldOK(x, locks) ==
    /\ x.pc = "delete" =>
          /\ x.doc \in locks
          /\ \A lock \in locks : lock = x.doc \/ (lock \in TokenId /\ lock[1] = x.doc)
    /\ x.pc = "document" => locks = {x.token}

\* Only those two hold locks between two statements.
SessionOK(x, locks) ==
    /\ x \in Session /\ x.now <= clock
    /\ x.pc \notin {"delete", "document"} => locks = {}
    /\ HeldOK(x, locks)
    /\ SubmitOK(x) /\ ClaimOK(x) /\ SnapshotOK(x) /\ ApplyOK(x, locks)

\* A job names a document that exists; a classify job names its token's run.
JobOK(row) ==
    /\ Exists(row.payload.document_id)
    /\ row.stream = StreamClassify =>
          /\ row.payload.token_id[1] = row.payload.document_id
          /\ row.payload.token_id[2] = row.payload.run_version

OutboxOK == outbox \subseteq OutboxRow /\ \A row \in outbox : JobOK(row)

TimesType == [Docs -> [Stamps -> 0..MaxTime]]

TxInv ==
    /\ DatabaseInv /\ OutboxOK /\ outboxSeq \in Nat
    /\ tx \in [Sessions -> Session] /\ held \in [Sessions -> SUBSET Locks]
    /\ \A s \in Sessions : SessionOK(tx[s], held[s])
    /\ \A s, r \in Sessions : s # r => held[s] \cap held[r] = {}
    /\ requests \in 0..MaxRequests /\ clock \in 0..MaxTime /\ times \in TimesType

----------------------------------------------------------------------------
(* What a step of one session may do to the others. *)

\* Runs go up, and the text of a run stays.
Grows ==
    \A d \in Docs : Exists(d) =>
        /\ Exists(d)'
        /\ documents[d].run_version <= documents'[d].run_version
        /\ documents'[d].run_version = documents[d].run_version
             => documents'[d].text = documents[d].text

\* Only token rows that the session has locked are written.
KeepsRows(s) == \A t \in tokens : t \in tokens' \/ IdOf(t) \in held[s]

\* A session that takes no step stays in order: the run of its snapshot only gets older,
\* and the token it has locked stays as it was.
LEMMA SessionFrame ==
    ASSUME NEW x, NEW locks, SessionOK(x, locks), Grows, clock \in Nat, clock' \in Nat,
           clock <= clock', documents \in [Docs -> Document], documents' \in [Docs -> Document],
           \A t \in tokens : t \in tokens' \/ IdOf(t) \notin locks
    PROVE  SessionOK(x, locks)'
  <1>1. x.now \in Nat /\ x.run_version \in Nat
    BY DEF SessionOK, Session
  <1>2. ClaimOK(x)'
    BY DEF SessionOK, ClaimOK, Grows
  <1>3. SnapshotOK(x)'
    BY <1>1 DEF SessionOK, SnapshotOK, Grows, Document
  <1>4. ApplyOK(x, locks)'
    BY DEF SessionOK, ApplyOK
  <1> QED
    BY <1>1, <1>2, <1>3, <1>4 DEF SessionOK, SubmitOK, HeldOK

\* One session steps: the invariant holds again if it holds of the tables and of that
\* session.
LEMMA StepKeeps ==
    ASSUME TxInv, NEW s \in Sessions, NEW next, NEW locks \in SUBSET Locks,
           tx' = [tx EXCEPT ![s] = next], held' = [held EXCEPT ![s] = locks],
           \A r \in Sessions \ {s} : locks \cap held[r] = {},
           DatabaseInv', OutboxOK', outboxSeq' = outboxSeq,
           requests' \in 0..MaxRequests, clock' = clock, times' \in TimesType,
           Grows, KeepsRows(s), SessionOK(next, locks)'
    PROVE  TxInv'
  <1>1. next \in Session
    BY DEF SessionOK
  <1>2. tx' \in [Sessions -> Session] /\ held' \in [Sessions -> SUBSET Locks]
    BY <1>1 DEF TxInv
  <1>3. tx'[s] = next /\ held'[s] = locks
    BY DEF TxInv
  <1>4. \A r \in Sessions \ {s} : tx'[r] = tx[r] /\ held'[r] = held[r]
    BY DEF TxInv
  <1>5. \A r, q \in Sessions : r # q => held'[r] \cap held'[q] = {}
    BY <1>3, <1>4 DEF TxInv
  <1>6. ASSUME NEW r \in Sessions
        PROVE  SessionOK(tx[r], held[r])'
    <2>1. CASE r = s
      BY <1>3, <2>1
    <2>2. CASE r # s
      <3>1. PICK x, l : x = tx[r] /\ l = held[r]
        OBVIOUS
      <3>2. SessionOK(x, l) /\ l \cap held[s] = {}
        BY <2>2, <3>1 DEF TxInv
      <3>3. \A t \in tokens : t \in tokens' \/ IdOf(t) \notin l
        BY <3>2 DEF KeepsRows
      <3>4. clock \in Nat /\ documents \in [Docs -> Document] /\ documents' \in [Docs -> Document]
        BY DEF TxInv, DatabaseInv
      <3>5. SessionOK(x, l)'
        BY <3>2, <3>3, <3>4, SessionFrame
      <3> QED
        BY <1>4, <2>2, <3>1, <3>5
    <2> QED
      BY <2>1, <2>2
  <1> QED
    BY <1>2, <1>5, <1>6 DEF TxInv

----------------------------------------------------------------------------
(* Steps that write no table. *)

\* What every step is to be shown to do: it keeps the invariant, and to a reader of the
\* results it is a step of DocumentResults or none.
StepOK == TxInv' /\ (Results!Next \/ Mapped' = Mapped)

\* With the tables as they are, nothing but the session itself matters.
LEMMA QuietStep ==
    ASSUME TxInv, NEW s \in Sessions, NEW next, NEW locks \in SUBSET Locks,
           tx' = [tx EXCEPT ![s] = next], held' = [held EXCEPT ![s] = locks],
           \A r \in Sessions \ {s} : locks \cap held[r] = {},
           UNCHANGED <<storeVars, clock, times>>, requests' \in 0..MaxRequests,
           SessionOK(next, locks)
    PROVE  StepOK
  <1>1. UNCHANGED <<documents, tokens, outbox, outboxSeq, clock, times>>
    BY DEF storeVars
  <1>2. DatabaseInv' /\ OutboxOK'
    BY <1>1 DEF TxInv, DatabaseInv, KeysOK, RowsOK, RowOK, OneRun, FoundOK, CountsOK, RowsOf,
                ClassifiedRows, Exists, OutboxOK, JobOK
  <1>3. Grows /\ KeepsRows(s)
    BY <1>1 DEF TxInv, DatabaseInv, Document, Grows, KeepsRows, Exists
  <1>4. SessionOK(next, locks)'
    BY <1>1 DEF SessionOK, HeldOK, SubmitOK, ClaimOK, SnapshotOK, ApplyOK, Exists
  <1>5. TxInv'
    BY <1>1, <1>2, <1>3, <1>4, StepKeeps DEF TxInv
  <1>6. Mapped' = Mapped
    BY <1>1, StatusOnly
  <1> QED
    BY <1>5, <1>6 DEF StepOK

\* A session at rest is in order.
LEMMA IdleOK ==
    /\ clock \in Nat => SessionOK(Idle, {})
    /\ clock' \in Nat => SessionOK(Idle, {})'
  BY DEF SessionOK, HeldOK, SubmitOK, ClaimOK, SnapshotOK, ApplyOK, Idle, Session, OutsidePc, TxPc

\* A rollback: InsertConflict, PersistStale, DropResult, AbortDeadlocked and Fail.
LEMMA RollbackOK ==
    ASSUME TxInv, NEW s \in Sessions, EndTx(s, Idle),
           UNCHANGED <<storeVars, requests, clock, times>>
    PROVE  StepOK
  <1>1. SessionOK(Idle, {})
    BY IdleOK DEF TxInv
  <1>2. UNCHANGED <<storeVars, clock, times>> /\ requests' \in 0..MaxRequests
    BY DEF TxInv
  <1>3. {} \in SUBSET Locks /\ \A r \in Sessions \ {s} : {} \cap held[r] = {}
    OBVIOUS
  <1> QED
    BY <1>1, <1>2, <1>3, QuietStep DEF EndTx

\* What a step that leaves held alone needs.
LEMMA SameLocks ==
    ASSUME TxInv, NEW s \in Sessions
    PROVE  /\ held[s] \in SUBSET Locks /\ held = [held EXCEPT ![s] = held[s]]
           /\ \A r \in Sessions \ {s} : held[s] \cap held[r] = {}
           /\ tx[s] \in Session /\ SessionOK(tx[s], held[s])
  BY DEF TxInv

\* A session between two transactions holds no lock and begins the next one.
LEMMA BeginOK ==
    ASSUME TxInv, NEW s \in Sessions, tx[s].pc \in OutsidePc,
           NEW next, tx' = [tx EXCEPT ![s] = next], UNCHANGED <<storeVars, held, clock, times>>,
           requests' \in 0..MaxRequests, SessionOK(next, {})
    PROVE  StepOK
  <1>1. held[s] = {}
    BY DEF TxInv, SessionOK, OutsidePc
  <1>2. held' = [held EXCEPT ![s] = {}]
    BY <1>1, SameLocks
  <1>3. {} \in SUBSET Locks /\ \A r \in Sessions \ {s} : {} \cap held[r] = {}
    OBVIOUS
  <1>4. UNCHANGED <<storeVars, clock, times>>
    OBVIOUS
  <1> QED
    BY <1>2, <1>3, <1>4, QuietStep

LEMMA BeginSubmitOK ==
    ASSUME TxInv, NEW s \in Sessions, NEW d \in Docs, NEW text \in Texts, NEW full \in BOOLEAN,
           BeginSubmit(s, d, text, full)
    PROVE  StepOK
  <1>1. PICK next : next = [[Idle EXCEPT !.pc = "select", !.doc = d, !.text = text, !.full = full]
                              EXCEPT !.now = clock]
    OBVIOUS
  <1>2. clock \in Nat /\ requests' \in 0..MaxRequests
    BY TransactionsAssumption DEF TxInv, BeginSubmit
  <1>3. SessionOK(next, {})
    <2>1. next = [pc |-> "select", now |-> clock, doc |-> d, text |-> text, full |-> full,
                  run_version |-> 0, token |-> NoTokenId]
      BY <1>1 DEF Idle
    <2> QED
      BY <1>2, <2>1 DEF SessionOK, HeldOK, SubmitOK, ClaimOK, SnapshotOK, ApplyOK, Session, TxPc
  <1>4. tx' = [tx EXCEPT ![s] = next] /\ UNCHANGED <<storeVars, held, clock, times>>
    BY <1>1 DEF BeginSubmit, BeginTx
  <1>5. tx[s].pc \in OutsidePc
    BY DEF BeginSubmit, OutsidePc
  <1> QED
    BY <1>2, <1>3, <1>4, <1>5, BeginOK

LEMMA BeginClaimOK ==
    ASSUME TxInv, NEW s \in Sessions, NEW row \in outbox, BeginClaim(s, row)
    PROVE  StepOK
  <1>1. PICK next : next = [[Idle EXCEPT !.pc = "claim", !.doc = row.payload.document_id]
                              EXCEPT !.now = clock]
    OBVIOUS
  <1>2. clock \in Nat /\ requests' \in 0..MaxRequests
    BY DEF TxInv, BeginClaim
  <1>3. row.payload.document_id \in Docs /\ Exists(row.payload.document_id)
    BY DEF TxInv, OutboxOK, JobOK, OutboxRow, ExtractJob, ClassifyJob
  <1>4. SessionOK(next, {})
    <2>1. next = [pc |-> "claim", now |-> clock, doc |-> row.payload.document_id,
                  text |-> NoText, full |-> FALSE, run_version |-> 0, token |-> NoTokenId]
      BY <1>1 DEF Idle
    <2> QED
      BY <1>2, <1>3, <2>1 DEF SessionOK, HeldOK, SubmitOK, ClaimOK, SnapshotOK, ApplyOK, Session, TxPc
  <1>5. tx' = [tx EXCEPT ![s] = next] /\ UNCHANGED <<storeVars, held, clock, times>>
    BY <1>1 DEF BeginClaim, BeginTx
  <1>6. tx[s].pc \in OutsidePc
    BY DEF BeginClaim, OutsidePc
  <1> QED
    BY <1>2, <1>4, <1>5, <1>6, BeginOK

LEMMA LookUpOK ==
    ASSUME TxInv, NEW s \in Sessions, NEW row \in outbox, LookUp(s, row)
    PROVE  StepOK
  <1>1. PICK next : next = [Idle EXCEPT !.pc = "classifying",
                                        !.doc = row.payload.document_id,
                                        !.run_version = row.payload.run_version,
                                        !.token = row.payload.token_id]
    OBVIOUS
  <1>2. clock \in Nat /\ requests' \in 0..MaxRequests
    BY DEF TxInv, LookUp
  <1>3. /\ row.payload \in ClassifyJob
        /\ row.payload.token_id[1] = row.payload.document_id
        /\ row.payload.token_id[2] = row.payload.run_version
    BY DEF TxInv, OutboxOK, JobOK, OutboxRow, LookUp, StreamExtract, StreamClassify
  <1>4. SessionOK(next, {})
    <2>1. next = [pc |-> "classifying", now |-> 0, doc |-> row.payload.document_id,
                  text |-> NoText, full |-> FALSE, run_version |-> row.payload.run_version,
                  token |-> row.payload.token_id]
      BY <1>1 DEF Idle
    <2> QED
      BY <1>2, <1>3, <2>1 DEF SessionOK, HeldOK, SubmitOK, ClaimOK, SnapshotOK, ApplyOK, Session,
                              OutsidePc, ClassifyJob
  <1>5. tx' = [tx EXCEPT ![s] = next] /\ UNCHANGED <<storeVars, held, clock, times>>
    BY <1>1 DEF LookUp
  <1>6. tx[s].pc \in OutsidePc
    BY DEF LookUp, OutsidePc
  <1> QED
    BY <1>2, <1>4, <1>5, <1>6, BeginOK

\* The second transaction of a worker goes on from its first.
LEMMA SecondOK ==
    ASSUME TxInv, NEW s \in Sessions, BeginPersist(s) \/ BeginApply(s)
    PROVE  StepOK
  <1>1. PICK pc : /\ \/ pc = "persist" /\ tx[s].pc = "extracting"
                     \/ pc = "token" /\ tx[s].pc = "classifying"
                  /\ BeginTx(s, [tx[s] EXCEPT !.pc = pc])
    BY DEF BeginPersist, BeginApply
  <1>a. PICK next : next = [[tx[s] EXCEPT !.pc = pc] EXCEPT !.now = clock]
    OBVIOUS
  <1>2. clock \in Nat /\ requests' \in 0..MaxRequests
    BY DEF TxInv, BeginPersist, BeginApply
  <1>3. SessionOK(next, {})
    <2>1. tx[s] \in Session /\ SessionOK(tx[s], held[s])
      BY SameLocks
    <2>2. /\ next.pc = pc /\ next.now = clock /\ next.doc = tx[s].doc /\ next.text = tx[s].text
          /\ next.run_version = tx[s].run_version /\ next.token = tx[s].token
          /\ next \in Session
      BY <1>1, <1>2, <1>a, <2>1 DEF Session, TxPc
    <2> QED
      BY <1>1, <1>2, <2>1, <2>2 DEF SessionOK, HeldOK, SubmitOK, ClaimOK, SnapshotOK, ApplyOK
  <1>4. /\ tx' = [tx EXCEPT ![s] = next] /\ tx[s].pc \in OutsidePc
        /\ UNCHANGED <<storeVars, held, clock, times>>
    BY <1>1, <1>a DEF BeginTx, OutsidePc
  <1> QED
    BY <1>2, <1>3, <1>4, BeginOK

----------------------------------------------------------------------------
(* Statements that lock. *)

\* The next statement of the session, its other fields as they were.
LEMMA NextPc ==
    ASSUME TxInv, NEW s \in Sessions, NEW pc \in OutsidePc \cup TxPc,
           NEW next, next = [tx[s] EXCEPT !.pc = pc]
    PROVE  /\ next \in Session /\ next.pc = pc /\ next.now = tx[s].now /\ next.doc = tx[s].doc
           /\ next.text = tx[s].text /\ next.run_version = tx[s].run_version
           /\ next.token = tx[s].token
  BY SameLocks DEF Session

LEMMA SelectNoneOK ==
    ASSUME TxInv, NEW s \in Sessions, SelectNone(s)
    PROVE  StepOK
  <1>1. PICK next : next = [tx[s] EXCEPT !.pc = "insert"]
    OBVIOUS
  <1>2. tx' = [tx EXCEPT ![s] = next]
    BY <1>1, SameLocks DEF SelectNone, TxInv
  <1>3. SessionOK(next, held[s])
    <2>1. "insert" \in OutsidePc \cup TxPc
      BY DEF TxPc
    <2>2. SessionOK(tx[s], held[s]) /\ tx[s].pc = "select"
      BY SameLocks DEF SelectNone
    <2> QED
      BY <1>1, <2>1, <2>2, NextPc DEF SessionOK, HeldOK, SubmitOK, ClaimOK, SnapshotOK, ApplyOK
  <1>4. /\ UNCHANGED <<storeVars, clock, times>> /\ requests' \in 0..MaxRequests
        /\ held' = [held EXCEPT ![s] = held[s]]
    BY SameLocks DEF SelectNone, TxInv
  <1> QED
    BY <1>2, <1>3, <1>4, SameLocks, QuietStep

\* A lock nobody else holds is added to the session's.
LEMMA AcquireOK ==
    ASSUME TxInv, NEW s \in Sessions, NEW lock \in Locks, Free(s, lock), Acquire(s, lock),
           NEW next, tx' = [tx EXCEPT ![s] = next], SessionOK(next, held[s] \cup {lock}),
           UNCHANGED <<storeVars, requests, clock, times>>
    PROVE  StepOK
  <1>1. PICK locks : locks = held[s] \cup {lock}
    OBVIOUS
  <1>2. held' = [held EXCEPT ![s] = locks]
    BY <1>1 DEF Acquire, TxInv
  <1>3. locks \in SUBSET Locks /\ \A r \in Sessions \ {s} : locks \cap held[r] = {}
    BY <1>1, SameLocks DEF Free
  <1>4. UNCHANGED <<storeVars, clock, times>> /\ requests' \in 0..MaxRequests
    BY DEF TxInv
  <1>5. SessionOK(next, locks)
    BY <1>1
  <1> QED
    BY <1>2, <1>3, <1>4, <1>5, QuietStep

LEMMA LockForResetOK ==
    ASSUME TxInv, NEW s \in Sessions, LockForReset(s)
    PROVE  StepOK
  <1>1. PICK next : next = [tx[s] EXCEPT !.pc = "delete"]
    OBVIOUS
  <1>2. PICK d : d = tx[s].doc
    OBVIOUS
  <1>3. tx' = [tx EXCEPT ![s] = next]
    BY <1>1, SameLocks DEF LockForReset, TxInv
  <1>4. SessionOK(tx[s], held[s]) /\ tx[s].pc = "select" /\ d \in Docs
    BY <1>2, SameLocks DEF LockForReset, SelectRow, SessionOK, SubmitOK
  <1>5. SessionOK(next, held[s] \cup {d})
    <2>1. "delete" \in OutsidePc \cup TxPc
      BY DEF TxPc
    <2> QED
      BY <1>1, <1>2, <1>4, <2>1, NextPc DEF SessionOK, HeldOK, SubmitOK, ClaimOK, SnapshotOK, ApplyOK
  <1>6. /\ d \in Locks /\ Free(s, d) /\ Acquire(s, d)
        /\ UNCHANGED <<storeVars, requests, clock, times>>
    BY <1>2, <1>4 DEF LockForReset, SelectRow, Locks
  <1> QED
    BY <1>3, <1>5, <1>6, AcquireOK

LEMMA DeleteRowOK ==
    ASSUME TxInv, NEW s \in Sessions, NEW id, DeleteRow(s, id)
    PROVE  StepOK
  <1>1. SessionOK(tx[s], held[s]) /\ tx[s].pc = "delete" /\ tx = [tx EXCEPT ![s] = tx[s]]
    BY SameLocks DEF DeleteRow, TxInv
  <1>2. id \in {IdOf(t) : t \in RowsOf(tx[s].doc)}
    BY <1>1 DEF DeleteRow, Wants
  <1>3. id \in Locks /\ id \in TokenId /\ id[1] = tx[s].doc
    BY <1>2 DEF RowsOf, TxInv, DatabaseInv, Token, IdOf, TokenId, Locks
  <1>4. SessionOK(tx[s], held[s] \cup {id})
    BY <1>1, <1>3 DEF SessionOK, HeldOK, ApplyOK
  <1>5. PICK next : next = tx[s]
    OBVIOUS
  <1>6. /\ SessionOK(next, held[s] \cup {id}) /\ tx' = [tx EXCEPT ![s] = next]
        /\ Free(s, id) /\ Acquire(s, id) /\ UNCHANGED <<storeVars, requests, clock, times>>
    BY <1>1, <1>4, <1>5 DEF DeleteRow
  <1> QED
    BY <1>3, <1>6, AcquireOK

LEMMA LockTokenOK ==
    ASSUME TxInv, NEW s \in Sessions, LockToken(s)
    PROVE  StepOK
  <1>1. PICK next : next = [tx[s] EXCEPT !.pc = "document"]
    OBVIOUS
  <1>2. PICK id : id = tx[s].token
    OBVIOUS
  <1>3. tx' = [tx EXCEPT ![s] = next]
    BY <1>1, SameLocks DEF LockToken, TxInv
  <1>4. SessionOK(tx[s], held[s]) /\ tx[s].pc = "token" /\ id \in TokenId
    BY <1>2, SameLocks DEF LockToken, SessionOK, ApplyOK
  <1>5. \E t \in tokens : IdOf(t) = id /\ t.status # "CLASSIFIED"
    BY <1>2 DEF LockToken, TokenUsable
  <1>6. SessionOK(next, held[s] \cup {id})
    <2>1. "document" \in OutsidePc \cup TxPc
      BY DEF TxPc
    <2> QED
      BY <1>1, <1>2, <1>4, <1>5, <2>1, NextPc
         DEF SessionOK, HeldOK, SubmitOK, ClaimOK, SnapshotOK, ApplyOK
  <1>7. /\ id \in Locks /\ Free(s, id) /\ Acquire(s, id)
        /\ UNCHANGED <<storeVars, requests, clock, times>>
    BY <1>2, <1>4 DEF LockToken, Locks
  <1> QED
    BY <1>3, <1>6, <1>7, AcquireOK

----------------------------------------------------------------------------
(* Statements that commit. *)

\* A commit frees the session's locks.
LEMMA CommitOK ==
    ASSUME TxInv, NEW s \in Sessions, NEW next, EndTx(s, next), UNCHANGED <<requests, clock>>,
           DatabaseInv', OutboxOK', outboxSeq' = outboxSeq, times' \in TimesType,
           Grows, KeepsRows(s), SessionOK(next, {})'
    PROVE  TxInv'
  <1>1. {} \in SUBSET Locks /\ \A r \in Sessions \ {s} : {} \cap held[r] = {}
    OBVIOUS
  <1>2. requests' \in 0..MaxRequests /\ clock' = clock
    BY DEF TxInv
  <1> QED
    BY <1>1, <1>2, StepKeeps DEF EndTx

\* One document is written.
LEMMA GrowsOne ==
    ASSUME documents \in [Docs -> Document], NEW d \in Docs,
           \A x \in Docs \ {d} : documents'[x] = documents[x],
           Exists(d) => /\ documents'[d].status # "NONE"
                        /\ documents[d].run_version <= documents'[d].run_version
                        /\ documents'[d].run_version = documents[d].run_version
                             => documents'[d].text = documents[d].text
    PROVE  Grows
  BY DEF Grows, Exists, Document

\* Jobs of documents that exist are put into the outbox.
LEMMA EnqueueKeeps ==
    ASSUME TxInv, Grows, NEW stream, NEW jobs, Enqueue(stream, jobs),
           \/ stream = StreamExtract /\ jobs \subseteq ExtractJob
           \/ /\ stream = StreamClassify /\ jobs \subseteq ClassifyJob
              /\ \A j \in jobs : j.token_id[1] = j.document_id /\ j.token_id[2] = j.run_version,
           \A j \in jobs : Exists(j.document_id)'
    PROVE  OutboxOK' /\ outboxSeq' = outboxSeq
  <1>1. outboxSeq + 1 \in Nat /\ outbox \subseteq OutboxRow
    BY DEF TxInv, OutboxOK
  <1>2. PICK new : new = {[id |-> outboxSeq + 1, stream |-> stream, payload |-> j] : j \in jobs}
    OBVIOUS
  <1>3. outbox' = outbox \cup new /\ outboxSeq' = outboxSeq
    BY <1>2 DEF Enqueue, EnqueueOutbox
  <1>4. ASSUME NEW row \in new
        PROVE  row \in OutboxRow /\ JobOK(row)'
    <2>1. PICK j \in jobs : row = [id |-> outboxSeq + 1, stream |-> stream, payload |-> j]
      BY <1>2
    <2>2. row.stream = stream /\ row.payload = j
      BY <2>1
    <2>3. row \in OutboxRow
      BY <1>1, <2>1 DEF OutboxRow
    <2>4. Exists(row.payload.document_id)'
      BY <2>2 DEF Exists
    <2> QED
      BY <2>2, <2>3, <2>4 DEF JobOK, StreamExtract, StreamClassify
  <1>5. ASSUME NEW row \in outbox
        PROVE  JobOK(row)'
    <2>1. JobOK(row) /\ row.payload.document_id \in Docs
      BY DEF TxInv, OutboxOK, OutboxRow, ExtractJob, ClassifyJob
    <2> QED
      BY <2>1 DEF JobOK, Grows
  <1> QED
    BY <1>1, <1>3, <1>4, <1>5 DEF OutboxOK

LEMMA OutboxFrame ==
    ASSUME TxInv, Grows, UNCHANGED outbox
    PROVE  OutboxOK'
  <1>1. ASSUME NEW row \in outbox
        PROVE  JobOK(row)'
    <2>1. JobOK(row) /\ row.payload.document_id \in Docs
      BY DEF TxInv, OutboxOK, OutboxRow, ExtractJob, ClassifyJob
    <2> QED
      BY <2>1 DEF JobOK, Grows
  <1> QED
    BY <1>1 DEF TxInv, OutboxOK

\* now() is a time the clock has shown.
LEMMA StampKeeps ==
    ASSUME TxInv, NEW s \in Sessions, NEW d \in Docs, NEW S, Stamp(s, d, S)
    PROVE  times' \in TimesType
  <1>1. tx[s].now \in 0..MaxTime
    BY SameLocks, TransactionsAssumption DEF TxInv, SessionOK, Session
  <1>2. PICK f : f = [x \in Stamps |-> IF x \in S THEN tx[s].now ELSE times[d][x]]
    OBVIOUS
  <1>3. times \in [Docs -> [Stamps -> 0..MaxTime]]
    BY DEF TxInv, TimesType
  <1>4. f \in [Stamps -> 0..MaxTime]
    BY <1>1, <1>2, <1>3
  <1>5. times' = [times EXCEPT ![d] = f]
    BY <1>2, <1>3 DEF Stamp
  <1> QED
    BY <1>3, <1>4, <1>5 DEF TimesType

\* Tables whose token rows stay.
LEMMA KeepsAll ==
    ASSUME NEW s, \A t \in tokens : t \in tokens'
    PROVE  KeepsRows(s)
  BY DEF KeepsRows

\* The session is at rest after its last statement.
LEMMA EndsIdle ==
    ASSUME TxInv, UNCHANGED clock
    PROVE  SessionOK(Idle, {})'
  BY IdleOK DEF TxInv

LEMMA InsertOK ==
    ASSUME TxInv, NEW s \in Sessions, Insert(s)
    PROVE  StepOK
  <1>1. PICK d, text : d = tx[s].doc /\ text = tx[s].text
    OBVIOUS
  <1>2. /\ d \in Docs /\ text \in Texts /\ ~Exists(d) /\ UNCHANGED tokens
        /\ documents' = InsertDocument(documents, d, text)
        /\ EnqueueExtract(d, 1) /\ EndTx(s, Idle) /\ UNCHANGED <<requests, clock, times>>
    BY <1>1, SameLocks DEF Insert, SessionOK, SubmitOK
  <1>3. DatabaseInv' /\ Results!Open(d, text)
    BY <1>2, InsertKeeps DEF TxInv
  <1>4. /\ documents'[d].status = "PENDING" /\ documents \in [Docs -> Document]
        /\ \A x \in Docs \ {d} : documents'[x] = documents[x]
    BY <1>2 DEF TxInv, DatabaseInv, InsertDocument, NoDocument
  <1>5. Grows /\ KeepsRows(s)
    BY <1>2, <1>4, GrowsOne, KeepsAll
  <1>6. OutboxOK' /\ outboxSeq' = outboxSeq
    <2>1. Enqueue(StreamExtract, {[document_id |-> d, run_version |-> 1]})
      BY <1>2 DEF EnqueueExtract
    <2>2. {[document_id |-> d, run_version |-> 1]} \subseteq ExtractJob
      BY <1>2 DEF ExtractJob
    <2>3. \A j \in {[document_id |-> d, run_version |-> 1]} : Exists(j.document_id)'
      BY <1>4 DEF Exists
    <2> QED
      BY <1>5, <2>1, <2>2, <2>3, EnqueueKeeps
  <1>7. TxInv'
    <2>1. SessionOK(Idle, {})' /\ times' \in TimesType
      BY <1>2, EndsIdle DEF TxInv
    <2> QED
      BY <1>2, <1>3, <1>5, <1>6, <2>1, CommitOK
  <1> QED
    BY <1>2, <1>3, <1>7 DEF StepOK, Results!Next

\* An extract job of the document's row as it is after the step.
LEMMA EnqueueExtractKeeps ==
    ASSUME TxInv, Grows, NEW d \in Docs, Exists(d)', NEW v \in Nat, EnqueueExtract(d, v)
    PROVE  OutboxOK' /\ outboxSeq' = outboxSeq
  <1>1. Enqueue(StreamExtract, {[document_id |-> d, run_version |-> v]})
    BY DEF EnqueueExtract
  <1>2. {[document_id |-> d, run_version |-> v]} \subseteq ExtractJob
    BY DEF ExtractJob
  <1>3. \A j \in {[document_id |-> d, run_version |-> v]} : Exists(j.document_id)'
    BY DEF Exists
  <1> QED
    BY <1>1, <1>2, <1>3, EnqueueKeeps

LEMMA ResumeOK ==
    ASSUME TxInv, NEW s \in Sessions, Resume(s)
    PROVE  StepOK
  <1>1. PICK d : d = tx[s].doc
    OBVIOUS
  <1>2. /\ d \in Docs /\ Exists(d) /\ UNCHANGED tokens
        /\ documents' = IF documents[d].status = "FAILED"
                        THEN SetDocumentPending(documents, d) ELSE documents
        /\ IF documents[d].status = "COMPLETED"
           THEN UNCHANGED <<outbox, outboxSeq>>
           ELSE EnqueueExtract(d, documents[d].run_version)
        /\ EndTx(s, Idle) /\ UNCHANGED <<requests, clock, times>>
    BY <1>1, SameLocks DEF Resume, SelectRow, SessionOK, SubmitOK
  <1>3. documents \in [Docs -> Document] /\ documents[d] \in Document /\ DatabaseInv
    BY <1>2 DEF TxInv, DatabaseInv
  <1>4. PICK row : row = [documents[d] EXCEPT !.status = "PENDING"]
    OBVIOUS
  <1>5. /\ row \in Document /\ row.status = "PENDING"
        /\ row.run_version = documents[d].run_version /\ row.text = documents[d].text
        /\ row.total_tokens = documents[d].total_tokens
        /\ row.classified_count = documents[d].classified_count
    BY <1>3, <1>4 DEF Document, DocStatus, ActiveStatus
  <1>6. DatabaseInv' /\ Mapped' = Mapped /\ Grows
    <2>1. CASE documents[d].status = "FAILED"
      <3>1. documents' = [documents EXCEPT ![d] = row]
        BY <1>2, <1>3, <1>4, <2>1 DEF SetDocumentPending
      <3>2. DatabaseInv' /\ Mapped' = Mapped
        BY <1>2, <1>3, <1>5, <3>1, StatusKeeps
      <3>3. documents'[d] = row /\ \A x \in Docs \ {d} : documents'[x] = documents[x]
        BY <1>2, <1>3, <3>1
      <3>4. Grows
        BY <1>2, <1>3, <1>5, <3>3, GrowsOne DEF Document
      <3> QED
        BY <3>2, <3>4
    <2>2. CASE documents[d].status # "FAILED"
      <3>1. UNCHANGED <<documents, tokens>>
        BY <1>2, <2>2
      <3>2. Mapped' = Mapped
        BY <3>1, StatusOnly
      <3>3. DatabaseInv'
        BY <1>3, <3>1 DEF DatabaseInv, KeysOK, RowsOK, RowOK, OneRun, FoundOK, CountsOK, RowsOf,
                          ClassifiedRows, Exists
      <3>4. Grows
        BY <1>3, <3>1 DEF Grows, Exists, Document
      <3> QED
        BY <3>2, <3>3, <3>4
    <2> QED
      BY <2>1, <2>2
  <1>7. OutboxOK' /\ outboxSeq' = outboxSeq
    <2>1. CASE documents[d].status = "COMPLETED"
      BY <1>2, <1>6, <2>1, OutboxFrame
    <2>2. CASE documents[d].status # "COMPLETED"
      <3>1. PICK v : v = documents[d].run_version
        OBVIOUS
      <3>2. v \in Nat /\ EnqueueExtract(d, v) /\ Exists(d)'
        BY <1>2, <1>3, <1>6, <2>2, <3>1 DEF Document, Grows
      <3> QED
        BY <1>2, <1>6, <3>2, EnqueueExtractKeeps
    <2> QED
      BY <2>1, <2>2
  <1>8. TxInv'
    <2>1. SessionOK(Idle, {})' /\ times' \in TimesType /\ KeepsRows(s)
      BY <1>2, EndsIdle, KeepsAll DEF TxInv
    <2> QED
      BY <1>2, <1>6, <1>7, <2>1, CommitOK
  <1> QED
    BY <1>6, <1>8 DEF StepOK

LEMMA ResetOK ==
    ASSUME TxInv, NEW s \in Sessions, Reset(s)
    PROVE  StepOK
  <1>1. PICK d, text : d = tx[s].doc /\ text = tx[s].text
    OBVIOUS
  <1>2. /\ d \in Docs /\ text \in Texts /\ tx[s].pc = "delete" /\ AllLocked(s)
        /\ documents' = ResetDocument(documents, d, text) /\ tokens' = DeleteTokens(tokens, d)
        /\ EnqueueExtract(d, documents'[d].run_version)
        /\ EndTx(s, Idle) /\ UNCHANGED <<requests, clock, times>>
    BY <1>1, SameLocks DEF Reset, SessionOK, SubmitOK
  <1>3. DatabaseInv' /\ Results!Open(d, text)
    BY <1>2, ResetKeeps DEF TxInv
  <1>4. /\ documents'[d].status = "PENDING" /\ documents \in [Docs -> Document]
        /\ documents[d].run_version \in Nat
        /\ documents'[d].run_version = documents[d].run_version + 1
        /\ \A x \in Docs \ {d} : documents'[x] = documents[x]
    BY <1>2 DEF TxInv, DatabaseInv, ResetDocument, Document
  <1>5. Grows
    BY <1>2, <1>4, GrowsOne
  <1>6. KeepsRows(s)
    <2>1. \A t \in RowsOf(d) : IdOf(t) \in held[s]
      BY <1>1, <1>2 DEF AllLocked, Wants
    <2> QED
      BY <1>2, <2>1 DEF KeepsRows, DeleteTokens, RowsOf
  <1>7. OutboxOK' /\ outboxSeq' = outboxSeq
    <2>1. PICK v : v = documents'[d].run_version
      OBVIOUS
    <2>2. v \in Nat /\ EnqueueExtract(d, v) /\ Exists(d)'
      BY <1>2, <1>4, <2>1 DEF Exists
    <2> QED
      BY <1>2, <1>5, <2>2, EnqueueExtractKeeps
  <1>8. TxInv'
    <2>1. SessionOK(Idle, {})' /\ times' \in TimesType
      BY <1>2, EndsIdle DEF TxInv
    <2> QED
      BY <1>2, <1>3, <1>5, <1>6, <1>7, <2>1, CommitOK
  <1> QED
    BY <1>2, <1>3, <1>8 DEF StepOK, Results!Next

LEMMA ClaimStepOK ==
    ASSUME TxInv, NEW s \in Sessions, Claim(s)
    PROVE  StepOK
  <1>1. PICK d, old : d = tx[s].doc /\ old = documents[d]
    OBVIOUS
  <1>2. PICK next : next = IF old.status \in {"COMPLETED", "CLASSIFYING"} THEN Idle
                           ELSE [Idle EXCEPT !.pc = "extracting", !.doc = d, !.text = old.text,
                                             !.run_version = old.run_version]
    OBVIOUS
  <1>3. /\ d \in Docs /\ Exists(d) /\ UNCHANGED <<tokens, outbox, outboxSeq, requests, clock>>
        /\ IF old.status = "PENDING"
           THEN documents' = SetExtractionStarted(documents, d)
                  /\ Stamp(s, d, {"extraction_started_at"})
           ELSE UNCHANGED <<documents, times>>
        /\ EndTx(s, next)
    BY <1>1, <1>2, SameLocks DEF Claim, SessionOK, ClaimOK
  <1>4. documents \in [Docs -> Document] /\ old \in Document /\ DatabaseInv /\ RowsOK(d)
    BY <1>1, <1>3 DEF TxInv, DatabaseInv
  <1>5. PICK row : row = [old EXCEPT !.status = "EXTRACTING",
                                     !.stamped = @ \cup {"extraction_started_at"}]
    OBVIOUS
  <1>6. /\ row \in Document /\ row.status = "EXTRACTING"
        /\ row.run_version = old.run_version /\ row.text = old.text
        /\ row.total_tokens = old.total_tokens
        /\ row.classified_count = old.classified_count
    BY <1>4, <1>5 DEF Document, DocStatus, ActiveStatus, Stamps
  <1>7. /\ DatabaseInv' /\ Mapped' = Mapped /\ Grows /\ times' \in TimesType
        /\ documents'[d].run_version = old.run_version /\ documents'[d].text = old.text
        /\ documents'[d].status # "NONE"
    <2>1. CASE old.status = "PENDING"
      <3>1. documents' = [documents EXCEPT ![d] = row]
        BY <1>1, <1>3, <1>5, <2>1 DEF SetExtractionStarted
      <3>2. DatabaseInv' /\ Mapped' = Mapped
        BY <1>1, <1>3, <1>4, <1>6, <3>1, StatusKeeps
      <3>3. documents'[d] = row /\ \A x \in Docs \ {d} : documents'[x] = documents[x]
        BY <1>3, <1>4, <3>1
      <3>4. Grows
        BY <1>1, <1>3, <1>4, <1>6, <3>3, GrowsOne DEF Document
      <3>5. times' \in TimesType
        BY <1>3, <2>1, StampKeeps
      <3> QED
        BY <1>6, <3>2, <3>3, <3>4, <3>5
    <2>2. CASE old.status # "PENDING"
      <3>1. UNCHANGED <<documents, tokens, times>>
        BY <1>3, <2>2
      <3>2. Mapped' = Mapped
        BY <3>1, StatusOnly
      <3>3. DatabaseInv'
        BY <1>4, <3>1 DEF DatabaseInv, KeysOK, RowsOK, RowOK, OneRun, FoundOK, CountsOK, RowsOf,
                          ClassifiedRows, Exists
      <3>4. Grows /\ times' \in TimesType
        BY <1>4, <3>1 DEF Grows, Exists, Document, TxInv
      <3> QED
        BY <1>1, <1>3, <3>1, <3>2, <3>3, <3>4 DEF Exists
    <2> QED
      BY <2>1, <2>2
  <1>8. SessionOK(next, {})'
    <2>1. CASE old.status \in {"COMPLETED", "CLASSIFYING"}
      BY <1>2, <1>3, <2>1, EndsIdle
    <2>2. CASE old.status \notin {"COMPLETED", "CLASSIFYING"}
      <3>1. next = [pc |-> "extracting", now |-> 0, doc |-> d, text |-> old.text, full |-> FALSE,
                    run_version |-> old.run_version, token |-> NoTokenId]
        BY <1>2, <2>2 DEF Idle
      <3>2. clock' \in Nat /\ old.run_version \in Nat /\ old.text \in Texts \cup {NoText}
        BY <1>3, <1>4 DEF TxInv, Document
      <3> QED
        BY <1>3, <1>7, <3>1, <3>2 DEF SessionOK, HeldOK, SubmitOK, ClaimOK, SnapshotOK, ApplyOK, Session,
                                      OutsidePc, Exists
    <2> QED
      BY <2>1, <2>2
  <1>9. TxInv'
    <2>1. OutboxOK' /\ KeepsRows(s)
      BY <1>3, <1>7, OutboxFrame, KeepsAll
    <2> QED
      BY <1>3, <1>7, <1>8, <2>1, CommitOK
  <1> QED
    BY <1>7, <1>9 DEF StepOK

LEMMA PersistOK ==
    ASSUME TxInv, NEW s \in Sessions, Persist(s)
    PROVE  StepOK
  <1>1. PICK d, v : d = tx[s].doc /\ v = tx[s].run_version
    OBVIOUS
  <1>2. PICK total : total = CountTokens(tokens', d, v)
    OBVIOUS
  <1>a. PICK S : S = {"extraction_completed_at", "classification_started_at"} \cup
                       (IF total = 0 THEN {"classification_completed_at"} ELSE {})
    OBVIOUS
  <1>3. /\ d \in Docs /\ Exists(d) /\ documents[d].run_version = v
        /\ tokens' = UpsertTokens(tokens, d, v, Extract[documents[d].text])
        /\ documents' = IF total = 0 THEN MarkExtractionCompletedEmpty(documents, d)
                        ELSE AdvanceToClassifying(documents, d, total)
        /\ Stamp(s, d, S)
        /\ Enqueue(StreamClassify, ClassifyJobs(d, v, tokens'))
        /\ EndTx(s, Idle) /\ UNCHANGED <<requests, clock>>
    <2>1. tx[s].text = documents[d].text /\ d \in Docs /\ Exists(d)
      BY <1>1, SameLocks DEF Persist, SessionOK, SnapshotOK
    <2> QED
      BY <1>1, <1>2, <1>a, <2>1 DEF Persist
  <1>4. DatabaseInv' /\ (Results!Find(d) \/ Mapped' = Mapped)
    BY <1>2, <1>3, PersistKeeps DEF TxInv
  <1>5. documents \in [Docs -> Document] /\ documents[d] \in Document /\ v \in Nat
    BY <1>3 DEF TxInv, DatabaseInv, Document
  <1>6. /\ documents'[d].run_version = v /\ documents'[d].text = documents[d].text
        /\ documents'[d].status # "NONE"
        /\ \A x \in Docs \ {d} : documents'[x] = documents[x]
    <2>1. CASE total = 0
      BY <1>3, <1>5, <2>1 DEF MarkExtractionCompletedEmpty, Document
    <2>2. CASE total # 0
      BY <1>3, <1>5, <2>2 DEF AdvanceToClassifying, Document
    <2> QED
      BY <2>1, <2>2
  <1>7. Grows
    BY <1>3, <1>5, <1>6, GrowsOne
  <1>8. KeepsRows(s)
    BY <1>3, UpsertRows, KeepsAll
  <1>9. OutboxOK' /\ outboxSeq' = outboxSeq
    <2>1. PICK jobs : jobs = ClassifyJobs(d, v, tokens')
      OBVIOUS
    <2>2. ASSUME NEW j \in jobs
          PROVE  /\ j \in ClassifyJob /\ j.document_id = d
                 /\ j.token_id[1] = j.document_id /\ j.token_id[2] = j.run_version
      <3>1. PICK t \in tokens' : /\ t.document_id = d /\ t.run_version = v
                                 /\ j = [token_id |-> IdOf(t), document_id |-> d, run_version |-> v]
        BY <2>1 DEF ClassifyJobs, TokensForRun
      <3>2. t \in Token
        BY <1>4 DEF DatabaseInv
      <3> QED
        BY <1>3, <1>5, <3>1, <3>2 DEF IdOf, ClassifyJob, TokenId, Token
    <2>3. \A j \in jobs : Exists(j.document_id)'
      BY <1>6, <2>2 DEF Exists
    <2>4. Enqueue(StreamClassify, jobs)
      BY <1>3, <2>1
    <2>5. jobs \subseteq ClassifyJob
      BY <2>2
    <2> QED
      BY <1>7, <2>2, <2>3, <2>4, <2>5, EnqueueKeeps
  <1>10. TxInv'
    <2>1. SessionOK(Idle, {})' /\ times' \in TimesType
      BY <1>3, EndsIdle, StampKeeps
    <2> QED
      BY <1>3, <1>4, <1>7, <1>8, <1>9, <2>1, CommitOK
  <1> QED
    BY <1>3, <1>4, <1>10 DEF StepOK, Results!Next, Results!Work

\* While apply has its token the document's run is the token's: TokenLockFencesRun.
LEMMA TokenFences ==
    ASSUME TxInv, NEW s \in Sessions, tx[s].pc = "document"
    PROVE  /\ documents[tx[s].doc].run_version = tx[s].run_version
           /\ \E t \in tokens : /\ IdOf(t) = tx[s].token /\ t.document_id = tx[s].doc
                                /\ t.status # "CLASSIFIED"
  <1>1. PICK t \in tokens : IdOf(t) = tx[s].token /\ t.status # "CLASSIFIED"
    BY SameLocks DEF SessionOK, ApplyOK
  <1>2. tx[s].doc \in Docs /\ tx[s].token[1] = tx[s].doc /\ tx[s].token[2] = tx[s].run_version
    BY SameLocks DEF SessionOK, ApplyOK
  <1>3. t.document_id = tx[s].doc /\ t.run_version = tx[s].run_version
    BY <1>1, <1>2 DEF IdOf
  <1>4. t.run_version = documents[tx[s].doc].run_version
    BY <1>2, <1>3 DEF TxInv, DatabaseInv, RowsOK, OneRun, RowsOf
  <1> QED
    BY <1>1, <1>3, <1>4

LEMMA ApplyStepOK ==
    ASSUME TxInv, NEW s \in Sessions, NEW category \in Categories, Apply(s, category)
    PROVE  StepOK
  <1>1. PICK d, id : d = tx[s].doc /\ id = tx[s].token
    OBVIOUS
  <1>2. tx[s].pc = "document"
    BY DEF Apply
  <1>3. PICK t \in tokens : IdOf(t) = id /\ t.document_id = d /\ t.status # "CLASSIFIED"
    BY <1>1, <1>2, TokenFences
  <1>4. PICK counted : counted = IncrementClassifiedCount(documents, d)
    OBVIOUS
  <1>5. PICK S : S = IF Completes(counted[d]) THEN {"classification_completed_at"} ELSE {}
    OBVIOUS
  <1>6. /\ tokens' = SetTokenClassified(tokens, IdOf(t), category)
        /\ documents' = IF counted[d].classified_count >= counted[d].total_tokens
                        THEN MarkDocumentCompleted(counted, d) ELSE counted
        /\ Stamp(s, d, S) /\ EndTx(s, Idle) /\ UNCHANGED <<outbox, outboxSeq, requests, clock>>
    BY <1>1, <1>2, <1>3, <1>4, <1>5, TokenFences DEF Apply, Completes
  <1>7. /\ DatabaseInv' /\ d \in Docs /\ t.entity \in Entities
        /\ Results!Answer(d, t.entity, category)
    BY <1>3, <1>4, <1>6, ApplyKeeps DEF TxInv
  <1>8. documents \in [Docs -> Document] /\ documents[d] \in Document
    BY <1>7 DEF TxInv, DatabaseInv
  <1>9. /\ counted \in [Docs -> Document] /\ counted[d].run_version = documents[d].run_version
        /\ counted[d].text = documents[d].text /\ counted[d].status = documents[d].status
        /\ \A x \in Docs \ {d} : counted[x] = documents[x]
    BY <1>4, <1>7, <1>8 DEF IncrementClassifiedCount, Document
  <1>10. Grows
    <2>1. CASE counted[d].classified_count >= counted[d].total_tokens
      <3>1. documents' = MarkDocumentCompleted(counted, d)
        BY <1>6, <2>1
      <3>2. counted[d] \in Document
        BY <1>7, <1>9
      <3>3. /\ documents'[d].run_version = counted[d].run_version
            /\ documents'[d].text = counted[d].text /\ documents'[d].status = "COMPLETED"
            /\ \A x \in Docs \ {d} : documents'[x] = counted[x]
        BY <1>7, <1>9, <3>1, <3>2 DEF MarkDocumentCompleted, Document
      <3> QED
        BY <1>7, <1>8, <1>9, <3>3, GrowsOne DEF Document
    <2>2. CASE ~(counted[d].classified_count >= counted[d].total_tokens)
      BY <1>6, <1>7, <1>8, <1>9, <2>2, GrowsOne DEF Exists, Document
    <2> QED
      BY <2>1, <2>2
  <1>11. KeepsRows(s)
    <2>1. IdOf(t) \in held[s]
      BY <1>1, <1>2, <1>3, SameLocks DEF SessionOK, ApplyOK
    <2> QED
      BY <1>6, <2>1 DEF KeepsRows, SetTokenClassified
  <1>12. TxInv'
    <2>1. SessionOK(Idle, {})' /\ times' \in TimesType /\ OutboxOK'
      BY <1>6, <1>7, <1>10, EndsIdle, StampKeeps, OutboxFrame
    <2> QED
      BY <1>6, <1>7, <1>10, <1>11, <2>1, CommitOK
  <1> QED
    BY <1>7, <1>12 DEF StepOK, Results!Next, Results!Work

----------------------------------------------------------------------------
(* All steps together. *)

\* Only time passes, if that.
LEMMA TimeOK ==
    ASSUME TxInv, UNCHANGED <<storeVars, tx, held, requests, times>>,
           clock' \in 0..MaxTime, clock <= clock'
    PROVE  StepOK
  <1>1. UNCHANGED <<documents, tokens, outbox, outboxSeq, tx, held, requests, times>>
    BY DEF storeVars
  <1>2. clock \in Nat /\ clock' \in 0..MaxTime /\ clock <= clock'
    BY DEF TxInv
  <1>3. DatabaseInv' /\ OutboxOK'
    BY <1>1 DEF TxInv, DatabaseInv, KeysOK, RowsOK, RowOK, OneRun, FoundOK, CountsOK, RowsOf,
                ClassifiedRows, Exists, OutboxOK, JobOK
  <1>4. Grows /\ documents \in [Docs -> Document]
    BY <1>1 DEF TxInv, DatabaseInv, Document, Grows, Exists
  <1>5. ASSUME NEW s \in Sessions
        PROVE  SessionOK(tx[s], held[s])'
    <2>1. PICK x, l : x = tx[s] /\ l = held[s]
      OBVIOUS
    <2>2. SessionOK(x, l)
      BY <2>1 DEF TxInv
    <2>3. SessionOK(x, l)'
      BY <1>1, <1>2, <1>4, <2>2, SessionFrame
    <2> QED
      BY <1>1, <2>1, <2>3
  <1>6. TxInv'
    BY <1>1, <1>2, <1>3, <1>5 DEF TxInv
  <1>7. Mapped' = Mapped
    BY <1>1, StatusOnly
  <1> QED
    BY <1>6, <1>7 DEF StepOK

LEMMA TickOrStutterOK ==
    ASSUME TxInv, Tick \/ UNCHANGED vars
    PROVE  StepOK
  <1>1. clock' \in 0..MaxTime /\ clock <= clock'
    BY TransactionsAssumption DEF TxInv, Tick, vars
  <1>2. UNCHANGED <<storeVars, tx, held, requests, times>>
    BY DEF Tick, vars
  <1> QED
    BY <1>1, <1>2, TimeOK

\* A session begins a transaction; which of the other sessions do what is up to Next and
\* ApiNext.
Begin(s) ==
    \/ \E d \in Docs, text \in Texts, full \in BOOLEAN : BeginSubmit(s, d, text, full)
    \/ \E row \in outbox : (s \in Extractors /\ BeginClaim(s, row)) \/ LookUp(s, row)
    \/ BeginPersist(s) \/ BeginApply(s)

SystemNext ==
    \/ \E s \in Sessions : Begin(s) \/ Statement(s) \/ AbortDeadlocked(s) \/ Fail(s)
    \/ Tick

LEMMA StatementOK ==
    ASSUME TxInv, NEW s \in Sessions, Statement(s)
    PROVE  StepOK
  <1>1. CASE SelectNone(s) \/ Insert(s) \/ Resume(s) \/ LockForReset(s) \/ Reset(s)
    BY <1>1, SelectNoneOK, InsertOK, ResumeOK, LockForResetOK, ResetOK
  <1>2. CASE \E id \in Wants(s) : DeleteRow(s, id)
    BY <1>2, DeleteRowOK
  <1>3. CASE Claim(s) \/ Persist(s) \/ LockToken(s)
    BY <1>3, ClaimStepOK, PersistOK, LockTokenOK
  <1>4. CASE InsertConflict(s) \/ PersistStale(s) \/ DropResult(s)
    BY <1>4, RollbackOK DEF InsertConflict, PersistStale, DropResult
  <1>5. CASE \E category \in Categories : Apply(s, category)
    BY <1>5, ApplyStepOK
  <1> QED
    BY <1>1, <1>2, <1>3, <1>4, <1>5 DEF Statement

LEMMA SystemStep ==
    ASSUME TxInv, SystemNext \/ UNCHANGED vars
    PROVE  StepOK
  <1>1. ASSUME NEW s \in Sessions, Begin(s)
        PROVE  StepOK
    BY <1>1, BeginSubmitOK, BeginClaimOK, LookUpOK, SecondOK DEF Begin
  <1>2. ASSUME NEW s \in Sessions, AbortDeadlocked(s) \/ Fail(s)
        PROVE  StepOK
    BY <1>2, RollbackOK DEF AbortDeadlocked, Fail
  <1> QED
    BY <1>1, <1>2, StatementOK, TickOrStutterOK DEF SystemNext

LEMMA TxInit ==
    ASSUME Init
    PROVE  TxInv /\ Mapped = [d \in Docs |-> [run |-> 0, text |-> NoText, found |-> {}, answers |-> {}]]
  <1>1. /\ documents = [d \in Docs |-> NoDocument] /\ tokens = {} /\ outbox = {} /\ outboxSeq = 0
        /\ tx = [s \in Sessions |-> Idle] /\ held = [s \in Sessions |-> {}]
        /\ requests = 0 /\ clock = 0 /\ times = [d \in Docs |-> [x \in Stamps |-> 0]]
    BY DEF Init, StoreInit
  <1>2. \A d \in Docs : RowsOf(d) = {} /\ ClassifiedRows(d) = {}
    BY <1>1 DEF RowsOf, ClassifiedRows
  <1>3. \A d \in Docs : RowsOK(d)
    BY <1>1, <1>2, FS_EmptySet DEF RowsOK, RowOK, OneRun, FoundOK, CountsOK, Exists, NoDocument
  <1>4. DatabaseInv
    BY <1>1, <1>3, FS_EmptySet DEF DatabaseInv, KeysOK, NoDocument, Document
  <1>5. SessionOK(Idle, {})
    BY <1>1, IdleOK
  <1>6. Idle \in Session
    BY <1>5 DEF SessionOK
  <1>7. TxInv
    BY <1>1, <1>4, <1>5, <1>6, TransactionsAssumption DEF TxInv, OutboxOK, TimesType
  <1>8. \A d \in Docs : ResultOf(d) = [run |-> 0, text |-> NoText, found |-> {}, answers |-> {}]
    BY <1>1, <1>2 DEF ResultOf, NoDocument
  <1> QED
    BY <1>7, <1>8 DEF Mapped

\* Next is about sessions of the right kind; the proofs do not need to know.
LEMMA NextIsSystem ==
    ASSUME Next
    PROVE  SystemNext
  <1>1. Clients \subseteq Sessions /\ Extractors \subseteq Sessions /\ Classifiers \subseteq Sessions
    BY DEF Sessions
  <1> QED
    BY <1>1 DEF Next, SystemNext, Begin

LEMMA TxInvHolds == Spec => []TxInv
  <1>1. Init => TxInv
    BY TxInit
  <1>2. TxInv /\ [Next]_vars => TxInv'
    BY NextIsSystem, SystemStep DEF StepOK
  <1> QED
    BY <1>1, <1>2, PTL DEF Spec

----------------------------------------------------------------------------
(* Transactions. *)

\* Type correctness of the interleaved transactions (submit, claim, persist, apply of
\* internal/service and internal/worker): in particular no two sessions ever hold the
\* lock of the same row.
THEOREM TransactionsTypeCorrect == Spec => []TypeOK
  <1>1. TxInv => TypeOK
    BY DEF TxInv, TypeOK, DatabaseInv, OutboxOK, StoreTypeOK, TimesType
  <1> QED
    BY <1>1, TxInvHolds, PTL

\* From the moment apply (classifier.go) has locked its token until it commits, no full
\* rerun moves the document to another run, whatever the other sessions do.
THEOREM TokenLockFences == Spec => []TokenLockFencesRun
  <1>1. TxInv => TokenLockFencesRun
    BY TokenFences DEF TokenLockFencesRun, Sessions
  <1> QED
    BY <1>1, TxInvHolds, PTL

\* Whoever has the lock of a document is a rerun of it that deletes.
LEMMA DocumentHolder ==
    ASSUME TxInv, NEW q \in Sessions, NEW d \in Docs, d \in held[q]
    PROVE  tx[q].pc = "delete" /\ tx[q].doc = d
  <1>1. SessionOK(tx[q], held[q])
    BY SameLocks
  <1>2. d \notin TokenId
    BY TransactionsAssumption
  <1>3. CASE tx[q].pc = "document"
    BY <1>1, <1>2, <1>3 DEF SessionOK, HeldOK, ApplyOK
  <1>4. CASE tx[q].pc = "delete"
    BY <1>1, <1>2, <1>4 DEF SessionOK, HeldOK
  <1> QED
    BY <1>1, <1>3, <1>4 DEF SessionOK

\* An apply that waits for its document waits for a rerun that deletes, and the rerun
\* for the token of the apply: Postgres aborts one of them.
LEMMA ApplyGoesOn ==
    ASSUME TxInv, NEW r \in Sessions, tx[r].pc = "document"
    PROVE  CanGoOn(r)
  <1>1. PICK d, id : d = tx[r].doc /\ id = tx[r].token
    OBVIOUS
  <1>2. d \in Docs /\ id \in held[r] /\ Wants(r) = {d}
    BY <1>1, SameLocks DEF SessionOK, ApplyOK, Wants
  <1>3. CASE Free(r, d)
    BY <1>2, <1>3 DEF CanGoOn, TxPc
  <1>4. CASE ~Free(r, d)
    <2>1. PICK q \in Sessions \ {r} : d \in held[q]
      BY <1>4 DEF Free
    <2>2. tx[q].pc = "delete" /\ tx[q].doc = d
      BY <1>2, <2>1, DocumentHolder
    <2>3. id \in {IdOf(t) : t \in RowsOf(d)}
      BY <1>1, TokenFences DEF RowsOf
    <2>4. id \in Wants(q)
      BY <1>2, <2>1, <2>2, <2>3 DEF Wants, TxInv
    <2>5. WaitsFor(r, q) /\ WaitsFor(q, r)
      BY <1>2, <2>1, <2>4 DEF WaitsFor
    <2> QED
      BY <2>1, <2>5 DEF CanGoOn, OnCycle, TxPc
  <1> QED
    BY <1>3, <1>4

\* A rerun that waits for a token waits for an apply that has it, and the apply for the
\* document the rerun has.
LEMMA RerunGoesOn ==
    ASSUME TxInv, NEW r \in Sessions, tx[r].pc = "delete"
    PROVE  CanGoOn(r)
  <1>1. PICK d : d = tx[r].doc
    OBVIOUS
  <1>2. d \in held[r] /\ d \in Docs
    BY <1>1, SameLocks DEF SessionOK, HeldOK, SubmitOK
  <1>3. CASE Wants(r) = {}
    BY <1>3 DEF CanGoOn, TxPc
  <1>4. CASE \E id \in Wants(r) : Free(r, id)
    BY <1>4 DEF CanGoOn, TxPc
  <1>5. ASSUME NEW id \in Wants(r), ~Free(r, id)
        PROVE  CanGoOn(r)
    <2>1. PICK t \in RowsOf(d) : id = IdOf(t)
      BY <1>1, <1>5 DEF Wants
    <2>2. id \in TokenId /\ id[1] = d
      BY <2>1 DEF RowsOf, TxInv, DatabaseInv, Token, IdOf, TokenId
    <2>3. PICK q \in Sessions \ {r} : id \in held[q]
      BY <1>5 DEF Free
    <2>4. SessionOK(tx[q], held[q]) /\ d \notin held[q]
      BY <1>2, <2>3, SameLocks
    <2>5. id # tx[q].doc \/ tx[q].pc # "delete"
      BY <2>2, <2>4, TransactionsAssumption DEF SessionOK, SubmitOK
    <2>6. tx[q].pc = "document" /\ id = tx[q].token
      BY <2>2, <2>3, <2>4, <2>5 DEF SessionOK, HeldOK
    <2>7. Wants(q) = {d}
      BY <2>2, <2>4, <2>6 DEF SessionOK, ApplyOK, Wants
    <2>8. WaitsFor(r, q) /\ WaitsFor(q, r)
      BY <1>2, <1>5, <2>3, <2>7 DEF WaitsFor
    <2> QED
      BY <2>3, <2>8 DEF CanGoOn, OnCycle, TxPc
  <1> QED
    BY <1>3, <1>4, <1>5

\* The row locks that submit, claim, persist and apply take in different orders
\* (documents.go, extractor.go, classifier.go) bring nothing to a standstill: every open
\* transaction can take its next statement, or Postgres aborts it, or it waits for one of
\* which that is true.  A transaction left open by an early return would falsify it.
THEOREM NothingStandsStill == Spec => []NoStandstill
  <1>1. ASSUME TxInv, NEW s \in Sessions, tx[s].pc \in TxPc, ~CanGoOn(s)
        PROVE  \E r \in Sessions : WaitsFor(s, r) /\ CanGoOn(r)
    <2>1. PICK lock \in Wants(s) : ~Free(s, lock)
      BY <1>1 DEF CanGoOn
    <2>2. PICK r \in Sessions \ {s} : lock \in held[r]
      BY <2>1 DEF Free
    <2>3. tx[r].pc \in {"delete", "document"}
      BY <1>1, <2>2, SameLocks DEF SessionOK
    <2>4. CanGoOn(r)
      BY <1>1, <2>3, ApplyGoesOn, RerunGoesOn
    <2> QED
      BY <2>1, <2>2, <2>4 DEF WaitsFor
  <1>2. TxInv => NoStandstill
    BY <1>1 DEF NoStandstill
  <1> QED
    BY <1>2, TxInvHolds, PTL

\* Interleaved statement by statement, with their locks, aborts and failures, the
\* transactions show a reader of the tables nothing but the atomic steps of
\* DocumentResults: row locks make what Pipeline assumes of them true.
THEOREM TransactionsImplementResults == Spec => ImplementsResults
  <1>1. Init => Results!Init
    BY TxInit DEF Results!Init, Results!NoText, NoText, Mapped
  <1>2. TxInv /\ [Next]_vars => [Results!Next]_([d \in Docs |-> ResultOf(d)])
    BY NextIsSystem, SystemStep DEF StepOK, Mapped
  <1> QED
    BY <1>1, <1>2, TxInvHolds, PTL DEF Spec, ImplementsResults, Results!Spec

----------------------------------------------------------------------------
(* The order of a page. *)

\* The entities of E in front of e.
Before(E, e) == {f \in E : Rank[f] < Rank[e]}

\* How many entities are in front of one says where it stands.
LEMMA BeforeCounts ==
    ASSUME NEW E \in SUBSET Entities, NEW e \in E
    PROVE  /\ IsFiniteSet(E) /\ Cardinality(E) \in Nat
           /\ Cardinality(Before(E, e)) \in Nat /\ Cardinality(Before(E, e)) < Cardinality(E)
           /\ \A f \in E : Rank[e] < Rank[f] =>
                 Cardinality(Before(E, e)) < Cardinality(Before(E, f))
  <1>1. IsFiniteSet(E) /\ Cardinality(E) \in Nat
    BY EntitiesAssumption, FS_Subset, FS_CardinalityType
  <1>2. \A x \in E : Before(E, x) \in SUBSET E /\ x \notin Before(E, x) /\ Rank[x] \in Nat
    BY ApiAssumption DEF Before
  <1>3. \A x \in E : /\ IsFiniteSet(Before(E, x)) /\ Cardinality(Before(E, x)) \in Nat
    BY <1>1, <1>2, FS_Subset, FS_CardinalityType
  <1>4. Cardinality(Before(E, e)) < Cardinality(E)
    <2>1. /\ Cardinality(Before(E, e)) <= Cardinality(E)
          /\ Cardinality(E) = Cardinality(Before(E, e)) => E = Before(E, e)
      BY <1>1, <1>2, FS_Subset
    <2> QED
      BY <1>1, <1>2, <1>3, <2>1
  <1>5. ASSUME NEW f \in E, Rank[e] < Rank[f]
        PROVE  Cardinality(Before(E, e)) < Cardinality(Before(E, f))
    <2>1. Before(E, e) \in SUBSET Before(E, f) /\ e \in Before(E, f)
      BY <1>2, <1>5 DEF Before
    <2>2. /\ Cardinality(Before(E, e)) <= Cardinality(Before(E, f))
          /\ Cardinality(Before(E, f)) = Cardinality(Before(E, e)) => Before(E, f) = Before(E, e)
      BY <1>3, <2>1, FS_Subset
    <2> QED
      BY <1>2, <1>3, <2>1, <2>2
  <1> QED
    BY <1>1, <1>3, <1>4, <1>5

\* Two entities with as many in front are the same.
LEMMA BeforeDistinct ==
    ASSUME NEW E \in SUBSET Entities, NEW e \in E, NEW f \in E,
           Cardinality(Before(E, e)) = Cardinality(Before(E, f))
    PROVE  e = f
  <1>1. Rank[e] \in Nat /\ Rank[f] \in Nat /\ (Rank[e] = Rank[f] => e = f)
    BY ApiAssumption
  <1>2. CASE Rank[e] < Rank[f]
    BY <1>2, BeforeCounts
  <1>3. CASE Rank[f] < Rank[e]
    BY <1>3, BeforeCounts
  <1> QED
    BY <1>1, <1>2, <1>3

\* Rows of one run, one per entity.
OneEach(R) ==
    /\ R \subseteq Token /\ IsFiniteSet(R)
    /\ \A t, u \in R : t.entity = u.entity => t = u

EntitiesOf(R) == {t.entity : t \in R}

LEMMA EntityCount ==
    ASSUME NEW R, OneEach(R)
    PROVE  /\ EntitiesOf(R) \in SUBSET Entities
           /\ Cardinality(R) \in Nat /\ Cardinality(EntitiesOf(R)) = Cardinality(R)
  <1> DEFINE f == [t \in R |-> t.entity]
  <1>1. f \in Bijection(R, EntitiesOf(R))
    BY DEF Bijection, Injection, Surjection, OneEach, EntitiesOf, IsInjective
  <1>2. ExistsBijection(R, EntitiesOf(R)) /\ IsFiniteSet(R)
    BY <1>1 DEF ExistsBijection, OneEach
  <1>3. Cardinality(EntitiesOf(R)) = Cardinality(R) /\ Cardinality(R) \in Nat
    BY <1>2, FS_Bijection, FS_CardinalityType
  <1>4. EntitiesOf(R) \in SUBSET Entities
    BY DEF EntitiesOf, OneEach, Token
  <1> QED
    BY <1>3, <1>4

\* There is an order to choose: each row at the place its entity has.
LEMMA OrderExists ==
    ASSUME NEW R, OneEach(R)
    PROVE  \E q \in [1..Cardinality(R) -> R] :
              \A i, j \in DOMAIN q : i < j => RowOrder(q[i], q[j])
  <1>1. PICK n, E : n = Cardinality(R) /\ E = EntitiesOf(R)
    OBVIOUS
  <1>2. n \in Nat /\ E \in SUBSET Entities /\ Cardinality(E) = n /\ IsFiniteSet(R)
    BY <1>1, EntityCount DEF OneEach
  <1> DEFINE g == [t \in R |-> Cardinality(Before(E, t.entity)) + 1]
  <1>3. \A t \in R : t.entity \in E
    BY <1>1 DEF EntitiesOf
  <1>4. \A t \in R : g[t] \in 1..n
    <2> TAKE t \in R
    <2>1. /\ Cardinality(Before(E, t.entity)) \in Nat
          /\ Cardinality(Before(E, t.entity)) < n
      BY <1>2, <1>3, BeforeCounts
    <2> QED
      BY <1>2, <2>1
  <1>5. \A t, u \in R : g[t] = g[u] => t = u
    <2> SUFFICES ASSUME NEW t \in R, NEW u \in R, g[t] = g[u]
                 PROVE  t = u
      OBVIOUS
    <2>1. t.entity \in E /\ u.entity \in E
      BY <1>3
    <2>2. /\ Cardinality(Before(E, t.entity)) \in Nat
          /\ Cardinality(Before(E, u.entity)) \in Nat
      BY <1>2, <2>1, BeforeCounts
    <2>3. Cardinality(Before(E, t.entity)) = Cardinality(Before(E, u.entity))
      BY <2>2
    <2>4. t.entity = u.entity
      BY <1>2, <2>1, <2>3, BeforeDistinct
    <2> QED
      BY <2>4 DEF OneEach
  <1>6. g \in Injection(R, 1..n)
    BY <1>4, <1>5 DEF Injection, IsInjective
  <1>7. IsFiniteSet(1..n) /\ Cardinality(1..n) = n
    BY <1>2, FS_Interval
  <1>8. g \in Surjection(R, 1..n)
    <2> HIDE DEF g
    <2> QED
      BY <1>1, <1>6, <1>7, FS_Injection
  <1>9. \A i \in 1..n : \E t \in R : g[t] = i
    BY <1>8 DEF Surjection
  <1> DEFINE q == [i \in 1..n |-> CHOOSE t \in R : g[t] = i]
  <1>10. \A i \in 1..n : q[i] \in R /\ g[q[i]] = i
    <2> HIDE DEF g
    <2> QED
      BY <1>9
  <1>11. q \in [1..n -> R] /\ DOMAIN q = 1..n
    BY <1>10
  <1>12. \A i, j \in 1..n : i < j => RowOrder(q[i], q[j])
    <2> SUFFICES ASSUME NEW i \in 1..n, NEW j \in 1..n, i < j
                 PROVE  RowOrder(q[i], q[j])
      OBVIOUS
    <2>1. PICK t \in R, u \in R : t = q[i] /\ u = q[j] /\ g[t] = i /\ g[u] = j
      BY <1>10
    <2> HIDE DEF q
    <2>2. t.entity \in E /\ u.entity \in E /\ Rank[t.entity] \in Nat /\ Rank[u.entity] \in Nat
      BY <1>2, <1>3, ApiAssumption
    <2>3. /\ Cardinality(Before(E, t.entity)) \in Nat
          /\ Cardinality(Before(E, u.entity)) \in Nat
          /\ Rank[u.entity] < Rank[t.entity] =>
                Cardinality(Before(E, u.entity)) < Cardinality(Before(E, t.entity))
      BY <1>2, <2>2, BeforeCounts
    <2>4. Cardinality(Before(E, t.entity)) < Cardinality(Before(E, u.entity))
      BY <2>1, <2>3
    <2>5. Rank[t.entity] # Rank[u.entity]
      BY <1>2, <2>2, <2>3, <2>4, ApiAssumption
    <2> QED
      BY <2>1, <2>2, <2>3, <2>4, <2>5 DEF RowOrder
  <1> HIDE DEF q
  <1> QED
    BY <1>1, <1>11, <1>12

\* What Ordered returns: all the rows, each at the place of its entity.
LEMMA OrderedPlaces ==
    ASSUME NEW R, OneEach(R)
    PROVE  /\ Ordered(R) \in [1..Cardinality(R) -> R]
           /\ \A i \in 1..Cardinality(R) :
                 Cardinality(Before(EntitiesOf(R), Ordered(R)[i].entity)) = i - 1
  <1>1. PICK n, E, q : n = Cardinality(R) /\ E = EntitiesOf(R) /\ q = Ordered(R)
    OBVIOUS
  <1>2. n \in Nat /\ E \in SUBSET Entities /\ Cardinality(E) = n /\ IsFiniteSet(R)
    BY <1>1, EntityCount DEF OneEach
  <1>3. q \in [1..n -> R] /\ \A i, j \in DOMAIN q : i < j => RowOrder(q[i], q[j])
    BY <1>1, OrderExists DEF Ordered
  <1>4. \A i, j \in 1..n : i < j => Rank[q[i].entity] < Rank[q[j].entity]
    BY <1>3 DEF RowOrder
  <1>5. \A t \in R : t.entity \in E /\ Rank[t.entity] \in Nat
    BY <1>1, <1>2, ApiAssumption DEF EntitiesOf
  <1>6. \A i \in 1..n : q[i] \in R /\ q[i].entity \in E /\ Rank[q[i].entity] \in Nat
    BY <1>3, <1>5
  <1>7. \A i, j \in 1..n : q[i].entity = q[j].entity => i = j
    <2> SUFFICES ASSUME NEW i \in 1..n, NEW j \in 1..n, q[i].entity = q[j].entity, i # j
                 PROVE  FALSE
      OBVIOUS
    <2>1. i < j \/ j < i
      BY <1>2
    <2> QED
      BY <1>4, <1>6, <2>1
  <1>8. \A e \in E : \E i \in 1..n : q[i].entity = e
    <2> DEFINE f == [i \in 1..n |-> q[i].entity]
    <2>1. f \in Injection(1..n, E)
      BY <1>6, <1>7 DEF Injection, IsInjective
    <2>2. IsFiniteSet(E) /\ Cardinality(1..n) = n
      BY <1>2, EntitiesAssumption, FS_Subset, FS_Interval
    <2>3. f \in Surjection(1..n, E)
      <3> HIDE DEF f
      <3> QED
        BY <1>2, <2>1, <2>2, FS_Injection
    <2> QED
      BY <2>3 DEF Surjection
  <1>9. ASSUME NEW i \in 1..n
        PROVE  Cardinality(Before(E, q[i].entity)) = i - 1
    <2> DEFINE h == [j \in 1..(i - 1) |-> q[j].entity]
               B == Before(E, q[i].entity)
    <2>1. \A j \in 1..(i - 1) : j \in 1..n /\ j < i
      BY <1>2
    <2>2. \A j \in 1..(i - 1) : h[j] \in B
      BY <1>4, <1>6, <2>1 DEF Before
    <2>3. \A e \in B : \E j \in 1..(i - 1) : h[j] = e
      <3> TAKE e \in B
      <3>1. e \in E /\ Rank[e] < Rank[q[i].entity]
        BY DEF Before
      <3>2. PICK j \in 1..n : q[j].entity = e
        BY <1>8, <3>1
      <3>3. ~(i < j) /\ j # i
        <4>1. ASSUME i < j
              PROVE  FALSE
          BY <1>4, <1>6, <3>1, <3>2, <4>1
        <4>2. ASSUME j = i
              PROVE  FALSE
          BY <1>6, <3>1, <3>2, <4>2
        <4> QED
          BY <4>1, <4>2
      <3>4. j \in 1..(i - 1)
        BY <1>2, <3>3
      <3> QED
        BY <3>2, <3>4
    <2>4. \A j, k \in 1..(i - 1) : h[j] = h[k] => j = k
      BY <1>7, <2>1
    <2>5. h \in Bijection(1..(i - 1), B)
      BY <2>2, <2>3, <2>4 DEF Bijection, Injection, Surjection, IsInjective
    <2>6. IsFiniteSet(1..(i - 1)) /\ Cardinality(1..(i - 1)) = i - 1
      <3>1. i \in Nat /\ i >= 1
        BY <1>2
      <3>2. 1 \in Int /\ i - 1 \in Int
        BY <3>1
      <3>3. /\ IsFiniteSet(1..(i - 1))
            /\ Cardinality(1..(i - 1)) = IF 1 > i - 1 THEN 0 ELSE (i - 1) - 1 + 1
        BY <3>2, FS_Interval
      <3> QED
        BY <3>1, <3>3
    <2>7. ExistsBijection(1..(i - 1), B)
      BY <2>5 DEF ExistsBijection
    <2> HIDE DEF B, h
    <2>8. Cardinality(B) = i - 1
      BY <2>6, <2>7, FS_Bijection
    <2> QED
      BY <2>8 DEF B
  <1> QED
    BY <1>1, <1>3, <1>9

----------------------------------------------------------------------------
(* What a client has learned. *)

Found(d) == EntitiesOf(RowsOf(d))

\* The run is over: all is found and all is answered.
Done(d) ==
    /\ Found(d) = Extract[documents[d].text]
    /\ \A t \in RowsOf(d) : t.status = "CLASSIFIED"

\* A step of DocumentResults, seen from one document.
LEMMA ResultStep ==
    ASSUME Results!Next \/ Mapped' = Mapped, NEW d \in Docs
    PROVE  \/ Mapped[d]'.run = Mapped[d].run + 1
           \/ /\ Mapped[d]'.run = Mapped[d].run /\ Mapped[d]'.text = Mapped[d].text
              /\ Mapped[d].answers \subseteq Mapped[d]'.answers
              /\ \/ Mapped[d]'.found = Mapped[d].found
                 \/ Mapped[d].found = {} /\ Mapped[d]'.found = Extract[Mapped[d].text]
  <1>1. /\ DOMAIN Mapped = Docs
        /\ \A x \in Docs : Mapped[x] = [run |-> Mapped[x].run, text |-> Mapped[x].text,
                                        found |-> Mapped[x].found, answers |-> Mapped[x].answers]
    BY DEF Mapped, ResultOf
  <1>2. PICK M, N : M = Mapped /\ N = Mapped'
    OBVIOUS
  <1>3. CASE Mapped' = Mapped
    BY <1>3
  <1>4. CASE \E x \in Docs, text \in Texts : Results!Open(x, text)
    <2>1. PICK x \in Docs, text \in Texts :
              N = [M EXCEPT ![x] = [run |-> M[x].run + 1, text |-> text, found |-> {}, answers |-> {}]]
      BY <1>2, <1>4 DEF Results!Open, Mapped
    <2> QED
      BY <1>1, <1>2, <2>1
  <1>5. CASE \E x \in Docs : Results!Find(x)
    <2>1. PICK x \in Docs : /\ M[x].found = {}
                            /\ N = [M EXCEPT ![x] = [M[x] EXCEPT !.found = Extract[M[x].text]]]
      BY <1>2, <1>5 DEF Results!Find, Mapped
    <2> QED
      BY <1>1, <1>2, <2>1
  <1>6. CASE \E x \in Docs, e \in Entities, category \in Categories : Results!Answer(x, e, category)
    <2>1. PICK x \in Docs, e \in Entities, category \in Categories :
              Results!Answer(x, e, category)
      BY <1>6
    <2>2. N = [M EXCEPT ![x] = [M[x] EXCEPT !.answers = @ \cup {<<e, category>>}]]
      BY <1>2, <2>1 DEF Results!Answer, Mapped
    <2> QED
      BY <1>1, <1>2, <2>2
  <1> QED
    BY <1>3, <1>4, <1>5, <1>6 DEF Results!Next, Results!Work

\* So to a client: runs go up; within a run what was found stays, and a run that is
\* over stays over.
LEMMA ResultsStay ==
    ASSUME TxInv, StepOK, NEW d \in Docs
    PROVE  /\ documents[d].run_version <= documents'[d].run_version
           /\ documents'[d].run_version = documents[d].run_version /\ Found(d) # {}
                => Found(d)' = Found(d)
           /\ documents'[d].run_version = documents[d].run_version /\ Done(d)
                => Found(d)' = Found(d) /\ Done(d)'
  <1>1. documents[d].run_version \in Nat /\ documents'[d].run_version \in Nat
    BY DEF TxInv, StepOK, DatabaseInv, Document
  <1>2. /\ Mapped[d].run = documents[d].run_version /\ Mapped[d]'.run = documents'[d].run_version
        /\ Mapped[d].text = documents[d].text /\ Mapped[d]'.text = documents'[d].text
        /\ Mapped[d].found = Found(d) /\ Mapped[d]'.found = Found(d)'
    BY DEF Mapped, ResultOf, Found, EntitiesOf
  <1>3. /\ Mapped[d].answers = {<<t.entity, t.classification>> :
                                   t \in {u \in RowsOf(d) : u.status = "CLASSIFIED"}}
        /\ Mapped[d]'.answers = {<<t.entity, t.classification>> :
                                   t \in {u \in RowsOf(d)' : u.status = "CLASSIFIED"}}
    BY DEF Mapped, ResultOf
  <1>4. PICK m, n : m = Mapped[d] /\ n = Mapped[d]'
    OBVIOUS
  <1>5. \/ n.run = m.run + 1
        \/ /\ n.run = m.run /\ n.text = m.text /\ m.answers \subseteq n.answers
           /\ n.found = m.found \/ (m.found = {} /\ n.found = Extract[m.text])
    BY <1>4, ResultStep DEF StepOK
  <1>6. ASSUME documents'[d].run_version = documents[d].run_version, Done(d)
        PROVE  Found(d)' = Found(d) /\ Done(d)'
    <2>1. n.text = m.text /\ m.answers \subseteq n.answers
          /\ (n.found = m.found \/ (m.found = {} /\ n.found = Extract[m.text]))
      BY <1>1, <1>2, <1>4, <1>5, <1>6
    <2>2. Found(d)' = Found(d) /\ documents'[d].text = documents[d].text
      BY <1>2, <1>4, <1>6, <2>1 DEF Done
    <2>3. ASSUME NEW t \in RowsOf(d)'
          PROVE  t.status = "CLASSIFIED"
      <3>1. t.entity \in Found(d)
        BY <2>2 DEF Found, EntitiesOf
      <3>2. PICK u \in RowsOf(d) : u.entity = t.entity
        BY <3>1 DEF Found, EntitiesOf
      <3>3. <<u.entity, u.classification>> \in m.answers
        BY <1>3, <1>4, <1>6 DEF Done
      <3>4. <<u.entity, u.classification>> \in n.answers
        BY <2>1, <3>3
      <3>5. PICK w \in RowsOf(d)' : /\ w.status = "CLASSIFIED"
                                    /\ <<w.entity, w.classification>> = <<u.entity, u.classification>>
        BY <1>3, <1>4, <3>4
      <3>6. w.entity = t.entity
        BY <3>2, <3>5
      <3>7. /\ w \in tokens' /\ t \in tokens' /\ w.document_id = d /\ t.document_id = d
            /\ w.run_version = documents'[d].run_version
            /\ t.run_version = documents'[d].run_version
        BY DEF RowsOf, StepOK, TxInv, DatabaseInv, RowsOK, OneRun
      <3>8. w = t
        BY <3>6, <3>7 DEF StepOK, TxInv, DatabaseInv, KeysOK, IdOf
      <3> QED
        BY <3>5, <3>8
    <2> QED
      BY <1>6, <2>2, <2>3 DEF Done
  <1> QED
    BY <1>1, <1>2, <1>4, <1>5, <1>6

ClientRec ==
    [request : {"none", "process", "status", "tokens"},
     code    : {0, 200, 202, 400, 404, 500},
     pc      : {"idle", "found", "paging", "listed"},
     doc     : Docs \cup {NoDoc},
     polled  : BOOLEAN,
     status  : DocStatus \cup {"NONE"},
     run     : Nat,
     total   : Nat,
     limit   : Nat,
     rows    : Seq(Token)]

OfRun(x, v) == x.rows # <<>> /\ \A i \in DOMAIN x.rows : x.rows[i].run_version = v

\* The rows read so far are not of a future run; if they are of the current one, they are
\* its first rows, and all of them when the client has read the last page.
PagesOK(x) ==
    /\ \A i \in DOMAIN x.rows : /\ x.rows[i].document_id = x.doc
                                /\ x.rows[i].run_version <= documents[x.doc].run_version
    /\ OfRun(x, documents[x.doc].run_version) =>
          /\ \A i \in DOMAIN x.rows :
                /\ x.rows[i].entity \in Found(x.doc)
                /\ Cardinality(Before(Found(x.doc), x.rows[i].entity)) = i - 1
          /\ x.pc = "listed" => Len(x.rows) = Cardinality(Found(x.doc))

\* A run that a client saw COMPLETED is over.
SeenOK(x) ==
    x.polled /\ x.status = "COMPLETED" =>
        /\ x.run <= documents[x.doc].run_version
        /\ x.run = documents[x.doc].run_version
             => Done(x.doc) /\ x.total = Cardinality(Found(x.doc))

AnsweredOK(x) ==
    /\ x.pc = "listed" /\ x.limit = 0 /\ x.polled /\ x.status = "COMPLETED" /\ OfRun(x, x.run)
    => /\ Len(x.rows) = x.total
       /\ \A i \in DOMAIN x.rows : x.rows[i].status = "CLASSIFIED"

LearnedOK(x) ==
    /\ x \in ClientRec
    /\ x.pc # "idle" \/ x.polled => x.doc \in Docs
    /\ x.pc = "idle" \/ (x.pc \in {"found", "paging"} /\ x.limit = 0) => x.rows = <<>>
    /\ PagesOK(x) /\ SeenOK(x) /\ AnsweredOK(x)

ApiInv ==
    /\ TxInv
    /\ client \in [Clients -> ClientRec]
    /\ \A c \in Clients : LearnedOK(client[c])

\* What a client knows is as true after any step of the system.
LEMMA LearnedFrame ==
    ASSUME TxInv, StepOK, NEW x, LearnedOK(x)
    PROVE  LearnedOK(x)'
  <1>1. x \in ClientRec /\ x.rows \in Seq(Token) /\ x.run \in Nat
    BY DEF LearnedOK, ClientRec
  <1>2. \A d \in Docs : documents[d].run_version \in Nat /\ documents'[d].run_version \in Nat
    BY DEF TxInv, StepOK, DatabaseInv, Document
  <1>3. SeenOK(x)'
    <2> SUFFICES ASSUME x.polled, x.status = "COMPLETED"
                 PROVE  /\ x.run <= documents'[x.doc].run_version
                        /\ x.run = documents'[x.doc].run_version
                             => Done(x.doc)' /\ x.total = Cardinality(Found(x.doc)')
      BY DEF SeenOK
    <2>1. PICK d \in Docs : d = x.doc
      BY DEF LearnedOK
    <2>2. /\ documents[d].run_version <= documents'[d].run_version
          /\ documents'[d].run_version = documents[d].run_version /\ Done(d)
                => Found(d)' = Found(d) /\ Done(d)'
      BY ResultsStay
    <2>3. /\ x.run <= documents[d].run_version
          /\ x.run = documents[d].run_version
               => Done(d) /\ x.total = Cardinality(Found(d))
      BY <2>1 DEF LearnedOK, SeenOK
    <2>4. /\ x.run <= documents'[d].run_version
          /\ x.run = documents'[d].run_version
               => Done(d)' /\ x.total = Cardinality(Found(d)')
      BY <1>1, <1>2, <2>2, <2>3
    <2> QED
      BY <2>1, <2>4
  <1>4. PagesOK(x)'
    <2>1. CASE x.rows = <<>>
      BY <2>1 DEF PagesOK, OfRun
    <2>2. CASE x.rows # <<>>
      <3>1. PICK d \in Docs : d = x.doc
        BY <2>2 DEF LearnedOK
      <3>2. /\ documents[d].run_version <= documents'[d].run_version
            /\ documents'[d].run_version = documents[d].run_version /\ Found(d) # {}
                  => Found(d)' = Found(d)
        BY ResultsStay
      <3>3. \A i \in DOMAIN x.rows : x.rows[i].run_version \in Nat
        <4>1. \A i \in DOMAIN x.rows : x.rows[i] \in Token
          BY <1>1
        <4> QED
          BY <4>1 DEF Token
      <3>4. 1 \in DOMAIN x.rows
        BY <1>1, <2>2
      <3>5. /\ \A i \in DOMAIN x.rows : /\ x.rows[i].document_id = d
                                        /\ x.rows[i].run_version <= documents[d].run_version
            /\ OfRun(x, documents[d].run_version) =>
                  /\ \A i \in DOMAIN x.rows :
                        /\ x.rows[i].entity \in Found(d)
                        /\ Cardinality(Before(Found(d), x.rows[i].entity)) = i - 1
                  /\ x.pc = "listed" => Len(x.rows) = Cardinality(Found(d))
        BY <3>1 DEF LearnedOK, PagesOK
      <3>6. \A i \in DOMAIN x.rows : x.rows[i].run_version <= documents'[d].run_version
        BY <1>2, <3>2, <3>3, <3>5
      <3>7. ASSUME OfRun(x, documents'[d].run_version)
            PROVE  OfRun(x, documents[d].run_version) /\ Found(d)' = Found(d)
        <4>1. documents'[d].run_version <= documents[d].run_version
          BY <3>4, <3>5, <3>7 DEF OfRun
        <4>2. documents'[d].run_version = documents[d].run_version
          BY <1>2, <3>2, <4>1
        <4>3. OfRun(x, documents[d].run_version)
          BY <3>7, <4>2
        <4>4. Found(d) # {}
          BY <3>4, <3>5, <4>3
        <4> QED
          BY <3>2, <4>2, <4>3, <4>4
      <3>8. /\ \A i \in DOMAIN x.rows : /\ x.rows[i].document_id = d
                                        /\ x.rows[i].run_version <= documents'[d].run_version
            /\ OfRun(x, documents'[d].run_version) =>
                  /\ \A i \in DOMAIN x.rows :
                        /\ x.rows[i].entity \in Found(d)'
                        /\ Cardinality(Before(Found(d)', x.rows[i].entity)) = i - 1
                  /\ x.pc = "listed" => Len(x.rows) = Cardinality(Found(d)')
        BY <3>5, <3>6, <3>7
      <3> QED
        BY <3>1, <3>8 DEF PagesOK, OfRun, Before
    <2> QED
      BY <2>1, <2>2
  <1> QED
    BY <1>3, <1>4 DEF LearnedOK, AnsweredOK, OfRun

----------------------------------------------------------------------------
(* Pages. *)

\* The rows of a document are one per entity, and all of its run.
LEMMA RowsAreOneEach ==
    ASSUME TxInv, NEW d \in Docs
    PROVE  /\ OneEach(RowsOf(d))
           /\ TokensForRun(tokens, d, documents[d].run_version) = RowsOf(d)
           /\ \A t \in RowsOf(d) : /\ t \in Token /\ t.document_id = d
                                   /\ t.run_version = documents[d].run_version
  <1>1. \A t \in RowsOf(d) : /\ t \in tokens /\ t.document_id = d
                             /\ t.run_version = documents[d].run_version
    BY DEF TxInv, DatabaseInv, RowsOK, OneRun, RowsOf
  <1>2. tokens \subseteq Token /\ KeysOK
    BY DEF TxInv, DatabaseInv
  <1>3. IsFiniteSet(RowsOf(d))
    BY <1>2, RowsFinite
  <1>4. \A t, u \in RowsOf(d) : t.entity = u.entity => t = u
    BY <1>1, <1>2 DEF KeysOK, IdOf
  <1>5. TokensForRun(tokens, d, documents[d].run_version) = RowsOf(d)
    BY <1>1 DEF TokensForRun, RowsOf
  <1> QED
    BY <1>1, <1>2, <1>3, <1>4, <1>5 DEF OneEach

\* A page is the part of the ordered rows behind the offset; a page that is shorter than
\* asked for is the last.
LEMMA PageRows ==
    ASSUME TxInv, NEW d \in Docs, NEW limit \in Nat, NEW offset \in Nat,
           NEW page, page = ListTokens(d, limit, offset)
    PROVE  /\ page \in Seq(Token)
           /\ \A i \in DOMAIN page :
                 /\ page[i] \in RowsOf(d) /\ page[i].entity \in Found(d)
                 /\ Cardinality(Before(Found(d), page[i].entity)) = offset + i - 1
           /\ Cardinality(Found(d)) = Cardinality(RowsOf(d)) /\ Cardinality(Found(d)) \in Nat
           /\ (limit = 0 \/ Len(page) < limit) /\ offset <= Cardinality(Found(d)) =>
                 offset + Len(page) = Cardinality(Found(d))
  <1>1. PICK R, n, q : R = RowsOf(d) /\ n = Cardinality(R) /\ q = Ordered(R)
    OBVIOUS
  <1>2. OneEach(R) /\ R \subseteq Token /\ TokensForRun(tokens, d, documents[d].run_version) = R
    BY <1>1, RowsAreOneEach DEF OneEach
  <1>3. /\ q \in [1..n -> R]
        /\ \A i \in 1..n : Cardinality(Before(Found(d), q[i].entity)) = i - 1
    BY <1>1, <1>2, OrderedPlaces DEF Found
  <1>4. n \in Nat /\ Cardinality(Found(d)) = n
    BY <1>1, <1>2, EntityCount DEF Found
  <1>5. q \in Seq(R) /\ Len(q) = n
    BY <1>3, <1>4, SeqDef
  <1>6. PICK last : last = IF limit > 0 /\ offset + limit < n THEN offset + limit ELSE n
    OBVIOUS
  <1>7. last \in Nat /\ last <= n
    BY <1>4, <1>6
  <1>8. page = SubSeq(q, offset + 1, last)
    BY <1>1, <1>2, <1>5, <1>6 DEF ListTokens
  <1>9. \A i \in (offset + 1)..last : i \in 1..n
    BY <1>4, <1>7
  <1>10. \A i \in (offset + 1)..last : q[i] \in R
    BY <1>3, <1>9
  <1>11. /\ page \in Seq(R) /\ Len(page) = IF offset + 1 <= last THEN last - (offset + 1) + 1 ELSE 0
         /\ \A i \in 1..(last - (offset + 1) + 1) : page[i] = q[offset + 1 + i - 1]
    <2>1. offset + 1 \in Int /\ last \in Int
      BY <1>7
    <2> QED
      BY <1>8, <1>10, <2>1, SubSeqProperties
  <1>12. /\ Len(page) = IF offset < last THEN last - offset ELSE 0
         /\ DOMAIN page = 1..Len(page)
         /\ \A i \in DOMAIN page : offset + i \in 1..n /\ page[i] = q[offset + i]
    <2>1. Len(page) = IF offset < last THEN last - offset ELSE 0
      BY <1>7, <1>11
    <2>2. DOMAIN page = 1..Len(page)
      BY <1>11, LenProperties
    <2>3. ASSUME NEW i \in 1..Len(page)
          PROVE  offset + i \in 1..n /\ page[i] = q[offset + i]
      <3>1. i \in Nat /\ i >= 1 /\ i <= last - offset /\ offset < last
        BY <1>7, <2>1
      <3>2. i \in 1..(last - (offset + 1) + 1) /\ offset + 1 + i - 1 = offset + i
        BY <1>7, <3>1
      <3>3. offset + i \in 1..n
        BY <1>4, <1>7, <3>1
      <3> QED
        BY <1>11, <3>2, <3>3
    <2> QED
      BY <2>1, <2>2, <2>3
  <1>13. \A i \in DOMAIN page :
            /\ page[i] \in R /\ page[i].entity \in Found(d)
            /\ Cardinality(Before(Found(d), page[i].entity)) = offset + i - 1
    <2> TAKE i \in DOMAIN page
    <2>0. i \in Nat
      BY <1>12
    <2>1. PICK k \in 1..n : k = offset + i /\ page[i] = q[k]
      BY <1>12
    <2>2. q[k] \in R /\ Cardinality(Before(Found(d), q[k].entity)) = k - 1
      BY <1>3
    <2>3. q[k].entity \in Found(d)
      BY <1>1, <2>2 DEF Found, EntitiesOf
    <2>4. k - 1 = offset + i - 1
      BY <2>0, <2>1
    <2> QED
      BY <2>1, <2>2, <2>3, <2>4
  <1>14. page \in Seq(Token)
    BY <1>2, <1>11, SeqMonotonic
  <1>15. (limit = 0 \/ Len(page) < limit) /\ offset <= n => offset + Len(page) = n
    BY <1>4, <1>6, <1>7, <1>12
  <1> QED
    BY <1>1, <1>4, <1>13, <1>14, <1>15

LEMMA ClientFields ==
    ASSUME NEW x \in ClientRec
    PROVE  x = [request |-> x.request, code |-> x.code, pc |-> x.pc, doc |-> x.doc,
                polled |-> x.polled, status |-> x.status, run |-> x.run, total |-> x.total,
                limit |-> x.limit, rows |-> x.rows]
  BY DEF ClientRec

\* The page read is put behind the rows the client has.
LEMMA ReadPageLearns ==
    ASSUME TxInv, NEW x, LearnedOK(x), x.pc = "found",
           NEW page, page = ListTokens(x.doc, x.limit, Len(x.rows)),
           NEW y \in ClientRec, y.rows = x.rows \o page,
           y.pc = IF x.limit = 0 \/ Len(page) < x.limit THEN "listed" ELSE "paging",
           y.doc = x.doc, y.polled = x.polled, y.status = x.status, y.run = x.run,
           y.total = x.total, y.limit = x.limit
    PROVE  LearnedOK(y)
  <1>1. /\ x \in ClientRec /\ x.rows \in Seq(Token) /\ x.limit \in Nat /\ x.run \in Nat
        /\ x.total \in Nat
    BY DEF LearnedOK, ClientRec
  <1>2. PICK d \in Docs, offset \in Nat : d = x.doc /\ offset = Len(x.rows)
    BY <1>1 DEF LearnedOK
  <1>3. PICK E : E = Found(d)
    OBVIOUS
  <1>4. /\ page \in Seq(Token)
        /\ \A i \in DOMAIN page : /\ page[i] \in RowsOf(d) /\ page[i].entity \in E
                                  /\ Cardinality(Before(E, page[i].entity)) = offset + i - 1
        /\ Cardinality(E) = Cardinality(RowsOf(d)) /\ Cardinality(E) \in Nat
        /\ (x.limit = 0 \/ Len(page) < x.limit) /\ offset <= Cardinality(E) =>
              offset + Len(page) = Cardinality(E)
    <2>1. PICK l \in Nat : l = x.limit
      BY <1>1
    <2>2. page = ListTokens(d, l, offset)
      BY <1>2, <2>1
    <2>3. /\ page \in Seq(Token)
          /\ \A i \in DOMAIN page :
                /\ page[i] \in RowsOf(d) /\ page[i].entity \in Found(d)
                /\ Cardinality(Before(Found(d), page[i].entity)) = offset + i - 1
          /\ Cardinality(Found(d)) = Cardinality(RowsOf(d)) /\ Cardinality(Found(d)) \in Nat
          /\ (l = 0 \/ Len(page) < l) /\ offset <= Cardinality(Found(d)) =>
                offset + Len(page) = Cardinality(Found(d))
      BY <2>2, PageRows
    <2> QED
      BY <1>3, <2>1, <2>3
  <1>5. PICK rows : rows = x.rows \o page
    OBVIOUS
  <1>6. /\ rows \in Seq(Token) /\ Len(rows) = offset + Len(page)
        /\ \A i \in 1..(offset + Len(page)) :
              rows[i] = IF i <= offset THEN x.rows[i] ELSE page[i - offset]
        /\ DOMAIN rows = 1..(offset + Len(page)) /\ DOMAIN x.rows = 1..offset
        /\ DOMAIN page = 1..Len(page) /\ Len(page) \in Nat
    <2>1. /\ DOMAIN x.rows = 1..Len(x.rows) /\ DOMAIN page = 1..Len(page) /\ Len(page) \in Nat
      BY <1>1, <1>4, LenProperties
    <2>2. /\ rows \in Seq(Token) /\ Len(rows) = Len(x.rows) + Len(page)
          /\ \A i \in 1..(Len(x.rows) + Len(page)) :
                rows[i] = IF i <= Len(x.rows) THEN x.rows[i] ELSE page[i - Len(x.rows)]
      BY <1>1, <1>4, <1>5, ConcatProperties
    <2>3. DOMAIN rows = 1..Len(rows)
      BY <2>2, LenProperties
    <2> QED
      BY <1>2, <2>1, <2>2, <2>3
  <1>7. /\ y \in ClientRec /\ y.rows = rows /\ y.doc = d /\ y.limit = x.limit
        /\ y.polled = x.polled /\ y.status = x.status /\ y.run = x.run /\ y.total = x.total
        /\ y.pc = IF x.limit = 0 \/ Len(page) < x.limit THEN "listed" ELSE "paging"
    BY <1>2, <1>5
  <1>8. \A i \in DOMAIN rows : \/ i \in 1..offset /\ rows[i] = x.rows[i]
                               \/ \E k \in 1..Len(page) : i = offset + k /\ rows[i] = page[k]
    <2> TAKE i \in DOMAIN rows
    <2>1. CASE i <= offset
      BY <1>6, <2>1
    <2>2. CASE i > offset
      <3>1. PICK k : k = i - offset
        OBVIOUS
      <3>2. i \in 1..(offset + Len(page)) /\ i \in Nat
        BY <1>6
      <3>3. k \in 1..Len(page) /\ i = offset + k /\ ~(i <= offset)
        BY <1>6, <2>2, <3>1, <3>2
      <3>4. rows[i] = page[k]
        BY <1>6, <3>1, <3>2, <3>3
      <3> QED
        BY <3>3, <3>4
    <2> QED
      BY <1>2, <1>6, <2>1, <2>2
  <1>9. \A t \in RowsOf(d) : t.document_id = d /\ t.run_version = documents[d].run_version
    BY RowsAreOneEach
  <1>10. documents[d].run_version \in Nat
    BY DEF TxInv, DatabaseInv, Document
  <1>11. /\ \A i \in 1..offset : /\ x.rows[i].document_id = d
                                 /\ x.rows[i].run_version <= documents[d].run_version
         /\ OfRun(x, documents[d].run_version) =>
               \A i \in 1..offset : /\ x.rows[i].entity \in E
                                    /\ Cardinality(Before(E, x.rows[i].entity)) = i - 1
    BY <1>2, <1>3, <1>6 DEF LearnedOK, PagesOK
  <1>12. \A i \in DOMAIN rows : /\ rows[i].document_id = d
                                /\ rows[i].run_version <= documents[d].run_version
    <2> TAKE i \in DOMAIN rows
    <2>1. CASE i \in 1..offset /\ rows[i] = x.rows[i]
      BY <1>11, <2>1
    <2>2. CASE \E k \in 1..Len(page) : i = offset + k /\ rows[i] = page[k]
      <3>1. PICK k \in DOMAIN page : rows[i] = page[k]
        BY <1>6, <2>2
      <3>2. rows[i].document_id = d /\ rows[i].run_version = documents[d].run_version
        BY <1>4, <1>9, <3>1
      <3> QED
        BY <1>10, <3>2
    <2> QED
      BY <1>8, <2>1, <2>2
  <1>13. ASSUME OfRun(y, documents[d].run_version)
         PROVE  /\ \A i \in DOMAIN rows : /\ rows[i].entity \in E
                                          /\ Cardinality(Before(E, rows[i].entity)) = i - 1
                /\ y.pc = "listed" => Len(rows) = Cardinality(E)
    <2>1. \A i \in 1..offset : x.rows[i].run_version = documents[d].run_version
      <3> TAKE i \in 1..offset
      <3>1. i \in DOMAIN rows /\ rows[i] = x.rows[i]
        <4>1. i \in 1..(offset + Len(page)) /\ i <= offset
          BY <1>6
        <4> QED
          BY <1>6, <4>1
      <3> QED
        BY <1>7, <1>13, <3>1 DEF OfRun
    <2>2. \A i \in 1..offset : /\ x.rows[i].entity \in E
                               /\ Cardinality(Before(E, x.rows[i].entity)) = i - 1
      <3>1. CASE x.rows = <<>>
        BY <1>2, <3>1
      <3>2. CASE x.rows # <<>>
        BY <1>6, <1>11, <2>1, <3>2 DEF OfRun
      <3> QED
        BY <3>1, <3>2
    <2>3. offset <= Cardinality(E)
      <3>1. CASE offset = 0
        BY <1>4, <3>1
      <3>2. CASE offset # 0
        <4>1. offset \in 1..offset
          BY <1>2, <3>2
        <4>2. PICK e : e = x.rows[offset].entity
          OBVIOUS
        <4>3. e \in E /\ Cardinality(Before(E, e)) = offset - 1
          BY <2>2, <4>1, <4>2
        <4>4. E \in SUBSET Entities
          BY <1>3, RowsAreOneEach, EntityCount DEF Found
        <4>5. Cardinality(Before(E, e)) < Cardinality(E)
          BY <4>3, <4>4, BeforeCounts
        <4> QED
          BY <1>2, <1>4, <4>3, <4>5
      <3> QED
        BY <3>1, <3>2
    <2>4. \A i \in DOMAIN rows : /\ rows[i].entity \in E
                                 /\ Cardinality(Before(E, rows[i].entity)) = i - 1
      <3> TAKE i \in DOMAIN rows
      <3>1. CASE i \in 1..offset /\ rows[i] = x.rows[i]
        BY <2>2, <3>1
      <3>2. CASE \E k \in 1..Len(page) : i = offset + k /\ rows[i] = page[k]
        <4>0. PICK k \in 1..Len(page) : i = offset + k /\ rows[i] = page[k]
          BY <3>2
        <4>1. k \in DOMAIN page /\ k \in Nat
          BY <1>6
        <4>2. page[k].entity \in E /\ Cardinality(Before(E, page[k].entity)) = offset + k - 1
          BY <1>4, <4>1
        <4>3. offset + k - 1 = i - 1
          BY <4>0, <4>1
        <4> QED
          BY <4>0, <4>2, <4>3
      <3> QED
        BY <1>8, <3>1, <3>2
    <2>5. y.pc = "listed" => Len(rows) = Cardinality(E)
      BY <1>4, <1>6, <1>7, <2>3
    <2> QED
      BY <2>4, <2>5
  <1>14. PagesOK(y)
    BY <1>3, <1>7, <1>12, <1>13 DEF PagesOK
  <1>15. SeenOK(y)
    BY <1>2, <1>7 DEF LearnedOK, SeenOK
  <1>16. ASSUME y.pc = "listed", y.limit = 0, y.polled, y.status = "COMPLETED", OfRun(y, y.run)
         PROVE  /\ Len(y.rows) = y.total
                /\ \A i \in DOMAIN y.rows : y.rows[i].status = "CLASSIFIED"
    <2>1. x.rows = <<>> /\ offset = 0
      BY <1>2, <1>7, <1>16 DEF LearnedOK
    <2>2. DOMAIN rows = DOMAIN page /\ \A i \in DOMAIN rows : rows[i] = page[i] /\ page[i] \in RowsOf(d)
      BY <1>4, <1>6, <2>1
    <2>3. 1 \in DOMAIN rows
      BY <1>6, <1>7, <1>16, <2>1 DEF OfRun
    <2>4. y.run = documents[d].run_version
      <3>1. rows[1] \in RowsOf(d)
        BY <2>2, <2>3
      <3>2. rows[1].run_version = documents[d].run_version
        BY <1>9, <3>1
      <3>3. rows[1].run_version = y.run
        BY <1>7, <1>16, <2>3 DEF OfRun
      <3> QED
        BY <3>2, <3>3
    <2>5. Done(d) /\ x.total = Cardinality(E)
      BY <1>2, <1>3, <1>7, <1>16, <2>4 DEF LearnedOK, SeenOK
    <2>6. Len(rows) = Cardinality(E)
      BY <1>4, <1>6, <1>7, <1>16, <2>1
    <2> QED
      BY <1>7, <2>2, <2>5, <2>6 DEF Done
  <1>17. AnsweredOK(y)
    BY <1>16 DEF AnsweredOK
  <1>18. /\ y.pc # "idle" \/ y.polled => y.doc \in Docs
         /\ y.pc = "idle" \/ (y.pc \in {"found", "paging"} /\ y.limit = 0) => y.rows = <<>>
    BY <1>2, <1>7
  <1> QED
    BY <1>7, <1>14, <1>15, <1>17, <1>18 DEF LearnedOK

----------------------------------------------------------------------------
(* The steps of the api. *)

\* A client that has read no row and seen nothing COMPLETED has nothing to get wrong.
LEMMA NoRows ==
    ASSUME NEW x \in ClientRec, x.rows = <<>>, x.pc # "listed", SeenOK(x),
           x.pc # "idle" \/ x.polled => x.doc \in Docs
    PROVE  LearnedOK(x)
  BY DEF LearnedOK, PagesOK, AnsweredOK, OfRun

LEMMA FreshOK ==
    ASSUME NEW request \in {"none", "process", "status", "tokens"},
           NEW code \in {0, 200, 202, 400, 404, 500},
           NEW x, x = [request |-> request, code |-> code, pc |-> "idle", doc |-> NoDoc,
                       polled |-> FALSE, status |-> "NONE", run |-> 0, total |-> 0,
                       limit |-> 0, rows |-> <<>>]
    PROVE  LearnedOK(x)
  <1>1. /\ x.rows = <<>> /\ x.pc = "idle" /\ x.polled = FALSE
    OBVIOUS
  <1>2. x \in ClientRec
    BY DEF ClientRec
  <1>3. SeenOK(x)
    BY <1>1 DEF SeenOK
  <1> QED
    BY <1>1, <1>2, <1>3, NoRows

LEMMA AnswerOK ==
    ASSUME NEW code \in {0, 200, 202, 400, 404, 500}
    PROVE  LearnedOK(Answer(code)) /\ LearnedOK(Fresh)
  <1>a. PICK x : x = Answer(code)
    OBVIOUS
  <1>b. x = [Fresh EXCEPT !.request = "process", !.code = code]
    BY <1>a DEF Answer
  <1>1. x = [request |-> "process", code |-> code, pc |-> "idle", doc |-> NoDoc,
             polled |-> FALSE, status |-> "NONE", run |-> 0, total |-> 0,
             limit |-> 0, rows |-> <<>>]
    BY <1>b DEF Fresh
  <1>2. Fresh = [request |-> "none", code |-> 0, pc |-> "idle", doc |-> NoDoc,
                 polled |-> FALSE, status |-> "NONE", run |-> 0, total |-> 0,
                 limit |-> 0, rows |-> <<>>]
    BY DEF Fresh
  <1>3. LearnedOK(x) /\ LearnedOK(Fresh)
    BY <1>1, <1>2, FreshOK
  <1> QED
    BY <1>a, <1>3

\* What GET /status says of a document that is there.
LEMMA StatusLearns ==
    ASSUME TxInv, NEW d \in Docs, Exists(d),
           NEW x, x = [request |-> "status", code |-> 200, pc |-> "idle", doc |-> d,
                       polled |-> TRUE, status |-> documents[d].status,
                       run |-> documents[d].run_version, total |-> documents[d].total_tokens,
                       limit |-> 0, rows |-> <<>>]
    PROVE  LearnedOK(x)
  <1>1. /\ x.rows = <<>> /\ x.pc = "idle" /\ x.doc = d /\ x.status = documents[d].status
        /\ x.run = documents[d].run_version /\ x.total = documents[d].total_tokens
    OBVIOUS
  <1>2. documents[d] \in Document /\ RowsOK(d)
    BY DEF TxInv, DatabaseInv
  <1>3. x \in ClientRec
    BY <1>2 DEF ClientRec, Document
  <1>4. ASSUME documents[d].status = "COMPLETED"
        PROVE  Done(d) /\ documents[d].total_tokens = Cardinality(Found(d))
    <2>1. /\ documents[d].total_tokens = Cardinality(RowsOf(d)) /\ ClassifiedRows(d) = RowsOf(d)
          /\ {t.entity : t \in RowsOf(d)} = Extract[documents[d].text]
      BY <1>2, <1>4 DEF RowsOK, CountsOK, FoundOK
    <2>2. Cardinality(Found(d)) = Cardinality(RowsOf(d))
      BY RowsAreOneEach, EntityCount DEF Found
    <2>3. \A t \in RowsOf(d) : t.status = "CLASSIFIED"
      BY <2>1 DEF ClassifiedRows
    <2> QED
      BY <2>1, <2>2, <2>3 DEF Done, Found, EntitiesOf
  <1>5. SeenOK(x)
    BY <1>1, <1>2, <1>4 DEF SeenOK, Document
  <1> QED
    BY <1>1, <1>3, <1>5, NoRows

\* The clients' part of a step.
LEMMA LearnKeeps ==
    ASSUME ApiInv, StepOK, NEW c \in Clients, NEW reply, LearnedOK(reply), Learn(c, reply)
    PROVE  ApiInv'
  <1>1. TxInv /\ client \in [Clients -> ClientRec] /\ TxInv' /\ reply \in ClientRec
    BY DEF ApiInv, StepOK, LearnedOK
  <1>2. client' = [client EXCEPT ![c] = reply]
    BY DEF Learn
  <1>3. client' \in [Clients -> ClientRec]
    BY <1>1, <1>2
  <1>4. ASSUME NEW k \in Clients
        PROVE  LearnedOK(client[k])'
    <2>1. PICK x : x = client'[k]
      OBVIOUS
    <2>2. LearnedOK(x)
      <3>1. CASE k = c
        BY <1>1, <1>2, <2>1, <3>1
      <3>2. CASE k # c
        <4>1. x = client[k]
          BY <1>1, <1>2, <2>1, <3>2
        <4> QED
          BY <4>1 DEF ApiInv
      <3> QED
        BY <3>1, <3>2
    <2>3. LearnedOK(x)'
      BY <1>1, <2>2, LearnedFrame
    <2> QED
      BY <2>1, <2>3
  <1> QED
    BY <1>1, <1>3, <1>4 DEF ApiInv

LEMMA ClientsKeep ==
    ASSUME ApiInv, StepOK, UNCHANGED client
    PROVE  ApiInv'
  <1>1. TxInv /\ TxInv' /\ client' \in [Clients -> ClientRec]
    BY DEF ApiInv, StepOK
  <1>2. ASSUME NEW k \in Clients
        PROVE  LearnedOK(client[k])'
    <2>1. PICK x : x = client[k]
      OBVIOUS
    <2>2. LearnedOK(x)
      BY <2>1 DEF ApiInv
    <2>3. LearnedOK(x)'
      BY <1>1, <2>2, LearnedFrame
    <2> QED
      BY <2>1, <2>3
  <1> QED
    BY <1>1, <1>2 DEF ApiInv

\* POST /process.
LEMMA ProcessStepOK ==
    ASSUME ApiInv, StepOK, NEW c \in Clients, ProcessStep(c)
    PROVE  ApiInv'
  <1>1. CASE \E req \in Requests : Refuse(c, req) \/ Post(c, req)
    BY <1>1, AnswerOK, LearnKeeps DEF Refuse, Post
  <1>2. CASE Submitting(c)
    BY <1>2, ClientsKeep DEF Submitting
  <1>3. CASE Submitted(c) \/ SubmitFails(c)
    BY <1>3, AnswerOK, LearnKeeps DEF Submitted, SubmitFails
  <1> QED
    BY <1>1, <1>2, <1>3 DEF ProcessStep

\* GET /documents/{id}/status.
LEMMA GetStatusOK ==
    ASSUME ApiInv, StepOK, NEW c \in Clients, NEW d \in Docs, GetStatus(c, d)
    PROVE  ApiInv'
  <1>1. CASE Exists(d)
    <2>1. PICK x : x = [Fresh EXCEPT !.request = "status", !.code = 200, !.doc = d,
                                     !.polled = TRUE, !.status = documents[d].status,
                                     !.run = documents[d].run_version,
                                     !.total = documents[d].total_tokens]
      OBVIOUS
    <2>2. x = [request |-> "status", code |-> 200, pc |-> "idle", doc |-> d,
               polled |-> TRUE, status |-> documents[d].status,
               run |-> documents[d].run_version, total |-> documents[d].total_tokens,
               limit |-> 0, rows |-> <<>>]
      BY <2>1 DEF Fresh
    <2>3. Learn(c, x)
      BY <1>1, <2>1 DEF GetStatus
    <2>4. LearnedOK(x)
      BY <1>1, <2>2, StatusLearns DEF ApiInv
    <2> QED
      BY <2>3, <2>4, LearnKeeps
  <1>2. CASE ~Exists(d)
    <2>1. PICK x : x = [Fresh EXCEPT !.request = "status", !.code = MissingCode]
      OBVIOUS
    <2>2. x = [request |-> "status", code |-> 500, pc |-> "idle", doc |-> NoDoc,
               polled |-> FALSE, status |-> "NONE", run |-> 0, total |-> 0,
               limit |-> 0, rows |-> <<>>]
      BY <2>1 DEF Fresh, MissingCode
    <2>3. Learn(c, x)
      BY <1>2, <2>1 DEF GetStatus
    <2>4. LearnedOK(x)
      BY <2>2, FreshOK
    <2> QED
      BY <2>3, <2>4, LearnKeeps
  <1> QED
    BY <1>1, <1>2

\* The first query of GET /documents/{id}/tokens.
LEMMA LookUpDocumentOK ==
    ASSUME ApiInv, StepOK, NEW c \in Clients, NEW d \in Docs, NEW limit \in Limits,
           LookUpDocument(c, d, limit)
    PROVE  ApiInv'
  <1>1. CASE Exists(d)
    <2>1. PICK x : x = client[c]
      OBVIOUS
    <2>2. x \in ClientRec /\ LearnedOK(x) /\ x.pc = "idle" /\ (x.polled => x.doc = d)
      BY <2>1 DEF ApiInv, LookUpDocument
    <2>3. PICK y : y = [x EXCEPT !.request = "tokens", !.code = 0, !.pc = "found",
                                 !.doc = d, !.limit = limit]
      OBVIOUS
    <2>4. y = [request |-> "tokens", code |-> 0, pc |-> "found", doc |-> d,
               polled |-> x.polled, status |-> x.status, run |-> x.run, total |-> x.total,
               limit |-> limit, rows |-> x.rows]
      <3>1. x = [request |-> x.request, code |-> x.code, pc |-> x.pc, doc |-> x.doc,
                 polled |-> x.polled, status |-> x.status, run |-> x.run, total |-> x.total,
                 limit |-> x.limit, rows |-> x.rows]
        BY <2>2, ClientFields
      <3> QED
        BY <2>3, <3>1
    <2>5. /\ y.rows = x.rows /\ y.pc = "found" /\ y.doc = d /\ y.polled = x.polled
          /\ y.status = x.status /\ y.run = x.run /\ y.total = x.total
      BY <2>4
    <2>6. y \in ClientRec
      <3>1. limit \in Nat
        BY ApiAssumption
      <3> QED
        BY <2>2, <2>4, <3>1 DEF ClientRec
    <2>7. x.rows = <<>> /\ SeenOK(y)
      BY <2>2, <2>5 DEF LearnedOK, SeenOK
    <2>8. LearnedOK(y)
      BY <2>5, <2>6, <2>7, NoRows
    <2>9. Learn(c, y)
      BY <1>1, <2>1, <2>3 DEF LookUpDocument
    <2> QED
      BY <2>8, <2>9, LearnKeeps
  <1>2. CASE ~Exists(d)
    <2>1. PICK x : x = [Fresh EXCEPT !.request = "tokens", !.code = MissingCode]
      OBVIOUS
    <2>2. x = [request |-> "tokens", code |-> 500, pc |-> "idle", doc |-> NoDoc,
               polled |-> FALSE, status |-> "NONE", run |-> 0, total |-> 0,
               limit |-> 0, rows |-> <<>>]
      BY <2>1 DEF Fresh, MissingCode
    <2>3. Learn(c, x)
      BY <1>2, <2>1 DEF LookUpDocument
    <2>4. LearnedOK(x)
      BY <2>2, FreshOK
    <2> QED
      BY <2>3, <2>4, LearnKeeps
  <1> QED
    BY <1>1, <1>2

\* Its second query, and the request for the next page.
LEMMA ReadPageOK ==
    ASSUME ApiInv, StepOK, NEW c \in Clients, ReadPage(c)
    PROVE  ApiInv'
  <1>1. PICK x : x = client[c]
    OBVIOUS
  <1>2. PICK page : page = ListTokens(x.doc, x.limit, Len(x.rows))
    OBVIOUS
  <1>3. PICK pc : pc = IF x.limit = 0 \/ Len(page) < x.limit THEN "listed" ELSE "paging"
    OBVIOUS
  <1>4. PICK rows : rows = x.rows \o page
    OBVIOUS
  <1>5. PICK y : y = [x EXCEPT !.code = 200, !.pc = pc, !.rows = rows]
    OBVIOUS
  <1>6. Learn(c, y) /\ x.pc = "found"
    BY <1>1, <1>2, <1>3, <1>4, <1>5 DEF ReadPage
  <1>7. x \in ClientRec /\ LearnedOK(x) /\ TxInv /\ x.doc \in Docs
    BY <1>1, <1>6 DEF ApiInv, LearnedOK
  <1>8. rows \in Seq(Token)
    <2>1. PICK d \in Docs, limit \in Nat, offset \in Nat :
              d = x.doc /\ limit = x.limit /\ offset = Len(x.rows)
      BY <1>7 DEF ClientRec
    <2>2. page = ListTokens(d, limit, offset)
      BY <1>2, <2>1
    <2>3. page \in Seq(Token)
      BY <1>7, <2>2, PageRows
    <2>4. x.rows \in Seq(Token)
      BY <1>7 DEF ClientRec
    <2> QED
      BY <1>4, <2>3, <2>4, ConcatProperties
  <1>9. y = [request |-> x.request, code |-> 200, pc |-> pc, doc |-> x.doc,
             polled |-> x.polled, status |-> x.status, run |-> x.run, total |-> x.total,
             limit |-> x.limit, rows |-> rows]
    <2>1. x = [request |-> x.request, code |-> x.code, pc |-> x.pc, doc |-> x.doc,
               polled |-> x.polled, status |-> x.status, run |-> x.run, total |-> x.total,
               limit |-> x.limit, rows |-> x.rows]
      BY <1>7, ClientFields
    <2> QED
      BY <1>5, <2>1
  <1>10. /\ y.rows = rows /\ y.pc = pc /\ y.doc = x.doc /\ y.polled = x.polled
         /\ y.status = x.status /\ y.run = x.run /\ y.total = x.total /\ y.limit = x.limit
    BY <1>9
  <1>11. y \in ClientRec
    <2>1. pc \in {"idle", "found", "paging", "listed"}
      BY <1>3
    <2> QED
      BY <1>7, <1>8, <1>9, <2>1 DEF ClientRec
  <1>12. /\ y.rows = x.rows \o page
         /\ y.pc = IF x.limit = 0 \/ Len(page) < x.limit THEN "listed" ELSE "paging"
    BY <1>3, <1>4, <1>10
  <1>13. LearnedOK(y)
    BY <1>2, <1>6, <1>7, <1>10, <1>11, <1>12, ReadPageLearns
  <1> QED
    BY <1>6, <1>13, LearnKeeps

LEMMA NextPageOK ==
    ASSUME ApiInv, StepOK, NEW c \in Clients, NextPage(c)
    PROVE  ApiInv'
  <1>1. PICK x : x = client[c]
    OBVIOUS
  <1>2. x \in ClientRec /\ LearnedOK(x) /\ x.pc = "paging"
    BY <1>1 DEF ApiInv, NextPage
  <1>3. PICK y : y = [x EXCEPT !.code = 0, !.pc = "found"]
    OBVIOUS
  <1>4. y = [request |-> x.request, code |-> 0, pc |-> "found", doc |-> x.doc,
             polled |-> x.polled, status |-> x.status, run |-> x.run, total |-> x.total,
             limit |-> x.limit, rows |-> x.rows]
    <2>1. x = [request |-> x.request, code |-> x.code, pc |-> x.pc, doc |-> x.doc,
               polled |-> x.polled, status |-> x.status, run |-> x.run, total |-> x.total,
               limit |-> x.limit, rows |-> x.rows]
      BY <1>2, ClientFields
    <2> QED
      BY <1>3, <2>1
  <1>5. /\ y.rows = x.rows /\ y.pc = "found" /\ y.doc = x.doc /\ y.polled = x.polled
        /\ y.status = x.status /\ y.run = x.run /\ y.total = x.total /\ y.limit = x.limit
    BY <1>4
  <1>6. y \in ClientRec
    BY <1>2, <1>4 DEF ClientRec
  <1>7. LearnedOK(y)
    BY <1>2, <1>5, <1>6 DEF LearnedOK, PagesOK, SeenOK, AnsweredOK, OfRun
  <1>8. Learn(c, y)
    BY <1>1, <1>3 DEF NextPage
  <1> QED
    BY <1>7, <1>8, LearnKeeps

LEMMA ApiNextIsSystem ==
    ASSUME ApiNext
    PROVE  SystemNext \/ UNCHANGED vars
  <1>1. /\ Clients \subseteq Sessions /\ Readers \subseteq Clients
        /\ Extractors \cup Classifiers \subseteq Sessions
    BY ApiAssumption DEF Sessions
  <1>2. ASSUME NEW c \in Clients, ProcessStep(c)
        PROVE  SystemNext \/ UNCHANGED vars
    <2>1. ASSUME NEW req \in Requests, Post(c, req)
          PROVE  Begin(c)
      <3>1. req.document_id \in Docs /\ req.text \in Texts
        BY <2>1 DEF Post, Requests
      <3>2. PICK full \in BOOLEAN : full = RerunIsFull(req.mode)
        BY DEF RerunIsFull
      <3>3. BeginSubmit(c, req.document_id, req.text, full)
        BY <2>1, <3>2 DEF Post
      <3> QED
        BY <3>1, <3>3 DEF Begin
    <2>2. ASSUME NEW req \in Requests, Refuse(c, req)
          PROVE  UNCHANGED vars
      BY <2>2 DEF Refuse
    <2>3. ASSUME Submitting(c) \/ Submitted(c) \/ SubmitFails(c)
          PROVE  Statement(c) \/ AbortDeadlocked(c) \/ Fail(c)
      BY <2>3 DEF Submitting, Submitted, SubmitFails, Statement
    <2> QED
      BY <1>1, <1>2, <2>1, <2>2, <2>3 DEF ProcessStep, SystemNext
  <1>3. ASSUME NEW c \in Clients, ReaderStep(c)
        PROVE  UNCHANGED vars
    BY <1>3 DEF ReaderStep, GetStatus, LookUpDocument, ReadPage, NextPage
  <1>4. ASSUME NEW s \in Extractors \cup Classifiers, WorkerStep(s)
        PROVE  SystemNext
    BY <1>1, <1>4 DEF WorkerStep, SystemNext, Begin
  <1> QED
    BY <1>1, <1>2, <1>3, <1>4 DEF ApiNext, SystemNext

LEMMA ApiStep ==
    ASSUME ApiInv, ApiNext \/ UNCHANGED apiVars
    PROVE  ApiInv'
  <1>1. StepOK
    <2>1. SystemNext \/ UNCHANGED vars
      BY ApiNextIsSystem DEF apiVars
    <2> QED
      BY <2>1, SystemStep DEF ApiInv
  <1>2. CASE \E c \in Clients : ProcessStep(c)
    BY <1>1, <1>2, ProcessStepOK
  <1>3. CASE \E c \in Readers : ReaderStep(c)
    <2>1. PICK c \in Clients : ReaderStep(c)
      BY <1>3, ApiAssumption
    <2> QED
      BY <1>1, <2>1, GetStatusOK, LookUpDocumentOK, ReadPageOK, NextPageOK DEF ReaderStep
  <1>4. CASE UNCHANGED client
    BY <1>1, <1>4, ClientsKeep
  <1> QED
    BY <1>2, <1>3, <1>4 DEF ApiNext, apiVars

LEMMA ApiInvHolds == ApiSpec => []ApiInv
  <1>1. ASSUME ApiInit
        PROVE  ApiInv
    <2>1. Init /\ client = [c \in Clients |-> Fresh]
      BY <1>1 DEF ApiInit
    <2>2. LearnedOK(Fresh)
      BY AnswerOK
    <2>3. Fresh \in ClientRec
      BY <2>2 DEF LearnedOK
    <2> QED
      BY <2>1, <2>2, <2>3, TxInit DEF ApiInv
  <1>2. ApiInv /\ [ApiNext]_apiVars => ApiInv'
    BY ApiStep
  <1> QED
    BY <1>1, <1>2, PTL DEF ApiSpec

----------------------------------------------------------------------------
(* The api. *)

\* Type correctness of the api: the codes and rows that POST /process, GET /status and
\* GET /tokens answer (internal/api/handlers.go).
THEOREM ApiTypeCorrect == ApiSpec => []ApiTypeOK
  <1>1. TxInv => TypeOK
    BY DEF TxInv, TypeOK, DatabaseInv, OutboxOK, StoreTypeOK, TimesType
  <1>2. ASSUME ApiInv, NEW c \in Clients
        PROVE  /\ client[c].request \in {"none", "process", "status", "tokens"}
               /\ client[c].code \in {0, 200, 202, 400, 404, 500}
               /\ client[c].pc \in {"idle", "found", "paging", "listed"}
               /\ client[c].doc \in Docs \cup {NoDoc}
               /\ client[c].status \in DocStatus \cup {"NONE"}
               /\ client[c].rows \in Seq(Token)
    <2>1. client[c] \in ClientRec
      BY <1>2 DEF ApiInv
    <2> QED
      BY <2>1 DEF ClientRec
  <1>3. ApiInv => ApiTypeOK
    BY <1>1, <1>2 DEF ApiInv, ApiTypeOK
  <1> QED
    BY <1>3, ApiInvHolds, PTL

\* A client that pages through GET /tokens with any limits, while the workers and other
\* requests go on, has every token of the run exactly once, unless a rerun came between
\* (ListTokens in store/tokens.go: ORDER BY id over rows that persist writes at once).
THEOREM PagesExact == ApiSpec => []PagesAreExact
  <1>1. ASSUME ApiInv, NEW c \in Clients, client[c].pc = "listed",
               RowsAreOfRun(c, documents[client[c].doc].run_version)
        PROVE  /\ {IdOf(client[c].rows[i]) : i \in DOMAIN client[c].rows}
                    = {IdOf(t) : t \in RowsOf(client[c].doc)}
               /\ Len(client[c].rows) = Cardinality(RowsOf(client[c].doc))
    <2>1. PICK x, rows : x = client[c] /\ rows = x.rows
      OBVIOUS
    <2>2. LearnedOK(x) /\ x \in ClientRec /\ TxInv /\ x.pc = "listed"
      BY <1>1, <2>1 DEF ApiInv
    <2>3. PICK d, v : d \in Docs /\ d = x.doc /\ v = documents[d].run_version
      BY <2>2 DEF LearnedOK
    <2>4. OfRun(x, v)
      BY <1>1, <2>1, <2>3 DEF OfRun, RowsAreOfRun
    <2>5. PICK E, n : E = Found(d) /\ n = Cardinality(E)
      OBVIOUS
    <2>6. rows \in Seq(Token) /\ DOMAIN rows = 1..Len(rows)
      BY <2>1, <2>2, LenProperties DEF ClientRec
    <2>7. /\ Len(rows) = n
          /\ \A i \in DOMAIN rows : /\ rows[i].document_id = d /\ rows[i].run_version = v
                                    /\ rows[i].entity \in E
                                    /\ Cardinality(Before(E, rows[i].entity)) = i - 1
      BY <2>1, <2>2, <2>3, <2>4, <2>5 DEF LearnedOK, PagesOK, OfRun
    <2>8. /\ E \in SUBSET Entities /\ n \in Nat /\ n = Cardinality(RowsOf(d))
          /\ \A t \in RowsOf(d) : t.document_id = d /\ t.run_version = v
          /\ E = {t.entity : t \in RowsOf(d)}
      BY <2>2, <2>3, <2>5, RowsAreOneEach, EntityCount DEF Found, EntitiesOf
    <2>9. \A e \in E : \E i \in 1..n : rows[i].entity = e
      <3> DEFINE f == [i \in 1..n |-> rows[i].entity]
      <3>1. \A i, j \in 1..n : f[i] = f[j] => i = j
        <4> SUFFICES ASSUME NEW i \in 1..n, NEW j \in 1..n, rows[i].entity = rows[j].entity
                     PROVE  i = j
          OBVIOUS
        <4>1. i - 1 = j - 1
          BY <2>6, <2>7
        <4> QED
          BY <2>8, <4>1
      <3>2. f \in Injection(1..n, E)
        BY <2>6, <2>7, <3>1 DEF Injection, IsInjective
      <3>3. IsFiniteSet(E) /\ Cardinality(1..n) = n
        <4>1. IsFiniteSet(E)
          BY <2>8, EntitiesAssumption, FS_Subset
        <4>2. n \in Nat /\ n \in Int /\ 1 \in Int
          BY <2>8
        <4>3. Cardinality(1..n) = IF 1 > n THEN 0 ELSE n - 1 + 1
          BY <4>2, FS_Interval
        <4>4. Cardinality(1..n) = n
          BY <4>2, <4>3
        <4> QED
          BY <4>1, <4>4
      <3>4. f \in Surjection(1..n, E)
        <4> HIDE DEF f
        <4> QED
          BY <2>5, <3>2, <3>3, FS_Injection
      <3> QED
        BY <3>4 DEF Surjection
    <2>10. \A i \in DOMAIN rows : \E t \in RowsOf(d) : IdOf(t) = IdOf(rows[i])
      BY <2>7, <2>8 DEF IdOf
    <2>11. \A t \in RowsOf(d) : \E i \in DOMAIN rows : IdOf(t) = IdOf(rows[i])
      <3> TAKE t \in RowsOf(d)
      <3>1. t.entity \in E
        BY <2>8
      <3>2. PICK i \in 1..n : rows[i].entity = t.entity
        BY <2>9, <3>1
      <3> QED
        BY <2>6, <2>7, <2>8, <3>2 DEF IdOf
    <2>12. {IdOf(rows[i]) : i \in DOMAIN rows} = {IdOf(t) : t \in RowsOf(d)}
      BY <2>10, <2>11
    <2> QED
      BY <2>1, <2>3, <2>7, <2>8, <2>12
  <1>2. ApiInv => PagesAreExact
    BY <1>1 DEF PagesAreExact
  <1> QED
    BY <1>2, ApiInvHolds, PTL

\* A client that saw COMPLETED and then lists the tokens of that run gets as many as the
\* status said (total_tokens), all answered, for any number of workers and however often
\* jobs are delivered: a second persist may move the status back, never the results.
THEOREM CompletedAnswered == ApiSpec => []CompletedMeansAnswered
  <1>1. ASSUME ApiInv, NEW c \in Clients
        PROVE  AnsweredOK(client[c])
    BY <1>1 DEF ApiInv, LearnedOK
  <1>2. ApiInv => CompletedMeansAnswered
    BY <1>1 DEF CompletedMeansAnswered, AnsweredOK, OfRun, RowsAreOfRun
  <1> QED
    BY <1>2, ApiInvHolds, PTL

----------------------------------------------------------------------------
(* Durations. *)

AfterExtraction == {"CLASSIFYING", "COMPLETED"}
Started == {"EXTRACTING"} \cup AfterExtraction

PersistStamps == {"extraction_completed_at", "classification_started_at"}

\* The status says which columns are stamped, but for the end of classification: a second
\* persist takes COMPLETED back and leaves it.  Only a document whose extraction is over
\* has token rows.
StageOK(d) ==
    /\ documents[d].status \in {"NONE", "PENDING"} \cup Started
    /\ documents[d].status \in {"NONE", "PENDING"} => documents[d].stamped = {}
    /\ documents[d].status = "EXTRACTING" =>
          documents[d].stamped = {"extraction_started_at"}
    /\ documents[d].status \in AfterExtraction =>
          {"extraction_started_at"} \cup PersistStamps \subseteq documents[d].stamped
    /\ RowsOf(d) # {} => documents[d].status \in AfterExtraction

\* Nothing is stamped in the future or ends before the extraction begins, and persist
\* stamps both its columns with the same time.
StampsOK(d) ==
    /\ \A x \in Stamps : times[d][x] <= clock
    /\ documents[d].status \in AfterExtraction =>
          /\ times[d]["extraction_started_at"] <= times[d]["extraction_completed_at"]
          /\ times[d]["classification_started_at"] = times[d]["extraction_completed_at"]
    /\ "classification_completed_at" \in documents[d].stamped =>
          times[d]["extraction_started_at"] <= times[d]["classification_completed_at"]

\* The document of an extractor's snapshot has begun its extraction, unless the snapshot
\* is stale; another persist may have ended it.  This persist began after that.
ExtractingOK(x) ==
    x.pc \in {"extracting", "persist"} =>
        (x.run_version = documents[x.doc].run_version =>
           /\ documents[x.doc].status \in Started
           /\ x.pc = "persist" => times[x.doc]["extraction_started_at"] <= x.now)

\* The extraction of the document of a classifier's token is over, unless the token is
\* stale, and it began before this apply.
ClassifyingOK(x) ==
    x.pc \in {"classifying", "token", "document"} =>
        /\ x.run_version <= documents[x.doc].run_version
        /\ x.run_version = documents[x.doc].run_version =>
              /\ documents[x.doc].status \in AfterExtraction
              /\ x.pc # "classifying" => times[x.doc]["extraction_started_at"] <= x.now

TimeInv ==
    /\ TxInv
    /\ \A d \in Docs : StageOK(d) /\ StampsOK(d)
    /\ \A s \in Sessions : ExtractingOK(tx[s]) /\ ClassifyingOK(tx[s])

\* Within a run no step takes a document back to before its extraction, or, once that is
\* over, back into it; and the extraction begins once.
KeepsStage(d) ==
    /\ documents[d].run_version <= documents'[d].run_version
    /\ documents'[d].run_version = documents[d].run_version /\ documents[d].status \in Started =>
           /\ documents'[d].status \in Started
           /\ documents[d].status \in AfterExtraction => documents'[d].status \in AfterExtraction
           /\ times'[d]["extraction_started_at"] = times[d]["extraction_started_at"]

\* A session that takes no step is still in order.
LEMMA TimeFrame ==
    ASSUME NEW x, NEW locks, SessionOK(x, locks), ExtractingOK(x), ClassifyingOK(x),
           documents \in [Docs -> Document], documents' \in [Docs -> Document],
           \A d \in Docs : KeepsStage(d)
    PROVE  ExtractingOK(x)' /\ ClassifyingOK(x)'
  <1>1. PICK d : d = x.doc
    OBVIOUS
  <1>2. ASSUME x.pc \in {"extracting", "persist"}
        PROVE  ExtractingOK(x)'
    <2>1. d \in Docs /\ x.run_version \in Nat /\ x.run_version <= documents[d].run_version
      BY <1>1, <1>2 DEF SessionOK, SnapshotOK, Session
    <2>2. documents[d].run_version \in Nat /\ documents'[d].run_version \in Nat
      BY <2>1 DEF Document
    <2>3. KeepsStage(d)
      BY <2>1
    <2>4. ASSUME x.run_version = documents'[d].run_version
          PROVE  /\ documents'[d].status \in Started
                 /\ x.pc = "persist" => times'[d]["extraction_started_at"] <= x.now
      <3>1. /\ x.run_version = documents[d].run_version
            /\ documents'[d].run_version = documents[d].run_version
        BY <2>1, <2>2, <2>3, <2>4 DEF KeepsStage
      <3>2. /\ documents[d].status \in Started
            /\ x.pc = "persist" => times[d]["extraction_started_at"] <= x.now
        BY <1>1, <1>2, <3>1 DEF ExtractingOK
      <3> QED
        BY <2>3, <3>1, <3>2 DEF KeepsStage
    <2> QED
      BY <1>1, <2>4 DEF ExtractingOK
  <1>3. ASSUME x.pc \in {"classifying", "token", "document"}
        PROVE  ClassifyingOK(x)'
    <2>1. d \in Docs /\ x.run_version \in Nat
      BY <1>1, <1>3 DEF SessionOK, ApplyOK, Session
    <2>2. documents[d].run_version \in Nat /\ documents'[d].run_version \in Nat
      BY <2>1 DEF Document
    <2>3. KeepsStage(d)
      BY <2>1
    <2> QED
      BY <1>1, <1>3, <2>1, <2>2, <2>3 DEF ClassifyingOK, KeepsStage, Started
  <1> QED
    BY <1>2, <1>3 DEF ExtractingOK, ClassifyingOK

\* One session steps.
LEMMA TimeStep ==
    ASSUME TimeInv, TxInv', NEW s \in Sessions, NEW next, tx' = [tx EXCEPT ![s] = next],
           \A d \in Docs : KeepsStage(d) /\ StageOK(d)' /\ StampsOK(d)',
           ExtractingOK(next)', ClassifyingOK(next)'
    PROVE  TimeInv'
  <1>1. ASSUME NEW r \in Sessions
        PROVE  ExtractingOK(tx[r])' /\ ClassifyingOK(tx[r])'
    <2>1. CASE r = s
      <3>1. tx'[r] = next
        BY <2>1 DEF TimeInv, TxInv
      <3> QED
        BY <3>1
    <2>2. CASE r # s
      <3>1. PICK x, l : x = tx[r] /\ l = held[r]
        OBVIOUS
      <3>2. tx'[r] = x
        BY <2>2, <3>1 DEF TimeInv, TxInv
      <3>3. /\ SessionOK(x, l) /\ ExtractingOK(x) /\ ClassifyingOK(x)
            /\ documents \in [Docs -> Document] /\ documents' \in [Docs -> Document]
        BY <3>1 DEF TimeInv, TxInv, DatabaseInv
      <3>4. ExtractingOK(x)' /\ ClassifyingOK(x)'
        BY <3>3, TimeFrame
      <3> QED
        BY <3>2, <3>4
    <2> QED
      BY <2>1, <2>2
  <1> QED
    BY <1>1 DEF TimeInv

\* A session steps and writes no table.
LEMMA QuietTime ==
    ASSUME TimeInv, TxInv', NEW s \in Sessions, NEW next, tx' = [tx EXCEPT ![s] = next],
           UNCHANGED <<storeVars, clock, times>>, ExtractingOK(next), ClassifyingOK(next)
    PROVE  TimeInv'
  <1>1. UNCHANGED <<documents, tokens, clock, times>>
    BY DEF storeVars
  <1>2. \A d \in Docs : StageOK(d)' /\ StampsOK(d)'
    BY <1>1 DEF TimeInv, StageOK, StampsOK, RowsOf
  <1>3. \A d \in Docs : KeepsStage(d)
    BY <1>1 DEF KeepsStage, TimeInv, TxInv, DatabaseInv, Document
  <1>4. ExtractingOK(next)' /\ ClassifyingOK(next)'
    BY <1>1 DEF ExtractingOK, ClassifyingOK
  <1> QED
    BY <1>2, <1>3, <1>4, TimeStep

\* A session that neither extracts nor classifies has nothing to show.
LEMMA NoStage ==
    ASSUME NEW x, x.pc \in {"idle", "select", "insert", "delete", "claim"}
    PROVE  /\ ExtractingOK(x) /\ ClassifyingOK(x)
           /\ ExtractingOK(x)' /\ ClassifyingOK(x)'
  BY DEF ExtractingOK, ClassifyingOK

\* A session writes one document and commits.
LEMMA CommitTime ==
    ASSUME TimeInv, TxInv', NEW s \in Sessions, NEW next, EndTx(s, next), UNCHANGED clock,
           NEW d \in Docs,
           \A x \in Docs \ {d} : documents'[x] = documents[x] /\ times'[x] = times[x],
           \A t \in tokens' : t.document_id = d \/ \E u \in tokens : u.document_id = t.document_id,
           KeepsStage(d), StageOK(d)', StampsOK(d)', ExtractingOK(next)', ClassifyingOK(next)'
    PROVE  TimeInv'
  <1>1. tx' = [tx EXCEPT ![s] = next] /\ documents \in [Docs -> Document]
    BY DEF EndTx, TimeInv, TxInv, DatabaseInv
  <1>2. ASSUME NEW x \in Docs \ {d}
        PROVE  KeepsStage(x) /\ StageOK(x)' /\ StampsOK(x)'
    <2>1. documents'[x] = documents[x] /\ times'[x] = times[x] /\ StageOK(x) /\ StampsOK(x)
      BY <1>2 DEF TimeInv
    <2>2. RowsOf(x)' # {} => RowsOf(x) # {}
      BY <1>2 DEF RowsOf
    <2>3. documents[x].run_version \in Nat
      BY <1>1, <1>2 DEF Document
    <2>4. KeepsStage(x)
      BY <2>1, <2>3 DEF KeepsStage
    <2>5. StageOK(x)'
      BY <2>1, <2>2 DEF StageOK
    <2>6. StampsOK(x)'
      BY <2>1 DEF StampsOK
    <2> QED
      BY <2>4, <2>5, <2>6
  <1>3. \A x \in Docs : KeepsStage(x) /\ StageOK(x)' /\ StampsOK(x)'
    BY <1>2
  <1> QED
    BY <1>1, <1>3, TimeStep

\* What Stamp writes.
LEMMA StampValues ==
    ASSUME TxInv, NEW s \in Sessions, NEW d \in Docs, NEW S, Stamp(s, d, S)
    PROVE  /\ \A x \in Stamps : times'[d][x] = IF x \in S THEN tx[s].now ELSE times[d][x]
           /\ \A e \in Docs \ {d} : times'[e] = times[e]
           /\ \A x \in Stamps : times[d][x] \in Nat
           /\ tx[s].now \in Nat /\ tx[s].now <= clock
  <1>1. tx[s].now \in Nat /\ tx[s].now <= clock
    BY SameLocks DEF SessionOK, Session
  <1>2. times \in [Docs -> [Stamps -> 0..MaxTime]]
    BY DEF TxInv, TimesType
  <1> QED
    BY <1>1, <1>2 DEF Stamp

----------------------------------------------------------------------------
(* Durations: the steps. *)

LEMMA NoStageTime ==
    ASSUME TimeInv, TxInv', NEW s \in Sessions, NEW next, tx' = [tx EXCEPT ![s] = next],
           UNCHANGED <<storeVars, clock, times>>,
           next.pc \in {"idle", "select", "insert", "delete", "claim"}
    PROVE  TimeInv'
  <1>1. ExtractingOK(next) /\ ClassifyingOK(next)
    BY NoStage
  <1> QED
    BY <1>1, QuietTime

\* Steps after which the session neither extracts nor classifies.
LEMMA PlainTime ==
    ASSUME TimeInv, TxInv', NEW s \in Sessions,
           \/ \E d \in Docs, text \in Texts, full \in BOOLEAN : BeginSubmit(s, d, text, full)
           \/ SelectNone(s) \/ LockForReset(s) \/ \E id : DeleteRow(s, id)
           \/ InsertConflict(s) \/ PersistStale(s) \/ DropResult(s)
           \/ AbortDeadlocked(s) \/ Fail(s)
    PROVE  TimeInv'
  <1>1. UNCHANGED <<storeVars, clock, times>>
    BY DEF BeginSubmit, BeginTx, SelectNone, LockForReset, DeleteRow, InsertConflict, PersistStale,
           DropResult, AbortDeadlocked, Fail
  <1>2. tx \in [Sessions -> Session]
    BY DEF TimeInv, TxInv
  <1>3. CASE \E d \in Docs, text \in Texts, full \in BOOLEAN : BeginSubmit(s, d, text, full)
    <2>1. PICK d \in Docs, text \in Texts, full \in BOOLEAN : BeginSubmit(s, d, text, full)
      BY <1>3
    <2>2. PICK next : next = [[Idle EXCEPT !.pc = "select", !.doc = d, !.text = text, !.full = full]
                                EXCEPT !.now = clock]
      OBVIOUS
    <2>3. tx' = [tx EXCEPT ![s] = next] /\ next.pc = "select"
      BY <2>1, <2>2 DEF BeginSubmit, BeginTx, Idle
    <2> QED
      BY <1>1, <2>3, NoStageTime
  <1>4. ASSUME NEW pc \in {"insert", "delete"}, tx' = [tx EXCEPT ![s].pc = pc]
        PROVE  TimeInv'
    <2>1. PICK next : next = [tx[s] EXCEPT !.pc = pc]
      OBVIOUS
    <2>2. tx' = [tx EXCEPT ![s] = next] /\ next.pc = pc
      BY <1>2, <1>4, <2>1 DEF Session
    <2> QED
      BY <1>1, <2>2, NoStageTime
  <1>5. CASE \E id : DeleteRow(s, id)
    <2>1. PICK next : next = tx[s]
      OBVIOUS
    <2>2. next.pc = "delete" /\ tx' = tx
      BY <1>5, <2>1 DEF DeleteRow
    <2>3. tx' = [tx EXCEPT ![s] = next]
      BY <1>2, <2>1, <2>2
    <2> QED
      BY <1>1, <2>2, <2>3, NoStageTime
  <1>6. ASSUME EndTx(s, Idle)
        PROVE  TimeInv'
    <2>1. PICK next : next = Idle
      OBVIOUS
    <2>2. tx' = [tx EXCEPT ![s] = next] /\ next.pc = "idle"
      BY <1>6, <2>1 DEF EndTx, Idle
    <2> QED
      BY <1>1, <2>2, NoStageTime
  <1> QED
    BY <1>3, <1>4, <1>5, <1>6 DEF SelectNone, LockForReset, InsertConflict, PersistStale,
                                  DropResult, AbortDeadlocked, Fail

LEMMA BeginClaimTime ==
    ASSUME TimeInv, TxInv', NEW s \in Sessions, NEW row, BeginClaim(s, row)
    PROVE  TimeInv'
  <1>1. PICK next : next = [[Idle EXCEPT !.pc = "claim", !.doc = row.payload.document_id]
                              EXCEPT !.now = clock]
    OBVIOUS
  <1>2. tx' = [tx EXCEPT ![s] = next] /\ next.pc = "claim" /\ UNCHANGED <<storeVars, clock, times>>
    BY <1>1 DEF BeginClaim, BeginTx, Idle
  <1> QED
    BY <1>2, NoStageTime

\* The token is there, so its run is the document's and the extraction is over.
LEMMA LookUpTime ==
    ASSUME TimeInv, TxInv', NEW s \in Sessions, NEW row \in outbox, LookUp(s, row)
    PROVE  TimeInv'
  <1>1. PICK d, v, id : /\ d = row.payload.document_id /\ v = row.payload.run_version
                        /\ id = row.payload.token_id
    OBVIOUS
  <1>2. d \in Docs /\ v \in Nat /\ id \in TokenId /\ id[1] = d /\ id[2] = v
    BY <1>1 DEF TimeInv, TxInv, OutboxOK, JobOK, OutboxRow, LookUp, StreamExtract, StreamClassify,
                ClassifyJob
  <1>3. PICK t \in tokens : IdOf(t) = id
    BY <1>1 DEF LookUp
  <1>4. t \in RowsOf(d) /\ t.run_version = v
    BY <1>2, <1>3 DEF IdOf, RowsOf
  <1>5. documents[d].run_version = v /\ documents[d].status \in AfterExtraction
    BY <1>2, <1>4 DEF TimeInv, TxInv, DatabaseInv, RowsOK, OneRun, StageOK
  <1>6. PICK next : next = [Idle EXCEPT !.pc = "classifying",
                                        !.doc = row.payload.document_id,
                                        !.run_version = row.payload.run_version,
                                        !.token = row.payload.token_id]
    OBVIOUS
  <1>7. /\ tx' = [tx EXCEPT ![s] = next] /\ UNCHANGED <<storeVars, clock, times>>
        /\ next.pc = "classifying" /\ next.doc = d /\ next.run_version = v
    BY <1>1, <1>6 DEF LookUp, Idle
  <1>8. ExtractingOK(next) /\ ClassifyingOK(next)
    BY <1>2, <1>5, <1>7 DEF ExtractingOK, ClassifyingOK
  <1> QED
    BY <1>7, <1>8, QuietTime

\* persist and apply begin now, and nothing is stamped in the future.
LEMMA SecondTime ==
    ASSUME TimeInv, TxInv', NEW s \in Sessions, BeginPersist(s) \/ BeginApply(s)
    PROVE  TimeInv'
  <1>1. PICK pc : /\ \/ pc = "persist" /\ tx[s].pc = "extracting"
                     \/ pc = "token" /\ tx[s].pc = "classifying"
                  /\ BeginTx(s, [tx[s] EXCEPT !.pc = pc])
    BY DEF BeginPersist, BeginApply
  <1>2. PICK x, next : x = tx[s] /\ next = [[x EXCEPT !.pc = pc] EXCEPT !.now = clock]
    OBVIOUS
  <1>3. /\ x \in Session /\ SessionOK(x, held[s]) /\ ExtractingOK(x) /\ ClassifyingOK(x)
        /\ \A d \in Docs : StampsOK(d)
    BY <1>2, SameLocks DEF TimeInv
  <1>4. /\ next.pc = pc /\ next.now = clock /\ next.doc = x.doc
        /\ next.run_version = x.run_version
    BY <1>2, <1>3 DEF Session
  <1>5. x.doc \in Docs
    BY <1>1, <1>2, <1>3 DEF SessionOK, SnapshotOK, ApplyOK
  <1>6. tx' = [tx EXCEPT ![s] = next] /\ UNCHANGED <<storeVars, clock, times>>
    BY <1>1, <1>2 DEF BeginTx
  <1>7. times[x.doc]["extraction_started_at"] <= clock
    BY <1>3, <1>5 DEF StampsOK, Stamps
  <1>8. ExtractingOK(next) /\ ClassifyingOK(next)
    BY <1>1, <1>2, <1>3, <1>4, <1>7 DEF ExtractingOK, ClassifyingOK
  <1> QED
    BY <1>6, <1>8, QuietTime

LEMMA LockTokenTime ==
    ASSUME TimeInv, TxInv', NEW s \in Sessions, LockToken(s)
    PROVE  TimeInv'
  <1>1. PICK x, next : x = tx[s] /\ next = [x EXCEPT !.pc = "document"]
    OBVIOUS
  <1>2. x \in Session /\ ExtractingOK(x) /\ ClassifyingOK(x) /\ x.pc = "token"
    BY <1>1, SameLocks DEF TimeInv, LockToken
  <1>3. /\ next.pc = "document" /\ next.now = x.now /\ next.doc = x.doc
        /\ next.run_version = x.run_version
    BY <1>1, <1>2 DEF Session
  <1>4. tx' = [tx EXCEPT ![s] = next] /\ UNCHANGED <<storeVars, clock, times>>
    BY <1>1 DEF LockToken, TimeInv, TxInv
  <1>5. ExtractingOK(next) /\ ClassifyingOK(next)
    BY <1>2, <1>3 DEF ExtractingOK, ClassifyingOK
  <1> QED
    BY <1>4, <1>5, QuietTime

\* Nobody has seen a document that is not there.
LEMMA InsertTime ==
    ASSUME TimeInv, TxInv', NEW s \in Sessions, Insert(s)
    PROVE  TimeInv'
  <1>1. PICK d, next : d = tx[s].doc /\ next = Idle
    OBVIOUS
  <1>2. /\ d \in Docs /\ ~Exists(d) /\ documents' = InsertDocument(documents, d, tx[s].text)
        /\ EndTx(s, next) /\ UNCHANGED <<tokens, clock, times>>
    BY <1>1, SameLocks DEF TimeInv, Insert, SessionOK, SubmitOK
  <1>3. /\ documents \in [Docs -> Document] /\ documents[d].run_version = 0
        /\ documents[d].status = "NONE" /\ RowsOf(d) = {} /\ StampsOK(d)
    BY <1>2 DEF TimeInv, TxInv, DatabaseInv, RowsOK, RowOK, NoDocument, Exists
  <1>4. /\ documents'[d].status = "PENDING" /\ documents'[d].stamped = {}
        /\ documents'[d].run_version = 1
        /\ \A x \in Docs \ {d} : documents'[x] = documents[x]
    BY <1>2, <1>3 DEF InsertDocument, NoDocument
  <1>5. StageOK(d)'
    BY <1>2, <1>3, <1>4 DEF StageOK, RowsOf, Started, AfterExtraction
  <1>6. StampsOK(d)'
    BY <1>2, <1>3, <1>4 DEF StampsOK, AfterExtraction
  <1>7. KeepsStage(d)
    BY <1>3, <1>4 DEF KeepsStage, Started
  <1>8. ExtractingOK(next)' /\ ClassifyingOK(next)'
    BY <1>1, NoStage DEF Idle
  <1> QED
    BY <1>2, <1>4, <1>5, <1>6, <1>7, <1>8, CommitTime

\* What anybody has seen of the document is of an earlier run.
LEMMA ResetTime ==
    ASSUME TimeInv, TxInv', NEW s \in Sessions, Reset(s)
    PROVE  TimeInv'
  <1>1. PICK d, next : d = tx[s].doc /\ next = Idle
    OBVIOUS
  <1>2. /\ d \in Docs /\ documents' = ResetDocument(documents, d, tx[s].text)
        /\ tokens' = DeleteTokens(tokens, d) /\ EndTx(s, next) /\ UNCHANGED <<clock, times>>
    BY <1>1, SameLocks DEF TimeInv, Reset, SessionOK, SubmitOK
  <1>3. /\ documents \in [Docs -> Document] /\ documents[d].run_version \in Nat /\ StampsOK(d)
    BY <1>2 DEF TimeInv, TxInv, DatabaseInv, Document
  <1>4. /\ documents'[d].status = "PENDING" /\ documents'[d].stamped = {}
        /\ documents'[d].run_version = documents[d].run_version + 1
        /\ \A x \in Docs \ {d} : documents'[x] = documents[x]
    BY <1>2, <1>3 DEF ResetDocument
  <1>5. RowsOf(d)' = {} /\ \A t \in tokens' : t \in tokens
    BY <1>2 DEF RowsOf, DeleteTokens
  <1>6. StageOK(d)'
    BY <1>4, <1>5 DEF StageOK, Started, AfterExtraction
  <1>7. StampsOK(d)'
    BY <1>2, <1>3, <1>4 DEF StampsOK, AfterExtraction
  <1>8. KeepsStage(d)
    BY <1>3, <1>4 DEF KeepsStage, Started
  <1>9. ExtractingOK(next)' /\ ClassifyingOK(next)'
    BY <1>1, NoStage DEF Idle
  <1> QED
    BY <1>2, <1>4, <1>5, <1>6, <1>7, <1>8, <1>9, CommitTime

\* No document is FAILED, so a partial rerun writes no column.
LEMMA ResumeTime ==
    ASSUME TimeInv, TxInv', NEW s \in Sessions, Resume(s)
    PROVE  TimeInv'
  <1>1. PICK d, next : d = tx[s].doc /\ next = Idle
    OBVIOUS
  <1>2. /\ d \in Docs /\ EndTx(s, next) /\ UNCHANGED <<tokens, clock, times>>
        /\ documents' = IF documents[d].status = "FAILED"
                        THEN SetDocumentPending(documents, d) ELSE documents
    BY <1>1, SameLocks DEF TimeInv, Resume, SelectRow, SessionOK, SubmitOK
  <1>3. StageOK(d) /\ StampsOK(d) /\ documents[d].run_version \in Nat
    BY <1>2 DEF TimeInv, TxInv, DatabaseInv, Document
  <1>4. documents' = documents
    BY <1>2, <1>3 DEF StageOK, Started, AfterExtraction
  <1>5. StageOK(d)' /\ StampsOK(d)'
    BY <1>2, <1>3, <1>4 DEF StageOK, StampsOK, RowsOf
  <1>6. KeepsStage(d)
    BY <1>2, <1>3, <1>4 DEF KeepsStage, Started
  <1>7. ExtractingOK(next)' /\ ClassifyingOK(next)'
    BY <1>1, NoStage DEF Idle
  <1> QED
    BY <1>2, <1>4, <1>5, <1>6, <1>7, CommitTime

\* The extraction starts, or goes on from where another attempt left it.
LEMMA ClaimTime ==
    ASSUME TimeInv, TxInv', NEW s \in Sessions, Claim(s)
    PROVE  TimeInv'
  <1>1. PICK d, old : d = tx[s].doc /\ old = documents[d]
    OBVIOUS
  <1>2. PICK next : next = IF old.status \in {"COMPLETED", "CLASSIFYING"} THEN Idle
                           ELSE [Idle EXCEPT !.pc = "extracting", !.doc = d, !.text = old.text,
                                             !.run_version = old.run_version]
    OBVIOUS
  <1>3. /\ d \in Docs /\ Exists(d) /\ UNCHANGED <<tokens, clock>> /\ EndTx(s, next)
        /\ IF old.status = "PENDING"
           THEN documents' = SetExtractionStarted(documents, d)
                  /\ Stamp(s, d, {"extraction_started_at"})
           ELSE UNCHANGED <<documents, times>>
    BY <1>1, <1>2, SameLocks DEF TimeInv, Claim, SessionOK, ClaimOK
  <1>4. /\ documents \in [Docs -> Document] /\ old \in Document /\ old.run_version \in Nat
        /\ StageOK(d) /\ StampsOK(d) /\ TxInv
    BY <1>1, <1>3 DEF TimeInv, TxInv, DatabaseInv, Document
  <1>5. old.status \in {"PENDING"} \cup Started
    BY <1>1, <1>3, <1>4 DEF StageOK, Exists, Started
  <1>6. /\ \A x \in Docs \ {d} : documents'[x] = documents[x] /\ times'[x] = times[x]
        /\ documents'[d].run_version = old.run_version
        /\ old.status = "PENDING" => documents'[d].status = "EXTRACTING"
        /\ old.status # "PENDING" => documents'[d] = old /\ times'[d] = times[d]
        /\ KeepsStage(d) /\ StageOK(d)' /\ StampsOK(d)'
    <2>1. CASE old.status = "PENDING"
      <3>1. /\ documents' = SetExtractionStarted(documents, d)
            /\ Stamp(s, d, {"extraction_started_at"})
        BY <1>3, <2>1
      <3>2. /\ documents'[d].status = "EXTRACTING" /\ documents'[d].run_version = old.run_version
            /\ documents'[d].stamped = old.stamped \cup {"extraction_started_at"}
            /\ \A x \in Docs \ {d} : documents'[x] = documents[x]
        BY <1>1, <1>3, <1>4, <3>1 DEF SetExtractionStarted, Document
      <3>3. \A x \in Docs \ {d} : times'[x] = times[x]
        BY <1>3, <1>4, <3>1, StampValues
      <3>4. KeepsStage(d)
        BY <1>1, <1>4, <2>1, <3>2 DEF KeepsStage, Started, AfterExtraction
      <3>5. RowsOf(d) = {} /\ old.stamped = {}
        BY <1>1, <1>4, <2>1 DEF StageOK, AfterExtraction
      <3>6. StageOK(d)'
        BY <1>3, <3>2, <3>5 DEF StageOK, RowsOf, Started, AfterExtraction
      <3>7. \A x \in Stamps : times'[d][x] <= clock'
        <4> TAKE x \in Stamps
        <4>1. times'[d][x] = tx[s].now \/ times'[d][x] = times[d][x]
          BY <1>3, <1>4, <3>1, StampValues
        <4>2. tx[s].now <= clock /\ times[d][x] <= clock
          BY <1>3, <1>4, <3>1, StampValues DEF StampsOK
        <4> QED
          BY <1>3, <4>1, <4>2
      <3>8. StampsOK(d)'
        BY <3>2, <3>5, <3>7 DEF StampsOK, AfterExtraction
      <3> QED
        BY <2>1, <3>2, <3>3, <3>4, <3>6, <3>8
    <2>2. CASE old.status # "PENDING"
      <3>1. UNCHANGED <<documents, tokens, times, clock>>
        BY <1>3, <2>2
      <3>2. StageOK(d)' /\ StampsOK(d)'
        BY <1>4, <3>1 DEF StageOK, StampsOK, RowsOf
      <3>3. KeepsStage(d)
        BY <1>1, <1>4, <3>1 DEF KeepsStage, Started
      <3> QED
        BY <1>1, <2>2, <3>1, <3>2, <3>3
    <2> QED
      BY <2>1, <2>2
  <1>7. ExtractingOK(next)' /\ ClassifyingOK(next)'
    <2>1. CASE old.status \in AfterExtraction
      <3>1. next.pc = "idle"
        BY <1>2, <2>1 DEF AfterExtraction, Idle
      <3> QED
        BY <3>1, NoStage
    <2>2. CASE old.status \notin AfterExtraction
      <3>1. next.pc = "extracting" /\ next.doc = d
        BY <1>2, <2>2 DEF AfterExtraction, Idle
      <3>2. documents'[d].status = "EXTRACTING"
        BY <1>5, <1>6, <2>2 DEF Started
      <3> QED
        BY <1>3, <3>1, <3>2 DEF ExtractingOK, ClassifyingOK, Started
    <2> QED
      BY <2>1, <2>2
  <1>8. /\ KeepsStage(d) /\ StageOK(d)' /\ StampsOK(d)'
        /\ \A x \in Docs \ {d} : documents'[x] = documents[x] /\ times'[x] = times[x]
    BY <1>6
  <1> QED
    BY <1>3, <1>7, <1>8, CommitTime

\* A persist ends the extraction, or ends it again, after it began.
LEMMA PersistTime ==
    ASSUME TimeInv, TxInv', NEW s \in Sessions, Persist(s)
    PROVE  TimeInv'
  <1>1. PICK d, v, now, next : /\ d = tx[s].doc /\ v = tx[s].run_version /\ now = tx[s].now
                               /\ next = Idle
    OBVIOUS
  <1>2. PICK total : total = CountTokens(tokens', d, v)
    OBVIOUS
  <1>3. PICK S : S = {"extraction_completed_at", "classification_started_at"} \cup
                       (IF total = 0 THEN {"classification_completed_at"} ELSE {})
    OBVIOUS
  <1>4. /\ tokens' = UpsertTokens(tokens, d, v, Extract[tx[s].text])
        /\ documents' = IF total = 0 THEN MarkExtractionCompletedEmpty(documents, d)
                        ELSE AdvanceToClassifying(documents, d, total)
        /\ Stamp(s, d, S) /\ EndTx(s, next) /\ UNCHANGED clock
        /\ documents[d].run_version = v /\ tx[s].pc = "persist"
    BY <1>1, <1>2, <1>3 DEF Persist
  <1>5. /\ d \in Docs /\ documents[d].status \in Started
        /\ times[d]["extraction_started_at"] <= now
    BY <1>1, <1>4, SameLocks DEF TimeInv, SessionOK, SnapshotOK, ExtractingOK
  <1>6. /\ documents \in [Docs -> Document] /\ documents[d] \in Document /\ v \in Nat
        /\ StageOK(d) /\ StampsOK(d) /\ TxInv
    BY <1>4, <1>5 DEF TimeInv, TxInv, DatabaseInv, Document
  <1>7. /\ documents'[d].run_version = v
        /\ \A x \in Docs \ {d} : documents'[x] = documents[x]
        /\ \/ /\ total = 0 /\ documents'[d].status = "COMPLETED"
              /\ documents'[d].stamped = documents[d].stamped \cup
                    {"extraction_completed_at", "classification_started_at",
                     "classification_completed_at"}
           \/ /\ total # 0 /\ documents'[d].status = "CLASSIFYING"
              /\ documents'[d].stamped = documents[d].stamped \cup
                    {"extraction_completed_at", "classification_started_at"}
    <2>1. CASE total = 0
      BY <1>4, <1>5, <1>6, <2>1 DEF MarkExtractionCompletedEmpty, Document
    <2>2. CASE total # 0
      BY <1>4, <1>5, <1>6, <2>2 DEF AdvanceToClassifying, Document
    <2> QED
      BY <2>1, <2>2
  <1>8. StageOK(d)'
    <2>1. "extraction_started_at" \in documents[d].stamped
      BY <1>5, <1>6 DEF StageOK, Started
    <2> QED
      BY <1>7, <2>1 DEF StageOK, AfterExtraction, Started, PersistStamps
  <1>9. /\ \A x \in Stamps : times'[d][x] = IF x \in S THEN now ELSE times[d][x]
        /\ \A x \in Docs \ {d} : times'[x] = times[x]
        /\ now \in Nat /\ now <= clock
    BY <1>1, <1>4, <1>5, <1>6, StampValues
  <1>10. StampsOK(d)'
    <2>1. \A x \in Stamps : times'[d][x] <= clock'
      BY <1>4, <1>6, <1>9 DEF StampsOK
    <2>2. /\ times'[d]["extraction_started_at"] = times[d]["extraction_started_at"]
          /\ times'[d]["extraction_completed_at"] = now
          /\ times'[d]["classification_started_at"] = now
          /\ times'[d]["classification_completed_at"] =
                IF total = 0 THEN now ELSE times[d]["classification_completed_at"]
      BY <1>3, <1>9 DEF Stamps
    <2> QED
      BY <1>5, <1>6, <1>7, <1>9, <2>1, <2>2 DEF StampsOK
  <1>11. KeepsStage(d)
    <2>1. times'[d]["extraction_started_at"] = times[d]["extraction_started_at"]
      BY <1>3, <1>9 DEF Stamps
    <2> QED
      BY <1>4, <1>5, <1>6, <1>7, <2>1 DEF KeepsStage, AfterExtraction, Started
  <1>12. ExtractingOK(next)' /\ ClassifyingOK(next)'
    BY <1>1, NoStage DEF Idle
  <1>13. \A t \in tokens' : t.document_id = d \/ \E u \in tokens : u.document_id = t.document_id
    BY <1>4, <1>5, UpsertRows
  <1> QED
    BY <1>4, <1>5, <1>7, <1>8, <1>9, <1>10, <1>11, <1>12, <1>13, CommitTime

\* An answer is applied after the extraction began; the last one ends the classification.
LEMMA ApplyTime ==
    ASSUME TimeInv, TxInv', NEW s \in Sessions, NEW category, Apply(s, category)
    PROVE  TimeInv'
  <1>1. PICK d, now, next, counted : /\ d = tx[s].doc /\ now = tx[s].now /\ next = Idle
                                     /\ counted = IncrementClassifiedCount(documents, d)
    OBVIOUS
  <1>2. PICK S : S = IF Completes(counted[d]) THEN {"classification_completed_at"} ELSE {}
    OBVIOUS
  <1>3. tx[s].pc = "document" /\ TxInv
    BY DEF Apply, TimeInv
  <1>4. documents[d].run_version = tx[s].run_version
    BY <1>1, <1>3, TokenFences
  <1>5. /\ tokens' = SetTokenClassified(tokens, tx[s].token, category)
        /\ documents' = IF Completes(counted[d]) THEN MarkDocumentCompleted(counted, d) ELSE counted
        /\ Stamp(s, d, S) /\ EndTx(s, next) /\ UNCHANGED clock
    BY <1>1, <1>2, <1>4 DEF Apply
  <1>6. /\ d \in Docs /\ documents[d].status \in AfterExtraction
        /\ times[d]["extraction_started_at"] <= now
    BY <1>1, <1>3, <1>4, SameLocks DEF TimeInv, SessionOK, ApplyOK, ClassifyingOK
  <1>7. /\ documents \in [Docs -> Document] /\ documents[d] \in Document
        /\ documents[d].run_version \in Nat /\ StageOK(d) /\ StampsOK(d)
    BY <1>6 DEF TimeInv, TxInv, DatabaseInv, Document
  <1>8. /\ counted \in [Docs -> Document] /\ counted[d].run_version = documents[d].run_version
        /\ counted[d].status = documents[d].status /\ counted[d].stamped = documents[d].stamped
        /\ \A x \in Docs \ {d} : counted[x] = documents[x]
    BY <1>1, <1>6, <1>7 DEF IncrementClassifiedCount, Document
  <1>9. /\ documents'[d].run_version = documents[d].run_version
        /\ \A x \in Docs \ {d} : documents'[x] = documents[x]
        /\ \/ /\ S = {"classification_completed_at"} /\ documents'[d].status = "COMPLETED"
              /\ documents'[d].stamped = documents[d].stamped \cup {"classification_completed_at"}
           \/ /\ S = {} /\ documents'[d].status = documents[d].status
              /\ documents'[d].stamped = documents[d].stamped
    <2>1. CASE Completes(counted[d])
      <3>1. counted[d] \in Document /\ documents' = MarkDocumentCompleted(counted, d)
        BY <1>5, <1>6, <1>8, <2>1
      <3>2. /\ documents'[d].run_version = counted[d].run_version
            /\ documents'[d].status = "COMPLETED"
            /\ documents'[d].stamped = counted[d].stamped \cup {"classification_completed_at"}
            /\ \A x \in Docs \ {d} : documents'[x] = counted[x]
        BY <1>6, <1>8, <3>1 DEF MarkDocumentCompleted, Document
      <3> QED
        BY <1>2, <1>8, <2>1, <3>2
    <2>2. CASE ~Completes(counted[d])
      BY <1>2, <1>5, <1>8, <2>2
    <2> QED
      BY <2>1, <2>2
  <1>10. StageOK(d)'
    <2>1. {"extraction_started_at"} \cup PersistStamps \subseteq documents[d].stamped
      BY <1>6, <1>7 DEF StageOK
    <2> QED
      BY <1>6, <1>9, <2>1 DEF StageOK, AfterExtraction, Started
  <1>11. /\ \A x \in Stamps : times'[d][x] = IF x \in S THEN now ELSE times[d][x]
         /\ \A x \in Docs \ {d} : times'[x] = times[x]
         /\ now \in Nat /\ now <= clock
    BY <1>1, <1>3, <1>5, <1>6, StampValues
  <1>12. /\ times'[d]["extraction_started_at"] = times[d]["extraction_started_at"]
         /\ times'[d]["extraction_completed_at"] = times[d]["extraction_completed_at"]
         /\ times'[d]["classification_started_at"] = times[d]["classification_started_at"]
         /\ times'[d]["classification_completed_at"] =
               IF S = {} THEN times[d]["classification_completed_at"] ELSE now
    BY <1>9, <1>11 DEF Stamps
  <1>13. StampsOK(d)'
    <2>1. \A x \in Stamps : times'[d][x] <= clock'
      BY <1>5, <1>7, <1>11 DEF StampsOK
    <2>2. "classification_completed_at" \in documents'[d].stamped =>
              S # {} \/ "classification_completed_at" \in documents[d].stamped
      BY <1>9
    <2> QED
      BY <1>6, <1>7, <1>12, <2>1, <2>2 DEF StampsOK
  <1>14. KeepsStage(d)
    BY <1>6, <1>7, <1>9, <1>12 DEF KeepsStage, Started, AfterExtraction
  <1>15. ExtractingOK(next)' /\ ClassifyingOK(next)'
    BY <1>1, NoStage DEF Idle
  <1>16. \A t \in tokens' : t.document_id = d \/ \E u \in tokens : u.document_id = t.document_id
    <2> TAKE t \in tokens'
    <2>1. PICK u \in tokens : t = u \/ t = [u EXCEPT !.status = "CLASSIFIED",
                                                     !.classification = category]
      BY <1>5 DEF SetTokenClassified
    <2>2. u \in Token
      BY DEF TimeInv, TxInv, DatabaseInv
    <2> QED
      BY <2>1, <2>2 DEF Token
  <1> QED
    BY <1>5, <1>6, <1>9, <1>10, <1>11, <1>13, <1>14, <1>15, <1>16, CommitTime

\* Only time passes, if that.
LEMMA TickTime ==
    ASSUME TimeInv, TxInv', Tick \/ UNCHANGED vars
    PROVE  TimeInv'
  <1>1. /\ UNCHANGED <<documents, tokens, tx, times>> /\ clock <= clock'
        /\ clock \in Nat /\ clock' \in Nat /\ times \in [Docs -> [Stamps -> 0..MaxTime]]
    BY DEF Tick, vars, storeVars, TimeInv, TxInv, TimesType
  <1>2. ASSUME NEW d \in Docs
        PROVE  StageOK(d)' /\ StampsOK(d)'
    <2>1. StageOK(d)'
      BY <1>1 DEF TimeInv, StageOK, RowsOf
    <2>2. \A x \in Stamps : times[d][x] \in Nat /\ times[d][x] <= clock
      BY <1>1 DEF TimeInv, StampsOK
    <2>3. \A x \in Stamps : times'[d][x] <= clock'
      BY <1>1, <2>2
    <2> QED
      BY <1>1, <2>1, <2>3 DEF TimeInv, StampsOK
  <1>3. \A s \in Sessions : ExtractingOK(tx[s])' /\ ClassifyingOK(tx[s])'
    BY <1>1 DEF TimeInv, ExtractingOK, ClassifyingOK
  <1> QED
    BY <1>2, <1>3 DEF TimeInv

LEMMA SystemTime ==
    ASSUME TimeInv, SystemNext \/ UNCHANGED vars
    PROVE  TimeInv'
  <1>1. TxInv'
    BY SystemStep DEF TimeInv, StepOK
  <1>2. ASSUME NEW s \in Sessions, Begin(s)
        PROVE  TimeInv'
    BY <1>1, <1>2, PlainTime, BeginClaimTime, LookUpTime, SecondTime DEF Begin
  <1>3. ASSUME NEW s \in Sessions, Statement(s)
        PROVE  TimeInv'
    <2>1. CASE SelectNone(s) \/ InsertConflict(s) \/ LockForReset(s) \/ PersistStale(s) \/ DropResult(s)
      BY <1>1, <2>1, PlainTime
    <2>2. CASE \E id \in Wants(s) : DeleteRow(s, id)
      BY <1>1, <2>2, PlainTime
    <2>3. CASE Insert(s) \/ Resume(s) \/ Reset(s) \/ Claim(s) \/ Persist(s) \/ LockToken(s)
      BY <1>1, <2>3, InsertTime, ResumeTime, ResetTime, ClaimTime, PersistTime, LockTokenTime
    <2>4. CASE \E category \in Categories : Apply(s, category)
      BY <1>1, <2>4, ApplyTime
    <2> QED
      BY <1>3, <2>1, <2>2, <2>3, <2>4 DEF Statement
  <1>4. ASSUME NEW s \in Sessions, AbortDeadlocked(s) \/ Fail(s)
        PROVE  TimeInv'
    BY <1>1, <1>4, PlainTime
  <1> QED
    BY <1>1, <1>2, <1>3, <1>4, TickTime DEF SystemNext

\* Of the durations that GET /status reports (Document.Durations, domain.go), that of
\* extraction and the sum of both are never negative, and both are zero until the extraction
\* has completed, with any number of extraction workers that persist a run more than once:
\* although each boundary is now() of a transaction that may have waited for locks since.
THEOREM DurationsHonest == Spec => []DurationsAreHonest
  <1>1. ASSUME Init
        PROVE  TimeInv
    <2>1. /\ documents = [d \in Docs |-> NoDocument] /\ tokens = {} /\ clock = 0
          /\ tx = [s \in Sessions |-> Idle] /\ times = [d \in Docs |-> [x \in Stamps |-> 0]]
      BY <1>1 DEF Init, StoreInit
    <2>2. \A d \in Docs : StageOK(d) /\ StampsOK(d)
      BY <2>1 DEF StageOK, StampsOK, RowsOf, NoDocument, AfterExtraction, Started
    <2>3. \A s \in Sessions : ExtractingOK(Idle) /\ ClassifyingOK(Idle)
      BY NoStage DEF Idle
    <2> QED
      BY <1>1, <2>1, <2>2, <2>3, TxInit DEF TimeInv
  <1>2. TimeInv /\ [Next]_vars => TimeInv'
    BY NextIsSystem, SystemTime
  <1>3. TimeInv => DurationsAreHonest
    <2> SUFFICES ASSUME TimeInv, NEW d \in Docs
                 PROVE  /\ ExtractionDuration(d) >= 0
                        /\ ExtractionDuration(d) + ClassificationDuration(d) >= 0
                        /\ documents[d].status \in {"PENDING", "EXTRACTING"} =>
                              ExtractionDuration(d) = 0 /\ ClassificationDuration(d) = 0
      BY DEF DurationsAreHonest
    <2>1. StageOK(d) /\ StampsOK(d) /\ \A x \in Stamps : times[d][x] \in Nat
      BY DEF TimeInv, TxInv, TimesType
    <2>2. /\ times[d]["extraction_started_at"] \in Nat
          /\ times[d]["extraction_completed_at"] \in Nat
          /\ times[d]["classification_started_at"] \in Nat
          /\ times[d]["classification_completed_at"] \in Nat
      BY <2>1 DEF Stamps
    <2>3. CASE documents[d].status \notin AfterExtraction
      <3>1. documents[d].stamped \subseteq {"extraction_started_at"}
        BY <2>1, <2>3 DEF StageOK, Started
      <3> QED
        BY <3>1 DEF ExtractionDuration, ClassificationDuration, Duration
    <2>4. CASE documents[d].status \in AfterExtraction
      <3>1. {"extraction_started_at"} \cup PersistStamps \subseteq documents[d].stamped
        BY <2>1, <2>4 DEF StageOK
      <3>2. /\ ExtractionDuration(d) = times[d]["extraction_completed_at"]
                                         - times[d]["extraction_started_at"]
            /\ ClassificationDuration(d) =
                  IF "classification_completed_at" \in documents[d].stamped
                  THEN times[d]["classification_completed_at"]
                         - times[d]["classification_started_at"] ELSE 0
        BY <3>1 DEF ExtractionDuration, ClassificationDuration, Duration, PersistStamps
      <3> QED
        BY <2>1, <2>2, <2>4, <3>2 DEF StampsOK, AfterExtraction
    <2> QED
      BY <2>3, <2>4
  <1> QED
    BY <1>1, <1>2, <1>3, PTL DEF Spec

============================================================================
