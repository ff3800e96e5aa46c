---------------------------- MODULE DocumentApi ----------------------------
(***************************************************************************)
(* The HTTP api (internal/api) over the running system: POST /process,     *)
(* GET /documents/{id}/status and GET /documents/{id}/tokens, seen by      *)
(* clients that submit a document, poll its status and read its tokens     *)
(* page by page while the workers and other requests go on.                *)
(*                                                                         *)
(* The system is the one of Transactions: a POST is a session there, with  *)
(* its locks and its failures, and a GET reads what is committed.  A reply *)
(* is reduced to its code and to what a client can act on.  GET /healthz   *)
(* neither changes nor reads state of the program.                         *)
(***************************************************************************)
EXTENDS Transactions, Sequences

CONSTANTS
    Readers,    \* the clients that also poll and list
    Rank,       \* Rank[e]: the position of e among the entities of its text
    Limits      \* values of ?limit that clients send; 0 is none

ASSUME ApiAssumption ==
    /\ Readers \subseteq Clients
    /\ Rank \in [Entities -> Nat]
    /\ \A e, f \in Entities : Rank[e] = Rank[f] => e = f
    /\ Limits \subseteq Nat

VARIABLE client   \* [Clients -> what the client has learned]

apiVars == <<vars, client>>

\* request: what the client asked last; code: the answer, 0 while it waits.
\* doc, status, run, total: what GET /status last said, polled if it did.
\* pc: "found" between the two queries of DocumentService.Tokens, "paging" when
\* another page is to be asked for, "listed" when the last one was read.
\* rows: the token rows so far.
Fresh == [request |-> "none", code |-> 0, pc |-> "idle", doc |-> NoDoc,
          polled |-> FALSE, status |-> "NONE", run |-> 0, total |-> 0,
          limit |-> 0, rows |-> <<>>]

ApiInit == Init /\ client = [c \in Clients |-> Fresh]

ApiTypeOK ==
    /\ TypeOK
    /\ \A c \in Clients :
          /\ client[c].request \in {"none", "process", "status", "tokens"}
          /\ client[c].code \in {0, 200, 202, 400, 404, 500}
          /\ client[c].pc \in {"idle", "found", "paging", "listed"}
          /\ client[c].doc \in Docs \cup {NoDoc}
          /\ client[c].status \in DocStatus \cup {"NONE"}
          /\ client[c].rows \in Seq(Token)

Learn(c, reply) == client' = [client EXCEPT ![c] = reply]

\* The client waits for no answer.
AtRest(c) == tx[c].pc = "idle"

----------------------------------------------------------------------------
(* POST /process. *)

Blank == "blank"
Modes == {"full", "partial", "FULL"}
Requests == [document_id : Docs \cup {Blank}, text : Texts \cup {Blank}, mode : Modes]

\* Everything but the exact word "full" is a partial rerun.
RerunIsFull(mode) == mode = "full"

Answer(code) == [Fresh EXCEPT !.request = "process", !.code = code]

\* handleProcess refuses a request without an id or a text.
Refuse(c, req) ==
    /\ AtRest(c)
    /\ req.document_id = Blank \/ req.text = Blank
    /\ Learn(c, Answer(400))
    /\ UNCHANGED vars

Post(c, req) ==
    /\ req.document_id # Blank /\ req.text # Blank
    /\ BeginSubmit(c, req.document_id, req.text, RerunIsFull(req.mode))
    /\ Learn(c, Answer(0))

\* Submit on its way, committed, and failed.
Submitting(c) ==
    /\ SelectNone(c) \/ LockForReset(c) \/ \E id \in Wants(c) : DeleteRow(c, id)
    /\ UNCHANGED client

Submitted(c) ==
    /\ Insert(c) \/ Resume(c) \/ Reset(c)
    /\ Learn(c, Answer(202))

SubmitFails(c) ==
    /\ InsertConflict(c) \/ AbortDeadlocked(c) \/ Fail(c)
    /\ Learn(c, Answer(500))

----------------------------------------------------------------------------
(* GET /documents/{id}/status and /tokens. *)

\* What the handlers answer when GetDocument finds no row: the error it returns
\* is not domain.ErrNotFound, so neither of them takes its 404 branch.
MissingCode == 500

GetStatus(c, d) ==
    /\ AtRest(c)
    /\ Learn(c, IF Exists(d)
                THEN [Fresh EXCEPT !.request = "status", !.code = 200, !.doc = d,
                                   !.polled = TRUE,
                                   !.status = documents[d].status,
                                   !.run = documents[d].run_version,
                                   !.total = documents[d].total_tokens]
                ELSE [Fresh EXCEPT !.request = "status", !.code = MissingCode])
    /\ UNCHANGED vars

\* DocumentService.Tokens, first query: does the document exist.
LookUpDocument(c, d, limit) ==
    /\ AtRest(c)
    /\ client[c].pc = "idle"
    /\ client[c].polled => client[c].doc = d
    /\ Learn(c, IF Exists(d)
                THEN [client[c] EXCEPT !.request = "tokens", !.code = 0, !.pc = "found",
                                       !.doc = d, !.limit = limit]
                ELSE [Fresh EXCEPT !.request = "tokens", !.code = MissingCode])
    /\ UNCHANGED vars

\* Mutant (no specification uses it): unanswered rows first.
RowOrderByStatus(t, u) ==
    \/ t.status = "PENDING" /\ u.status = "CLASSIFIED"
    \/ t.status = u.status /\ Rank[t.entity] < Rank[u.entity]

\* ORDER BY id: persist inserts the entities of a run in the extractor's order,
\* all of them in one transaction.
RowOrder(t, u) == Rank[t.entity] < Rank[u.entity]

Ordered(rows) ==
    CHOOSE q \in [1..Cardinality(rows) -> rows] :
        \A i, j \in DOMAIN q : i < j => RowOrder(q[i], q[j])

\* LIMIT and OFFSET are left out of the query when they are 0.
ListTokens(d, limit, offset) ==
    LET rows == Ordered(TokensForRun(tokens, d, documents[d].run_version))
        last == IF limit > 0 /\ offset + limit < Len(rows) THEN offset + limit ELSE Len(rows)
    IN  SubSeq(rows, offset + 1, last)

\* Second query: the page behind the rows the client has.  It stops at a page
\* shorter than it asked for.
ReadPage(c) ==
    LET limit == client[c].limit
        page == ListTokens(client[c].doc, limit, Len(client[c].rows))
    IN  /\ AtRest(c) /\ client[c].pc = "found"
        /\ Learn(c, [client[c] EXCEPT !.code = 200,
                                      !.pc = IF limit = 0 \/ Len(page) < limit
                                             THEN "listed" ELSE "paging",
                                      !.rows = @ \o page])
        /\ UNCHANGED vars

\* The first query of the request for the next page: rows of documents are never
\* deleted.
NextPage(c) ==
    /\ AtRest(c) /\ client[c].pc = "paging"
    /\ Learn(c, [client[c] EXCEPT !.code = 0, !.pc = "found"])
    /\ UNCHANGED vars

ProcessStep(c) ==
    \/ \E req \in Requests : Refuse(c, req) \/ Post(c, req)
    \/ Submitting(c)
    \/ Submitted(c)
    \/ SubmitFails(c)

ReaderStep(c) ==
    \/ \E d \in Docs : \/ GetStatus(c, d)
                       \/ \E limit \in Limits : LookUpDocument(c, d, limit)
    \/ ReadPage(c)
    \/ NextPage(c)

WorkerStep(s) ==
    \/ \E row \in outbox : s \in Extractors /\ BeginClaim(s, row)
    \/ BeginPersist(s)
    \/ \E row \in outbox : s \in Classifiers /\ LookUp(s, row)
    \/ BeginApply(s)
    \/ Statement(s)
    \/ AbortDeadlocked(s)
    \/ Fail(s)

ApiNext ==
    \/ \E c \in Clients : ProcessStep(c)
    \/ \E c \in Readers : ReaderStep(c)
    \/ \E s \in Extractors \cup Classifiers : WorkerStep(s) /\ UNCHANGED client

ApiSpec == ApiInit /\ [][ApiNext]_apiVars

----------------------------------------------------------------------------
(* Properties. *)

RowsAreOfRun(c, v) ==
    /\ client[c].rows # <<>>
    /\ \A i \in DOMAIN client[c].rows : client[c].rows[i].run_version = v

\* Paging through GET /tokens with ?limit and ?offset, one request per page, while
\* classification goes on and jobs are delivered again: if the run is still the
\* one of the rows, the client has every token of it, each once (ListTokens
\* orders by id and persist writes all the tokens at once).
PagesAreExact ==
    \A c \in Clients :
        LET d == client[c].doc
            rows == client[c].rows
        IN  client[c].pc = "listed" /\ RowsAreOfRun(c, documents[d].run_version) =>
               /\ {IdOf(rows[i]) : i \in DOMAIN rows} = {IdOf(t) : t \in RowsOf(d)}
               /\ Len(rows) = Cardinality(RowsOf(d))

\* A client that saw COMPLETED and then lists the tokens gets as many as the
\* status said, all of them answered, unless it gets rows of a later run (or
\* none, when a rerun is starting).
CompletedMeansAnswered ==
    \A c \in Clients :
        /\ client[c].pc = "listed"
        /\ client[c].limit = 0
        /\ client[c].polled /\ client[c].status = "COMPLETED"
        /\ RowsAreOfRun(c, client[c].run)
        => /\ Len(client[c].rows) = client[c].total
           /\ \A i \in DOMAIN client[c].rows : client[c].rows[i].status = "CLASSIFIED"

============================================================================
