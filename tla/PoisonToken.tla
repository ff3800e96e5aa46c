---------------------------- MODULE PoisonToken ----------------------------
(***************************************************************************)
(* The pipeline with a token that the LLM refuses every time: the 4xx      *)
(* answers that OllamaClassifier does not retry, an answer that does not   *)
(* decode, an API key that was revoked.  Classify returns an error, the    *)
(* handler returns it and handleOne leaves the message pending, whatever   *)
(* the error is.  Nothing else fails.                                      *)
(***************************************************************************)
EXTENDS Pipeline

CONSTANT Poison   \* the entities that the LLM refuses

\* c has asked the LLM about a refused entity.
Refused(c, e) ==
    /\ classification[c] = "classifying"
    /\ Current(c, e)
    /\ JobAt(c, e).token_id[3] \in Poison

\* Classify fails, Process returns the error.
RefusalStep(c) ==
    /\ \E e \in inbox[c] : Refused(c, e) /\ ClassifierError(c, e)
    /\ UNCHANGED <<relayVars, submits, extraction>>

LlmStep(c) ==
    \/ RefusalStep(c)
    \/ (\A e \in inbox[c] : ~Refused(c, e)) /\ ClassifierProgress(c)

RefusingNext ==
    \/ ServiceStep
    \/ \E r \in Relays : RelayProgress(r)
    \/ \E c \in Extractors : ExtractorProgress(c)
    \/ \E c \in Classifiers : LlmStep(c)

RefusingSpec ==
    /\ Init /\ [][RefusingNext]_vars
    /\ \A r \in Relays : WF_vars(RelayProgress(r))
    /\ \A c \in Extractors : WF_vars(ExtractorProgress(c))
    /\ \A c \in Classifiers : WF_vars(LlmStep(c))

\* Processing ends, in success or in failure (MarkFailed: "Used when a stage hits
\* an unrecoverable error"; DocStatus: "A document may move to FAILED from any
\* active state on an unrecoverable error").  It does not: no handler calls
\* MarkFailed, the message is redelivered forever and the document stays
\* CLASSIFYING.
DocumentEnds ==
    \A d \in Docs : Exists(d) ~> documents[d].status \in {"COMPLETED", "FAILED"}
============================================================================
