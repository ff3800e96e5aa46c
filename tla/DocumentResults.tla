-------------------------- MODULE DocumentResults --------------------------
(***************************************************************************)
(* What the pipeline promises a client about one document, with no store,  *)
(* broker or worker in sight.  An accepted submission or full rerun opens  *)
(* a run on a text; the run finds all the entities of the text at once and *)
(* answers each of them once; nothing of a run changes afterwards.         *)
(*                                                                         *)
(* The status column is not part of the promise: a second persist may move *)
(* it backwards (README, duplicate_extraction), and the results stay as    *)
(* they are.                                                               *)
(***************************************************************************)
EXTENDS Domain

VARIABLE results   \* [Docs -> the current run of the document]

\* run 0: never submitted.  answers is a set of entity-category pairs.
Result == [run : Nat,
           text : Texts \cup {NoText},
           found : SUBSET Entities,
           answers : SUBSET (Entities \X Categories)]

Init == results = [d \in Docs |-> [run |-> 0, text |-> NoText, found |-> {}, answers |-> {}]]

Answered(d) == {a[1] : a \in results[d].answers}

\* A first submission or a full rerun.
Open(d, text) ==
    results' = [results EXCEPT ![d] = [run |-> @.run + 1, text |-> text,
                                       found |-> {}, answers |-> {}]]

Find(d) ==
    /\ results[d].run > 0
    /\ results[d].found = {}
    /\ results' = [results EXCEPT ![d].found = Extract[results[d].text]]

Answer(d, e, category) ==
    /\ e \in results[d].found \ Answered(d)
    /\ results' = [results EXCEPT ![d].answers = @ \cup {<<e, category>>}]

\* The steps the system takes by itself.
Work(d) ==
    \/ Find(d)
    \/ \E e \in Entities, category \in Categories : Answer(d, e, category)

Next == \E d \in Docs : Work(d) \/ \E text \in Texts : Open(d, text)

Spec == Init /\ [][Next]_results
============================================================================
