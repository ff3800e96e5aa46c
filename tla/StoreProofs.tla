---------------------------- MODULE StoreProofs ----------------------------
(***************************************************************************)
(* What each transaction of Submit, claim, persist and apply does to the   *)
(* tables, independently of who runs it and when: it keeps DatabaseInv, and  *)
(* through the mapping of StoreResults it is a step of DocumentResults or  *)
(* none at all.  PipelineProofs and TransactionsProofs rest on this.       *)
(***************************************************************************)
EXTENDS StoreResults, FiniteSetTheorems, TLAPS

----------------------------------------------------------------------------
(* The mapping. *)

\* What DocumentResults sees of the tables.
Mapped == [d \in Docs |-> ResultOf(d)]

\* A step on one document leaves the results of the others alone.
LEMMA MappedFrame ==
    ASSUME NEW d \in Docs, NEW r, ResultOf(d)' = r,
           \A x \in Docs \ {d} : ResultOf(x)' = ResultOf(x)
    PROVE  Mapped' = [Mapped EXCEPT ![d] = r]
  BY DEF Mapped

\* A document's results depend on its run, its text and its token rows only.
LEMMA ResultFrame ==
    ASSUME NEW d \in Docs,
           documents'[d].run_version = documents[d].run_version,
           documents'[d].text = documents[d].text,
           RowsOf(d)' = RowsOf(d)
    PROVE  ResultOf(d)' = ResultOf(d)
  BY DEF ResultOf

\* Steps that touch no token row and neither run nor text.
LEMMA StatusOnly ==
    ASSUME UNCHANGED tokens,
           \A x \in Docs : /\ documents'[x].run_version = documents[x].run_version
                           /\ documents'[x].text = documents[x].text
    PROVE  Mapped' = Mapped
  <1>1. \A x \in Docs : ResultOf(x)' = ResultOf(x)
    BY ResultFrame DEF RowsOf
  <1> QED
    BY <1>1 DEF Mapped

\* The fields of a mapped result.
LEMMA ResultFields ==
    ASSUME NEW d \in Docs
    PROVE  /\ Mapped[d] = ResultOf(d)
           /\ Mapped[d].run = documents[d].run_version
           /\ Mapped[d].text = documents[d].text
           /\ Mapped[d].found = {t.entity : t \in RowsOf(d)}
           /\ Mapped[d].answers = {<<t.entity, t.classification>> :
                                      t \in {u \in RowsOf(d) : u.status = "CLASSIFIED"}}
  BY DEF Mapped, ResultOf

\* The rows and the results of the other documents, when the rows of one change.
LEMMA OthersFrame ==
    ASSUME NEW d \in Docs,
           \A x \in Docs \ {d} : documents'[x] = documents[x],
           \A t \in tokens : t.document_id # d => t \in tokens',
           \A t \in tokens' : t.document_id # d => t \in tokens
    PROVE  \A x \in Docs \ {d} : RowsOf(x)' = RowsOf(x) /\ ResultOf(x)' = ResultOf(x)
  <1> TAKE x \in Docs \ {d}
  <1>1. RowsOf(x)' = RowsOf(x)
    BY DEF RowsOf
  <1> QED
    BY <1>1, ResultFrame

\* An empty new run.
LEMMA OpenMaps ==
    ASSUME NEW d \in Docs, NEW text \in Texts,
           documents'[d].run_version = documents[d].run_version + 1,
           documents'[d].text = text, RowsOf(d)' = {},
           \A x \in Docs \ {d} : ResultOf(x)' = ResultOf(x)
    PROVE  Results!Open(d, text)
  <1>1. ResultOf(d)' = [run |-> Mapped[d].run + 1, text |-> text, found |-> {}, answers |-> {}]
    BY ResultFields DEF ResultOf
  <1> QED
    BY <1>1, MappedFrame DEF Results!Open, Mapped

\* The rows that an upsert adds to those of the document.
Missing(d, v, S) == {f \in S : \A t \in tokens : IdOf(t) # <<d, v, f>>}

LEMMA UpsertRows ==
    ASSUME NEW d \in Docs, NEW v, NEW S, tokens' = UpsertTokens(tokens, d, v, S)
    PROVE  /\ RowsOf(d)' = RowsOf(d) \cup {NewToken(d, v, f) : f \in Missing(d, v, S)}
           /\ \A t \in tokens : t \in tokens'
           /\ \A t \in tokens' : t.document_id # d => t \in tokens
           /\ \A f \in S : /\ NewToken(d, v, f).document_id = d
                           /\ NewToken(d, v, f).run_version = v
                           /\ NewToken(d, v, f).entity = f
                           /\ NewToken(d, v, f).status # "CLASSIFIED"
  <1>1. tokens' = tokens \cup {NewToken(d, v, f) : f \in Missing(d, v, S)}
    BY DEF UpsertTokens, Missing
  <1>2. \A f : /\ NewToken(d, v, f).document_id = d /\ NewToken(d, v, f).run_version = v
               /\ NewToken(d, v, f).entity = f /\ NewToken(d, v, f).status # "CLASSIFIED"
    BY DEF NewToken
  <1>3. RowsOf(d)' = RowsOf(d) \cup {NewToken(d, v, f) : f \in Missing(d, v, S)}
    BY <1>1, <1>2 DEF RowsOf
  <1> QED
    BY <1>1, <1>2, <1>3

\* An upsert into a run without rows finds all the entities of its text at once; one
\* into a run that has its rows changes nothing.
LEMMA UpsertMaps ==
    ASSUME NEW d \in Docs, NEW v, documents[d].run_version = v, v > 0,
           \A t \in RowsOf(d) : t.run_version = v,
           RowsOf(d) # {} => {t.entity : t \in RowsOf(d)} = Extract[documents[d].text],
           tokens' = UpsertTokens(tokens, d, v, Extract[documents[d].text]),
           documents'[d].run_version = v, documents'[d].text = documents[d].text,
           \A x \in Docs \ {d} : documents'[x] = documents[x]
    PROVE  /\ RowsOf(d) = {} \/ RowsOf(d)' = RowsOf(d)
           /\ {t.entity : t \in RowsOf(d)'} = Extract[documents[d].text]
           /\ Results!Find(d) \/ Mapped' = Mapped
  <1> DEFINE S == Extract[documents[d].text]
             F == Missing(d, v, S)
  <1>1. /\ RowsOf(d)' = RowsOf(d) \cup {NewToken(d, v, f) : f \in F}
        /\ \A f \in S : /\ NewToken(d, v, f).document_id = d /\ NewToken(d, v, f).entity = f
                        /\ NewToken(d, v, f).status # "CLASSIFIED"
    BY UpsertRows
  <1>2. \A x \in Docs \ {d} : ResultOf(x)' = ResultOf(x)
    BY UpsertRows, OthersFrame
  <1>3. F \subseteq S
    BY DEF Missing
  <1>4. CASE RowsOf(d) = {}
    <2>1. F = S
      BY <1>4 DEF Missing, RowsOf, IdOf
    <2> HIDE DEF F, S
    <2>2. {t.entity : t \in RowsOf(d)'} = S
      BY <1>1, <1>4, <2>1
    <2>3. {u \in RowsOf(d)' : u.status = "CLASSIFIED"} = {}
      BY <1>1, <1>4, <2>1
    <2>4. Mapped[d].found = {} /\ Mapped[d].answers = {}
      BY <1>4, ResultFields
    <2>5. ResultOf(d)' = [Mapped[d] EXCEPT !.found = Extract[Mapped[d].text]]
      <3>1. /\ ResultOf(d)'.run = Mapped[d].run /\ ResultOf(d)'.text = Mapped[d].text
            /\ ResultOf(d)'.answers = Mapped[d].answers
            /\ ResultOf(d)'.found = Extract[Mapped[d].text]
        BY <2>2, <2>3, <2>4, ResultFields DEF ResultOf, S
      <3>2. ResultOf(d)' = [run |-> ResultOf(d)'.run, text |-> ResultOf(d)'.text,
                            found |-> ResultOf(d)'.found, answers |-> ResultOf(d)'.answers]
        BY DEF ResultOf
      <3>3. Mapped[d] = [run |-> Mapped[d].run, text |-> Mapped[d].text,
                         found |-> Mapped[d].found, answers |-> Mapped[d].answers]
        BY ResultFields DEF ResultOf
      <3> QED
        BY <3>1, <3>2, <3>3
    <2>6. Mapped' = [Mapped EXCEPT ![d] = [Mapped[d] EXCEPT !.found = Extract[Mapped[d].text]]]
      BY <1>2, <2>5, MappedFrame
    <2>7. Results!Find(d)
      BY <2>4, <2>6, ResultFields DEF Results!Find, Mapped
    <2> QED
      BY <1>4, <2>2, <2>7 DEF S
  <1>5. CASE RowsOf(d) # {}
    <2>1. \A f \in S : \E t \in tokens : IdOf(t) = <<d, v, f>>
      <3> TAKE f \in S
      <3>1. PICK t \in RowsOf(d) : t.entity = f
        BY <1>5
      <3> QED
        BY <3>1 DEF RowsOf, IdOf
    <2>2. RowsOf(d)' = RowsOf(d)
      BY <1>1, <2>1 DEF Missing
    <2>3. ResultOf(d)' = ResultOf(d)
      BY <2>2, ResultFrame
    <2>4. Mapped' = Mapped
      BY <1>2, <2>3 DEF Mapped
    <2> QED
      BY <1>5, <2>2, <2>4
  <1> QED
    BY <1>4, <1>5

----------------------------------------------------------------------------
(* An answer. *)

\* The row t with its answer.
Answered(t, category) == [t EXCEPT !.status = "CLASSIFIED", !.classification = category]

\* SetTokenClassified replaces one row.
LEMMA ClassifiedRow ==
    ASSUME tokens \subseteq Token, NEW t \in tokens, NEW category,
           \A x, y \in tokens : IdOf(x) = IdOf(y) => x = y,
           tokens' = SetTokenClassified(tokens, IdOf(t), category)
    PROVE  /\ tokens' = (tokens \ {t}) \cup {Answered(t, category)}
           /\ RowsOf(t.document_id)'
                = (RowsOf(t.document_id) \ {t}) \cup {Answered(t, category)}
           /\ IdOf(Answered(t, category)) = IdOf(t)
           /\ Answered(t, category).document_id = t.document_id
           /\ Answered(t, category).run_version = t.run_version
           /\ Answered(t, category).entity = t.entity
           /\ Answered(t, category).status = "CLASSIFIED"
           /\ Answered(t, category).classification = category
  <1>1. /\ Answered(t, category).document_id = t.document_id
        /\ Answered(t, category).run_version = t.run_version
        /\ Answered(t, category).entity = t.entity
        /\ Answered(t, category).status = "CLASSIFIED"
        /\ Answered(t, category).classification = category
    BY DEF Answered, Token
  <1>2. IdOf(Answered(t, category)) = IdOf(t)
    BY <1>1 DEF IdOf
  <1>3. {x \in tokens : IdOf(x) = IdOf(t)} = {t}
    OBVIOUS
  <1>4. {x \in tokens : IdOf(x) # IdOf(t)} = tokens \ {t}
    OBVIOUS
  <1>5. tokens' = {x \in tokens : IdOf(x) # IdOf(t)}
                    \cup {Answered(x, category) : x \in {y \in tokens : IdOf(y) = IdOf(t)}}
    BY DEF SetTokenClassified, Answered
  <1>6. tokens' = (tokens \ {t}) \cup {Answered(t, category)}
    BY <1>3, <1>4, <1>5
  <1>7. RowsOf(t.document_id)' = (RowsOf(t.document_id) \ {t}) \cup {Answered(t, category)}
    BY <1>1, <1>6 DEF RowsOf
  <1> QED
    BY <1>1, <1>2, <1>6, <1>7

\* The result is one more answer, for an entity that had none.
LEMMA ClassifiedMaps ==
    ASSUME tokens \subseteq Token, NEW t \in tokens, NEW category \in Categories,
           t.status # "CLASSIFIED",
           \A x, y \in tokens : IdOf(x) = IdOf(y) => x = y,
           \A x \in RowsOf(t.document_id) : x.run_version = t.run_version,
           tokens' = SetTokenClassified(tokens, IdOf(t), category),
           \A x \in Docs : /\ documents'[x].run_version = documents[x].run_version
                           /\ documents'[x].text = documents[x].text
    PROVE  Results!Answer(t.document_id, t.entity, category)
  <1>a. PICK d : d = t.document_id
    OBVIOUS
  <1>b. PICK u : u = Answered(t, category)
    OBVIOUS
  <1>0. d \in Docs /\ t.entity \in Entities
    BY <1>a DEF Token
  <1>1. /\ tokens' = (tokens \ {t}) \cup {u}
        /\ u.document_id = d /\ u.entity = t.entity
        /\ u.status = "CLASSIFIED" /\ u.classification = category
        /\ RowsOf(d)' = (RowsOf(d) \ {t}) \cup {u} /\ t \in RowsOf(d)
    BY <1>a, <1>b, ClassifiedRow DEF RowsOf
  <1>2. \A x \in Docs \ {d} : ResultOf(x)' = ResultOf(x)
    <2> TAKE x \in Docs \ {d}
    <2>1. RowsOf(x)' = RowsOf(x)
      BY <1>1, <1>a DEF RowsOf
    <2> QED
      BY <2>1, ResultFrame
  <1>3. t.entity \in Mapped[d].found
    BY <1>0, <1>1, ResultFields
  <1>4. \A a \in Mapped[d].answers : a[1] # t.entity
    <2> SUFFICES ASSUME NEW y \in RowsOf(d), y.status = "CLASSIFIED", y.entity = t.entity
                 PROVE  FALSE
      BY <1>0, ResultFields
    <2>1. y \in tokens /\ y.document_id = d
      BY DEF RowsOf
    <2>2. IdOf(y) = IdOf(t)
      BY <1>a, <2>1 DEF IdOf
    <2> QED
      BY <2>1, <2>2
  <1>5. ResultOf(d)' = [Mapped[d] EXCEPT !.answers = @ \cup {<<t.entity, category>>}]
    <2> DEFINE old == {x \in RowsOf(d) : x.status = "CLASSIFIED"}
               new == {x \in RowsOf(d)' : x.status = "CLASSIFIED"}
    <2>1. {x.entity : x \in RowsOf(d)'} = {x.entity : x \in RowsOf(d)}
      BY <1>1
    <2>2. new = old \cup {u} /\ <<u.entity, u.classification>> = <<t.entity, category>>
      BY <1>1
    <2>3. ResultOf(d)'.answers = {<<x.entity, x.classification>> : x \in new}
      BY DEF ResultOf
    <2>4. Mapped[d].answers = {<<x.entity, x.classification>> : x \in old}
      BY <1>0, ResultFields
    <2>5. ResultOf(d)'.answers = Mapped[d].answers \cup {<<t.entity, category>>}
      <3> HIDE DEF old, new
      <3> QED
        BY <2>2, <2>3, <2>4
    <2>6. /\ ResultOf(d)'.run = Mapped[d].run /\ ResultOf(d)'.text = Mapped[d].text
          /\ ResultOf(d)'.found = Mapped[d].found
      BY <1>0, <2>1, ResultFields DEF ResultOf
    <2>7. ResultOf(d)' = [run |-> ResultOf(d)'.run, text |-> ResultOf(d)'.text,
                          found |-> ResultOf(d)'.found, answers |-> ResultOf(d)'.answers]
      BY DEF ResultOf
    <2>8. Mapped[d] = [run |-> Mapped[d].run, text |-> Mapped[d].text,
                       found |-> Mapped[d].found, answers |-> Mapped[d].answers]
      BY <1>0, ResultFields DEF ResultOf
    <2> QED
      BY <2>5, <2>6, <2>7, <2>8
  <1>6. Mapped' = [Mapped EXCEPT ![d] = [Mapped[d] EXCEPT !.answers = @ \cup {<<t.entity, category>>}]]
    BY <1>0, <1>2, <1>5, MappedFrame
  <1>7. Results!Answer(d, t.entity, category)
    BY <1>3, <1>4, <1>6 DEF Results!Answer, Results!Answered, Mapped
  <1> QED
    BY <1>7, <1>a

----------------------------------------------------------------------------
(* The tables' invariant. *)

ClassifiedRows(d) == {t \in RowsOf(d) : t.status = "CLASSIFIED"}

\* The natural key is a key.
KeysOK == IsFiniteSet(tokens) /\ \A t, u \in tokens : IdOf(t) = IdOf(u) => t = u

\* A row holds a submitted text and has had a run; a missing row is all defaults.
RowOK(d) ==
    IF Exists(d) THEN documents[d].text \in Texts /\ documents[d].run_version > 0
    ELSE documents[d] = NoDocument /\ RowsOf(d) = {}

\* Tokens are of the document's current run.
OneRun(d) == \A t \in RowsOf(d) : t.run_version = documents[d].run_version

\* persist writes all of a text's tokens or none, and COMPLETED comes after it.
FoundOK(d) ==
    RowsOf(d) # {} \/ documents[d].status = "COMPLETED" =>
        {t.entity : t \in RowsOf(d)} = Extract[documents[d].text]

\* The columns count the rows, and COMPLETED means that every row is answered.
CountsOK(d) ==
    /\ documents[d].classified_count = Cardinality(ClassifiedRows(d))
    /\ RowsOf(d) # {} => documents[d].total_tokens = Cardinality(RowsOf(d))
    /\ documents[d].status = "COMPLETED" =>
          /\ documents[d].total_tokens = Cardinality(RowsOf(d))
          /\ ClassifiedRows(d) = RowsOf(d)

RowsOK(d) == RowOK(d) /\ OneRun(d) /\ FoundOK(d) /\ CountsOK(d)

DatabaseInv ==
    /\ documents \in [Docs -> Document] /\ tokens \subseteq Token
    /\ KeysOK
    /\ \A d \in Docs : RowsOK(d)

\* A document whose row and token rows stay the same stays in order.
LEMMA RowsFrame ==
    ASSUME NEW d \in Docs, RowsOK(d), documents'[d] = documents[d], RowsOf(d)' = RowsOf(d)
    PROVE  RowsOK(d)'
  BY DEF RowsOK, RowOK, OneRun, FoundOK, CountsOK, ClassifiedRows, Exists

\* The rows of a document are finitely many, before and after a step.
LEMMA RowsFinite ==
    ASSUME NEW d
    PROVE  /\ KeysOK => /\ IsFiniteSet(RowsOf(d)) /\ Cardinality(RowsOf(d)) \in Nat
                        /\ IsFiniteSet(ClassifiedRows(d))
                        /\ Cardinality(ClassifiedRows(d)) \in Nat
           /\ KeysOK' => /\ IsFiniteSet(RowsOf(d)') /\ Cardinality(RowsOf(d)') \in Nat
                         /\ IsFiniteSet(ClassifiedRows(d)')
  <1>1. RowsOf(d) \in SUBSET tokens /\ ClassifiedRows(d) \in SUBSET tokens
    BY DEF RowsOf, ClassifiedRows
  <1>2. RowsOf(d)' \in SUBSET tokens' /\ ClassifiedRows(d)' \in SUBSET tokens'
    BY DEF RowsOf, ClassifiedRows
  <1>3. ASSUME KeysOK
        PROVE  /\ IsFiniteSet(RowsOf(d)) /\ Cardinality(RowsOf(d)) \in Nat
               /\ IsFiniteSet(ClassifiedRows(d)) /\ Cardinality(ClassifiedRows(d)) \in Nat
    BY <1>1, <1>3, FS_Subset, FS_CardinalityType DEF KeysOK
  <1>4. ASSUME KeysOK'
        PROVE  /\ IsFiniteSet(RowsOf(d)') /\ Cardinality(RowsOf(d)') \in Nat
               /\ IsFiniteSet(ClassifiedRows(d)')
    BY <1>2, <1>4, FS_Subset, FS_CardinalityType DEF KeysOK
  <1> QED
    BY <1>3, <1>4

\* A step that leaves a document without token rows, in a run of its own.
LEMMA EmptyRun ==
    ASSUME NEW d \in Docs, RowsOf(d)' = {}, documents'[d].status \notin {"NONE", "COMPLETED"},
           documents'[d].text \in Texts, documents'[d].run_version > 0,
           documents'[d].classified_count = 0
    PROVE  RowsOK(d)'
  <1>1. ClassifiedRows(d)' = {}
    BY DEF ClassifiedRows
  <1> QED
    BY <1>1, FS_EmptySet DEF RowsOK, RowOK, OneRun, FoundOK, CountsOK, Exists

\* Submit of a new document.
LEMMA InsertKeeps ==
    ASSUME DatabaseInv, NEW d \in Docs, NEW text \in Texts, ~Exists(d),
           documents' = InsertDocument(documents, d, text), UNCHANGED tokens
    PROVE  DatabaseInv' /\ Results!Open(d, text)
  <1>1. documents \in [Docs -> Document] /\ documents[d] = NoDocument /\ RowsOf(d) = {}
    BY DEF DatabaseInv, RowsOK, RowOK
  <1>2. /\ documents'[d].status = "PENDING" /\ documents'[d].run_version = 1
        /\ documents'[d].text = text /\ documents'[d].classified_count = 0
        /\ \A x \in Docs \ {d} : documents'[x] = documents[x]
        /\ documents' \in [Docs -> Document]
    BY <1>1 DEF InsertDocument, NoDocument, Document, DocStatus, ActiveStatus
  <1>3. \A x \in Docs : RowsOf(x)' = RowsOf(x)
    BY DEF RowsOf
  <1>4. \A x \in Docs \ {d} : ResultOf(x)' = ResultOf(x)
    BY <1>2, OthersFrame
  <1>5. RowsOK(d)'
    BY <1>1, <1>2, <1>3, EmptyRun
  <1>6. \A x \in Docs \ {d} : RowsOK(x)'
    BY <1>2, <1>3, RowsFrame DEF DatabaseInv
  <1>7. Results!Open(d, text)
    <2>1. documents'[d].run_version = documents[d].run_version + 1
      BY <1>1, <1>2 DEF NoDocument
    <2> QED
      BY <1>1, <1>2, <1>3, <1>4, <2>1, OpenMaps
  <1> QED
    BY <1>2, <1>5, <1>6, <1>7 DEF DatabaseInv, KeysOK

\* Submit of a full rerun.
LEMMA ResetKeeps ==
    ASSUME DatabaseInv, NEW d \in Docs, NEW text \in Texts,
           documents' = ResetDocument(documents, d, text), tokens' = DeleteTokens(tokens, d)
    PROVE  DatabaseInv' /\ Results!Open(d, text)
  <1>1. documents \in [Docs -> Document] /\ documents[d].run_version \in Nat
    BY DEF DatabaseInv, Document
  <1>2. /\ documents'[d].status = "PENDING"
        /\ documents'[d].run_version = documents[d].run_version + 1
        /\ documents'[d].text = text /\ documents'[d].classified_count = 0
        /\ \A x \in Docs \ {d} : documents'[x] = documents[x]
        /\ documents' \in [Docs -> Document]
    BY <1>1 DEF ResetDocument, Document, DocStatus, ActiveStatus
  <1>3. tokens' = {t \in tokens : t.document_id # d}
    BY DEF DeleteTokens
  <1>4. RowsOf(d)' = {}
    BY <1>3 DEF RowsOf
  <1>5. \A x \in Docs \ {d} : RowsOf(x)' = RowsOf(x) /\ ResultOf(x)' = ResultOf(x)
    BY <1>2, <1>3, OthersFrame
  <1>6. RowsOK(d)'
    BY <1>1, <1>2, <1>4, EmptyRun
  <1>7. \A x \in Docs \ {d} : RowsOK(x)'
    BY <1>2, <1>5, RowsFrame DEF DatabaseInv
  <1>8. Results!Open(d, text)
    BY <1>2, <1>4, <1>5, OpenMaps
  <1>9. KeysOK' /\ tokens' \subseteq Token
    <2>1. tokens' \in SUBSET tokens
      BY <1>3
    <2> QED
      BY <2>1, FS_Subset DEF DatabaseInv, KeysOK
  <1> QED
    BY <1>2, <1>6, <1>7, <1>8, <1>9 DEF DatabaseInv

\* A status of an unfinished document, and its stamps.
LEMMA StatusKeeps ==
    ASSUME DatabaseInv, NEW d \in Docs, Exists(d), NEW row \in Document,
           documents' = [documents EXCEPT ![d] = row], UNCHANGED tokens,
           row.status \notin {"NONE", "COMPLETED"}, row.run_version = documents[d].run_version,
           row.text = documents[d].text, row.total_tokens = documents[d].total_tokens,
           row.classified_count = documents[d].classified_count
    PROVE  DatabaseInv' /\ Mapped' = Mapped
  <1>1. documents \in [Docs -> Document] /\ RowsOK(d)
    BY DEF DatabaseInv
  <1>2. documents'[d] = row /\ \A x \in Docs \ {d} : documents'[x] = documents[x]
    BY <1>1
  <1>3. \A x \in Docs : RowsOf(x)' = RowsOf(x)
    BY DEF RowsOf
  <1>4. Mapped' = Mapped
    BY <1>2, StatusOnly
  <1>5. RowsOK(d)'
    BY <1>1, <1>2, <1>3 DEF RowsOK, RowOK, OneRun, FoundOK, CountsOK, ClassifiedRows, Exists
  <1>6. \A x \in Docs \ {d} : RowsOK(x)'
    BY <1>2, <1>3, RowsFrame DEF DatabaseInv
  <1>7. documents' \in [Docs -> Document]
    BY <1>1
  <1> QED
    BY <1>4, <1>5, <1>6, <1>7 DEF DatabaseInv, KeysOK

----------------------------------------------------------------------------
(* persist. *)

\* The upsert keeps the natural key and the types.
LEMMA UpsertKeys ==
    ASSUME KeysOK, tokens \subseteq Token, NEW d \in Docs, NEW v \in Nat,
           NEW S \in SUBSET Entities, tokens' = UpsertTokens(tokens, d, v, S)
    PROVE  KeysOK' /\ tokens' \subseteq Token
  <1> DEFINE F == Missing(d, v, S)
             N == {NewToken(d, v, e) : e \in F}
             g == [e \in F |-> NewToken(d, v, e)]
  <1>1. tokens' = tokens \cup N
    BY DEF UpsertTokens, Missing
  <1>2. F \subseteq S /\ F \subseteq Entities
    BY DEF Missing
  <1>3. IsFiniteSet(F)
    BY <1>2, EntitiesAssumption, FS_Subset
  <1>4. g \in Surjection(F, N)
    BY DEF Surjection
  <1>5. IsFiniteSet(N)
    <2> HIDE DEF F, N, g
    <2> QED
      BY <1>3, <1>4, FS_Surjection
  <1>6. IsFiniteSet(tokens')
    <2> HIDE DEF N
    <2>1. IsFiniteSet(tokens)
      BY DEF KeysOK
    <2>2. IsFiniteSet(tokens \cup N)
      BY <1>5, <2>1, FS_Union
    <2> QED
      BY <1>1, <2>2
  <1>7. \A e \in F : /\ IdOf(NewToken(d, v, e)) = <<d, v, e>>
                     /\ NewToken(d, v, e) \in Token
                     /\ \A t \in tokens : IdOf(t) # <<d, v, e>>
    BY <1>2 DEF IdOf, NewToken, Token, TokenStatus, Missing
  <1>8. \A t, u \in tokens' : IdOf(t) = IdOf(u) => t = u
    <2> SUFFICES ASSUME NEW t \in tokens', NEW u \in tokens', IdOf(t) = IdOf(u)
                 PROVE  t = u
      OBVIOUS
    <2>1. CASE t \in tokens /\ u \in tokens
      BY <2>1 DEF KeysOK
    <2>2. CASE t \in N /\ u \in N
      BY <1>7, <2>2
    <2>3. CASE (t \in tokens /\ u \in N) \/ (t \in N /\ u \in tokens)
      BY <1>7, <2>3
    <2> QED
      BY <1>1, <2>1, <2>2, <2>3
  <1> QED
    BY <1>1, <1>6, <1>7, <1>8 DEF KeysOK

\* The first persist of a run fills it, another one changes no row; the count of
\* the rows is the document's.
LEMMA PersistKeeps ==
    ASSUME DatabaseInv, NEW d \in Docs, NEW v, Exists(d), documents[d].run_version = v,
           NEW total, total = CountTokens(tokens', d, v),
           tokens' = UpsertTokens(tokens, d, v, Extract[documents[d].text]),
           documents' = IF total = 0 THEN MarkExtractionCompletedEmpty(documents, d)
                        ELSE AdvanceToClassifying(documents, d, total)
    PROVE  DatabaseInv' /\ (Results!Find(d) \/ Mapped' = Mapped)
  <1> DEFINE S == Extract[documents[d].text]
  <1>1. /\ documents \in [Docs -> Document] /\ documents[d] \in Document /\ tokens \subseteq Token
        /\ KeysOK /\ RowsOK(d) /\ v \in Nat /\ v > 0 /\ documents[d].text \in Texts
    BY DEF DatabaseInv, RowsOK, RowOK, Document
  <1>2. S \in SUBSET Entities
    BY <1>1, ExtractAssumption
  <1>3. KeysOK' /\ tokens' \subseteq Token
    <2> HIDE DEF S
    <2> QED
      BY <1>1, <1>2, UpsertKeys DEF S
  <1>4. /\ documents'[d].run_version = v /\ documents'[d].text = documents[d].text
        /\ documents'[d].classified_count = documents[d].classified_count
        /\ documents'[d].total_tokens = total
        /\ documents'[d].status = (IF total = 0 THEN "COMPLETED" ELSE "CLASSIFYING")
        /\ \A x \in Docs \ {d} : documents'[x] = documents[x]
    <2>1. CASE total = 0
      BY <1>1, <2>1 DEF MarkExtractionCompletedEmpty, Document
    <2>2. CASE total # 0
      BY <1>1, <2>2 DEF AdvanceToClassifying, Document
    <2> QED
      BY <2>1, <2>2
  <1>5. \A x \in Docs \ {d} : RowsOf(x)' = RowsOf(x)
    BY <1>4, UpsertRows, OthersFrame
  <1>6. /\ \A t \in RowsOf(d) : t.run_version = v
        /\ RowsOf(d) # {} => {t.entity : t \in RowsOf(d)} = S
    BY <1>1 DEF RowsOK, OneRun, FoundOK
  <1>7. /\ RowsOf(d) = {} \/ RowsOf(d)' = RowsOf(d)
        /\ {t.entity : t \in RowsOf(d)'} = S
        /\ Results!Find(d) \/ Mapped' = Mapped
    BY <1>1, <1>4, <1>6, UpsertMaps
  <1>8. /\ \A t \in RowsOf(d)' : t.run_version = v
        /\ \A t \in RowsOf(d)' \ RowsOf(d) : t.status # "CLASSIFIED"
    BY <1>6, UpsertRows DEF Missing
  <1>9. /\ IsFiniteSet(RowsOf(d)) /\ IsFiniteSet(RowsOf(d)') /\ Cardinality(RowsOf(d)') \in Nat
    BY <1>1, <1>3, RowsFinite
  <1>10. total = Cardinality(RowsOf(d)')
    <2>1. TokensForRun(tokens', d, v) = RowsOf(d)'
      BY <1>8 DEF TokensForRun, RowsOf
    <2> QED
      BY <2>1 DEF CountTokens
  <1>11. ClassifiedRows(d)' = ClassifiedRows(d)
    BY <1>7, <1>8 DEF ClassifiedRows
  <1>12. documents' \in [Docs -> Document]
    <2>1. total \in Nat
      BY <1>9, <1>10
    <2>2. CASE total = 0
      BY <1>1, <2>2 DEF MarkExtractionCompletedEmpty, Document, DocStatus, Stamps
    <2>3. CASE total # 0
      BY <1>1, <2>1, <2>3 DEF AdvanceToClassifying, Document, DocStatus, ActiveStatus, Stamps
    <2> QED
      BY <2>2, <2>3
  <1>13. RowsOK(d)'
    <2>1. RowOK(d)'
      BY <1>1, <1>4 DEF RowOK, Exists
    <2>2. OneRun(d)' /\ FoundOK(d)'
      BY <1>4, <1>7, <1>8 DEF OneRun, FoundOK
    <2>3. documents'[d].classified_count = Cardinality(ClassifiedRows(d)')
      BY <1>1, <1>4, <1>11 DEF RowsOK, CountsOK
    <2>4. ASSUME documents'[d].status = "COMPLETED"
          PROVE  ClassifiedRows(d)' = RowsOf(d)'
      <3>1. RowsOf(d)' = {}
        BY <1>4, <1>9, <1>10, <2>4, FS_EmptySet
      <3> QED
        BY <3>1 DEF ClassifiedRows
    <2>5. CountsOK(d)'
      BY <1>4, <1>10, <2>3, <2>4 DEF CountsOK
    <2> QED
      BY <2>1, <2>2, <2>5 DEF RowsOK
  <1>14. \A x \in Docs \ {d} : RowsOK(x)'
    BY <1>4, <1>5, RowsFrame DEF DatabaseInv
  <1> QED
    BY <1>3, <1>7, <1>12, <1>13, <1>14 DEF DatabaseInv

----------------------------------------------------------------------------
(* apply. *)

\* An answer is counted, and the answer that completes the document is the last.
LEMMA ApplyKeeps ==
    ASSUME DatabaseInv, NEW t \in tokens, NEW category \in Categories, NEW d,
           d = t.document_id, t.status # "CLASSIFIED",
           tokens' = SetTokenClassified(tokens, IdOf(t), category),
           NEW counted, counted = IncrementClassifiedCount(documents, d),
           documents' = IF counted[d].classified_count >= counted[d].total_tokens
                        THEN MarkDocumentCompleted(counted, d) ELSE counted
    PROVE  /\ DatabaseInv' /\ d \in Docs /\ t.entity \in Entities
           /\ Results!Answer(d, t.entity, category)
  <1>b. PICK u : u = Answered(t, category)
    OBVIOUS
  <1>0. /\ tokens \subseteq Token /\ documents \in [Docs -> Document] /\ KeysOK
        /\ d \in Docs /\ documents[d] \in Document /\ t.entity \in Entities /\ RowsOK(d)
        /\ t \in RowsOf(d)
    BY DEF DatabaseInv, Token, RowsOf
  <1>1. /\ tokens' = (tokens \ {t}) \cup {u}
        /\ RowsOf(d)' = (RowsOf(d) \ {t}) \cup {u}
        /\ IdOf(u) = IdOf(t) /\ u.document_id = d /\ u.run_version = t.run_version
        /\ u.entity = t.entity /\ u.status = "CLASSIFIED"
    BY <1>0, <1>b, ClassifiedRow DEF KeysOK
  <1>2. KeysOK' /\ tokens' \subseteq Token
    <2>1. u \in Token
      BY <1>0, <1>b DEF Answered, Token, TokenStatus
    <2>2. IsFiniteSet(tokens')
      <3>1. IsFiniteSet(tokens)
        BY <1>0 DEF KeysOK
      <3>2. IsFiniteSet(tokens \ {t})
        BY <3>1, FS_RemoveElement
      <3>3. IsFiniteSet((tokens \ {t}) \cup {u})
        BY <3>2, FS_AddElement
      <3> QED
        BY <1>1, <3>3
    <2> QED
      BY <1>0, <1>1, <2>1, <2>2 DEF KeysOK
  <1>3. /\ counted \in [Docs -> Document]
        /\ counted[d].classified_count = documents[d].classified_count + 1
        /\ counted[d].total_tokens = documents[d].total_tokens
        /\ counted[d].status = documents[d].status /\ counted[d].text = documents[d].text
        /\ counted[d].run_version = documents[d].run_version
        /\ \A x \in Docs \ {d} : counted[x] = documents[x]
    BY <1>0 DEF IncrementClassifiedCount, Document
  <1>4. /\ documents' \in [Docs -> Document]
        /\ documents'[d].classified_count = documents[d].classified_count + 1
        /\ documents'[d].total_tokens = documents[d].total_tokens
        /\ documents'[d].text = documents[d].text
        /\ documents'[d].run_version = documents[d].run_version
        /\ documents'[d].status = (IF counted[d].classified_count >= counted[d].total_tokens
                                   THEN "COMPLETED" ELSE documents[d].status)
        /\ \A x \in Docs \ {d} : documents'[x] = documents[x]
    <2>1. CASE counted[d].classified_count >= counted[d].total_tokens
      <3>1. documents' = [counted EXCEPT ![d] =
                [counted[d] EXCEPT !.status = "COMPLETED",
                                   !.stamped = @ \cup {"classification_completed_at"}]]
        BY <2>1 DEF MarkDocumentCompleted
      <3>2. counted[d] \in Document
        BY <1>0, <1>3
      <3>3. [counted[d] EXCEPT !.status = "COMPLETED",
                               !.stamped = @ \cup {"classification_completed_at"}] \in Document
        BY <3>2 DEF Document, DocStatus, Stamps
      <3>4. documents' \in [Docs -> Document] /\ \A x \in Docs \ {d} : documents'[x] = documents[x]
        BY <1>0, <1>3, <3>1, <3>3
      <3>5. documents'[d] = [counted[d] EXCEPT !.status = "COMPLETED",
                                               !.stamped = @ \cup {"classification_completed_at"}]
        BY <1>0, <1>3, <3>1
      <3> QED
        BY <1>3, <2>1, <3>2, <3>4, <3>5 DEF Document
    <2>2. CASE ~(counted[d].classified_count >= counted[d].total_tokens)
      BY <1>3, <2>2
    <2> QED
      BY <2>1, <2>2
  <1>5. \A x \in Docs \ {d} : RowsOf(x)' = RowsOf(x)
    BY <1>1 DEF RowsOf
  <1>6. Results!Answer(d, t.entity, category)
    <2>1. \A x \in RowsOf(d) : x.run_version = t.run_version
      BY <1>0 DEF RowsOK, OneRun
    <2>2. \A x \in Docs : /\ documents'[x].run_version = documents[x].run_version
                          /\ documents'[x].text = documents[x].text
      BY <1>4
    <2> QED
      BY <1>0, <2>1, <2>2, ClassifiedMaps DEF KeysOK
  <1>7. /\ ClassifiedRows(d)' = ClassifiedRows(d) \cup {u}
        /\ u \notin ClassifiedRows(d) /\ u \notin RowsOf(d) \ {t} /\ t \in RowsOf(d)
    <2>1. u \notin RowsOf(d)
      BY <1>0, <1>1 DEF KeysOK, RowsOf
    <2> QED
      BY <1>0, <1>1, <2>1 DEF ClassifiedRows
  <1>8. /\ IsFiniteSet(RowsOf(d)) /\ IsFiniteSet(ClassifiedRows(d)) /\ IsFiniteSet(RowsOf(d)')
        /\ Cardinality(RowsOf(d)) \in Nat /\ Cardinality(ClassifiedRows(d)) \in Nat
    BY <1>0, <1>2, RowsFinite
  <1>9. Cardinality(ClassifiedRows(d)') = Cardinality(ClassifiedRows(d)) + 1
    BY <1>7, <1>8, FS_AddElement
  <1>10. Cardinality(RowsOf(d)') = Cardinality(RowsOf(d))
    <2>1. IsFiniteSet(RowsOf(d) \ {t}) /\ Cardinality(RowsOf(d) \ {t}) = Cardinality(RowsOf(d)) - 1
      BY <1>7, <1>8, FS_RemoveElement
    <2>2. Cardinality((RowsOf(d) \ {t}) \cup {u}) = Cardinality(RowsOf(d) \ {t}) + 1
      BY <1>7, <2>1, FS_AddElement
    <2> QED
      BY <1>1, <1>8, <2>1, <2>2
  <1>11. /\ documents[d].classified_count = Cardinality(ClassifiedRows(d))
         /\ documents[d].total_tokens = Cardinality(RowsOf(d))
         /\ ClassifiedRows(d) # RowsOf(d)
    BY <1>0 DEF RowsOK, CountsOK, ClassifiedRows
  <1>12. RowsOK(d)'
    <2>1. RowOK(d)'
      BY <1>0, <1>4 DEF RowsOK, RowOK, Exists
    <2>2. OneRun(d)'
      BY <1>0, <1>1, <1>4 DEF RowsOK, OneRun
    <2>3. FoundOK(d)'
      <3>1. {x.entity : x \in RowsOf(d)'} = {x.entity : x \in RowsOf(d)}
        BY <1>0, <1>1
      <3> QED
        BY <1>0, <1>4, <3>1 DEF RowsOK, FoundOK
    <2>4. ASSUME documents'[d].status = "COMPLETED"
          PROVE  ClassifiedRows(d)' = RowsOf(d)'
      <3>1. documents[d].status # "COMPLETED"
        BY <1>0, <1>11 DEF RowsOK, CountsOK
      <3>2. Cardinality(ClassifiedRows(d)') >= Cardinality(RowsOf(d)')
        BY <1>3, <1>4, <1>9, <1>10, <1>11, <2>4, <3>1
      <3>3. ClassifiedRows(d)' \in SUBSET RowsOf(d)'
        BY DEF ClassifiedRows
      <3>4. /\ Cardinality(ClassifiedRows(d)') <= Cardinality(RowsOf(d)')
            /\ Cardinality(RowsOf(d)') = Cardinality(ClassifiedRows(d)')
                 => RowsOf(d)' = ClassifiedRows(d)'
        BY <1>8, <3>3, FS_Subset
      <3> QED
        BY <1>8, <1>9, <1>10, <3>2, <3>4
    <2>5. CountsOK(d)'
      BY <1>4, <1>9, <1>10, <1>11, <2>4 DEF CountsOK
    <2> QED
      BY <2>1, <2>2, <2>3, <2>5 DEF RowsOK
  <1>13. \A x \in Docs \ {d} : RowsOK(x)'
    BY <1>4, <1>5, RowsFrame DEF DatabaseInv
  <1> QED
    BY <1>0, <1>2, <1>4, <1>6, <1>12, <1>13 DEF DatabaseInv
============================================================================
