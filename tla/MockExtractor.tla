--------------------------- MODULE MockExtractor ---------------------------
(***************************************************************************)
(* MockExtractor.Extract (internal/nlp/mock.go): the text is cut into      *)
(* sentences, each rule in turn claims spans of a sentence, and the spans  *)
(* become entities with a page, a sentence number and a rune offset.       *)
(*                                                                         *)
(* A text is its sequence of bytes, by class: a letter or digit, a         *)
(* terminator (. ! ?), a space or tab, LF, FF, and the two bytes of a rune *)
(* outside ASCII, the first of which says whether the rune is white space  *)
(* such as U+00A0 (wide) or not (lead).  Offsets count from 0, as in Go;   *)
(* text[lo:hi] is SubSeq(text, lo + 1, hi).  What the regular expressions  *)
(* of the rules match is any set of spans that their common shape allows.  *)
(***************************************************************************)
EXTENDS Integers, Sequences, FiniteSets

CONSTANTS
    MaxBytes,   \* bound: the length of a text
    Rules       \* the number of rules

ASSUME MockExtractorAssumption == MaxBytes \in Nat /\ Rules \in Nat

Bytes == {"x", ".", "SP", "LF", "FF", "lead", "wide", "cont"}

\* First bytes of two.
Leads == {"lead", "wide"}

\* Valid UTF-8: first and continuation bytes come in pairs.
Texts == {t \in UNION {[1..n -> Bytes] : n \in 0..MaxBytes} :
            \A i \in 0..Len(t) : (i > 0 /\ t[i] \in Leads) <=> (i < Len(t) /\ t[i + 1] = "cont")}

\* \s of a regular expression: ASCII only.
Space == {"SP", "LF", "FF"}

VARIABLES
    text,
    pc,         \* "boundaries", "rules", "returned"
    pos,        \* where the search for the next boundary starts
    starts,     \* starts of splitSentences
    sentences,  \* its result
    current,    \* the sentence being scanned
    found,      \* found[r]: the matches of rule r in it
    spans,      \* spans of extractSentence, with their rule: byte offsets in the sentence
    entities    \* the result; `at' is where the span starts, in bytes

vars == <<text, pc, pos, starts, sentences, current, found, spans, entities>>

Init ==
    /\ text \in Texts
    /\ pc = "boundaries"
    /\ pos = 0
    /\ starts = <<0>>
    /\ sentences = <<>> /\ current = 1
    /\ found = <<>> /\ spans = {}
    /\ entities = <<>>

Byte(i) == text[i + 1]

----------------------------------------------------------------------------
(* Mutants (no specification uses them). *)

\* len(prefix) in place of the rune count.
RuneCountInBytes(i) == i

\* A line break is one LF, and a terminator needs no space after it.
MatchEndLoose(p) ==
    IF Byte(p) \in {".", "LF"} THEN p + 1 ELSE p

\* A span is free if it starts outside the others.
OverlapAtStart(a, b) == b.start < a.start /\ a.start < b.end

\* Spans that touch overlap.
OverlapTouching(a, b) == a.start <= b.end /\ a.end >= b.start

----------------------------------------------------------------------------

\* utf8.RuneCountInString(text[:i]): continuation bytes start no rune.
RuneCount(i) == Cardinality({j \in 1..i : text[j] # "cont"})

\* strings.Count(text[:i], "\f").
FormFeeds(i) == Cardinality({j \in 1..i : text[j] = "FF"})

\* The end of the longest run of bytes in S from p on.
RunEnd(p, S) ==
    CHOOSE q \in p..Len(text) : /\ \A i \in p..q - 1 : Byte(i) \in S
                                /\ q = Len(text) \/ Byte(q) \notin S

\* Where the match of sentenceBoundary ([.!?]+\s+|\n+) at p ends; p if it does not
\* match there.
MatchEnd(p) ==
    LET q == RunEnd(p, {"."}) IN
    IF q > p THEN (IF RunEnd(q, Space) > q THEN RunEnd(q, Space) ELSE p)
             ELSE RunEnd(p, {"LF"})

\* FindAllStringIndex: the leftmost match, then the search goes on behind it.
NextBoundary ==
    /\ pc = "boundaries"
    /\ \E p \in pos..Len(text) - 1 :
          /\ MatchEnd(p) > p
          /\ \A q \in pos..p - 1 : MatchEnd(q) = q
          /\ pos' = MatchEnd(p)
          /\ starts' = Append(starts, MatchEnd(p))
    /\ UNCHANGED <<text, pc, sentences, current, found, spans, entities>>

\* The ways of writing S as a sequence that respects Less.
Orders(S, Less(_, _)) ==
    {q \in [1..Cardinality(S) -> S] : \A i, j \in DOMAIN q : i < j => Less(q[i], q[j])}

Segment(i) == [lo |-> starts[i],
               hi |-> IF i < Len(starts) THEN starts[i + 1] ELSE Len(text)]

\* strings.TrimSpace leaves nothing: it strips white space outside ASCII, too.
Blank(s) == \A i \in s.lo..s.hi - 1 : Byte(i) \in Space \cup {"wide", "cont"}

\* The segments that are not blank; a sentence's index is its place among them.
SplitSentences ==
    /\ pc = "boundaries"
    /\ \A p \in pos..Len(text) - 1 : MatchEnd(p) = p
    /\ LET kept == {i \in 1..Len(starts) : ~Blank(Segment(i))}
       IN  \E q \in Orders(kept, LAMBDA i, j : i < j) :
              sentences' = [k \in 1..Cardinality(kept) |-> Segment(q[k])]
    /\ pc' = "rules"
    /\ UNCHANGED <<text, pos, starts, current, found, spans, entities>>

\* A match starts and ends at a word boundary, or ends in a full stop, and holds
\* no rune outside ASCII.
Word(s, i) == i \in 0..s.hi - s.lo - 1 /\ Byte(s.lo + i) = "x"

Candidates(s) ==
    {m \in [start : 0..s.hi - s.lo - 1, end : 1..s.hi - s.lo] :
        /\ m.start < m.end
        /\ Word(s, m.start) /\ ~Word(s, m.start - 1)
        /\ \/ Word(s, m.end - 1) /\ ~Word(s, m.end)
           \/ Byte(s.lo + m.end - 1) = "."
        /\ \A i \in m.start..m.end - 1 : Byte(s.lo + i) \notin Leads \cup {"cont"}}

\* occupied.
Overlap(a, b) == a.start < b.end /\ a.end > b.start

\* The matches of one rule do not overlap, being those of FindAllStringIndex.
Disjoint(M) == \A a, b \in M : a = b \/ a.end <= b.start \/ b.end <= a.start

\* What FindAllStringIndex can find in sentence s and the name filters keep.
Matches(s) == {M \in SUBSET Candidates(s) : Disjoint(M)}

\* One rule: the free matches are added.
ApplyRule(matches) ==
    /\ pc = "rules"
    /\ current <= Len(sentences) /\ Len(found) < Rules
    /\ found' = Append(found, matches)
    /\ spans' = spans \cup {[rule |-> Len(found) + 1, start |-> m.start, end |-> m.end] :
                              m \in {n \in matches : \A sp \in spans : ~Overlap(n, sp)}}
    /\ UNCHANGED <<text, pc, pos, starts, sentences, current, entities>>

\* The entity of span sp of the current sentence.  Its page is that of the
\* sentence's start (docPrefix).
EntityOf(sp) ==
    LET s == sentences[current] IN
    [page        |-> 1 + FormFeeds(s.lo),
     sentence    |-> current - 1,
     char_offset |-> RuneCount(s.lo + sp.start),
     at          |-> s.lo + sp.start]

\* sort.Slice by start, then the spans of the sentence become entities.
NextSentence ==
    /\ pc = "rules"
    /\ current <= Len(sentences) /\ Len(found) = Rules
    /\ \E q \in Orders(spans, LAMBDA a, b : a # b /\ a.start <= b.start) :
          entities' = entities \o [k \in 1..Cardinality(spans) |-> EntityOf(q[k])]
    /\ current' = current + 1
    /\ found' = <<>> /\ spans' = {}
    /\ UNCHANGED <<text, pc, pos, starts, sentences>>

\* sort.SliceStable by offset: entities with the same one keep their order.
SortsBefore(i, j) ==
    \/ entities[i].char_offset < entities[j].char_offset
    \/ entities[i].char_offset = entities[j].char_offset /\ i < j

Return ==
    /\ pc = "rules"
    /\ current > Len(sentences)
    /\ pc' = "returned"
    /\ \E q \in Orders(1..Len(entities), SortsBefore) :
          entities' = [k \in 1..Len(entities) |-> entities[q[k]]]
    /\ UNCHANGED <<text, pos, starts, sentences, current, found, spans>>

\* Extract is over; anything else without a next step is a deadlock.
Returned == pc = "returned" /\ UNCHANGED vars

Next ==
    \/ NextBoundary
    \/ SplitSentences
    \/ /\ pc = "rules" /\ current <= Len(sentences)
       /\ \E matches \in Matches(sentences[current]) : ApplyRule(matches)
    \/ NextSentence
    \/ Return
    \/ Returned

Spec == Init /\ [][Next]_vars

----------------------------------------------------------------------------
(* Properties. *)

\* p follows a boundary: the white space behind a terminator ends there, or a run
\* of line breaks does that no such white space contains.
AfterTerminator(p) ==
    \E q \in 0..p - 2 : Byte(q) = "." /\ \A i \in q + 1..p - 1 : Byte(i) \in Space

IsStart(p) ==
    \/ p = 0
    \/ AfterTerminator(p) /\ (p = Len(text) \/ Byte(p) \notin Space)
    \/ /\ Byte(p - 1) = "LF" /\ (p = Len(text) \/ Byte(p) # "LF")
       /\ ~AfterTerminator(p)

\* The sentences are the pieces between the boundaries of the whole text that are
\* not white space, in order: the left-to-right search of FindAllStringIndex
\* misses none and makes none up.
SentencesAreExact ==
    pc # "boundaries" =>
        LET cuts == {p \in 0..Len(text) : IsStart(p)} \cup {Len(text)}
            pieces == {[lo |-> a, hi |-> b] : a \in cuts, b \in cuts}
        IN  /\ {sentences[i] : i \in 1..Len(sentences)} =
                 {s \in pieces : /\ s.lo < s.hi
                                 /\ \A c \in cuts : c <= s.lo \/ c >= s.hi
                                 /\ \E i \in s.lo..s.hi - 1 : Byte(i) \in {"x", ".", "lead"}}
            /\ \A i \in 1..Len(sentences) - 1 : sentences[i].hi <= sentences[i + 1].lo

\* A match is kept exactly if no kept match of an earlier rule overlaps it
\* (NewMockExtractor: "earlier matches win over later overlapping ones").
EarlierRuleWins ==
    \A r \in 1..Len(found) : \A m \in found[r] :
        [rule |-> r, start |-> m.start, end |-> m.end] \in spans <=>
            \A sp \in spans : sp.rule < r => m.end <= sp.start \/ sp.end <= m.start

\* What InsertTokens stores is what was found: no two entities of a document
\* have the same natural key, so ON CONFLICT merges nothing and the tokens that
\* are counted are the entities.
NaturalKeysAreUnique ==
    \A i, j \in 1..Len(entities) :
        i < j => \/ entities[i].sentence # entities[j].sentence
                 \/ entities[i].char_offset # entities[j].char_offset

\* char_offset counts runes: the bytes before it hold that many runes, for any
\* mix of one- and two-byte runes; and entities come in document order, their
\* pages too.
OffsetsCountRunes ==
    /\ \A i \in 1..Len(entities) :
          /\ Byte(entities[i].at) = "x"
          /\ entities[i].at = entities[i].char_offset
                                + Cardinality({j \in 1..entities[i].at : text[j] \in Leads})
    /\ pc = "returned" =>
          \A i, j \in 1..Len(entities) : i < j => /\ entities[i].at < entities[j].at
                   /\ entities[i].page <= entities[j].page
============================================================================
