------------------------ MODULE MockExtractorProofs ------------------------
(***************************************************************************)
(* Proofs about MockExtractor, for every text of valid UTF-8 of any        *)
(* length, any number of rules and whatever the rules match: the sentences *)
(* are the right ones, earlier rules win, offsets count runes and natural  *)
(* keys are unique.                                                        *)
(***************************************************************************)
EXTENDS MockExtractor, FiniteSetTheorems, SequenceTheorems, TLAPS

----------------------------------------------------------------------------
(* Texts. *)

\* A set of naturals has a smallest element.
LEMMA LeastNatural ==
    ASSUME NEW S \in SUBSET Nat, S # {}
    PROVE  \E x \in S : \A y \in S : x <= y
<1> DEFINE R == {ss \in Nat \X Nat : ss[1] < ss[2]}
<1>1. IsWellFoundedOn(R, Nat)
  BY NatLessThanWellFounded DEF OpToRel
<1>2. PICK x \in S : \A y \in S : ~(<<y, x>> \in R)
  <2> HIDE DEF R
  <2> QED
    BY <1>1, WFMin
<1>3. \A y \in S : ~(y < x)
  BY <1>2
<1> QED
  BY <1>3

\* A text is a sequence of bytes in which every first byte of two is followed by a
\* continuation byte, and no other byte is.
LEMMA TextIs ==
    ASSUME NEW t \in Texts
    PROVE  /\ Len(t) \in Nat /\ DOMAIN t = 1..Len(t)
           /\ \A j \in 1..Len(t) : t[j] \in Bytes
           /\ \A j \in 1..Len(t) : t[j] \in Leads => j < Len(t) /\ t[j + 1] = "cont"
           /\ \A j \in 1..Len(t) : t[j] = "cont" => j > 1 /\ t[j - 1] \in Leads
<1>1. PICK n \in 0..MaxBytes : t \in [1..n -> Bytes]
  BY DEF Texts
<1>2. n \in Nat /\ Len(t) = n /\ DOMAIN t = 1..n
  BY <1>1, MockExtractorAssumption
<1>3. \A i \in 0..n : (i > 0 /\ t[i] \in Leads) <=> (i < n /\ t[i + 1] = "cont")
  BY <1>2 DEF Texts
<1>4. ASSUME NEW j \in 1..n, t[j] \in Leads
      PROVE  j < n /\ t[j + 1] = "cont"
  <2>1. j \in 0..n /\ j > 0
    BY <1>2
  <2> QED
    BY <1>3, <1>4, <2>1
<1>5. ASSUME NEW j \in 1..n, t[j] = "cont"
      PROVE  j > 1 /\ t[j - 1] \in Leads
  <2>1. j - 1 \in 0..n /\ j - 1 < n /\ (j - 1) + 1 = j
    BY <1>2
  <2>2. j - 1 > 0 /\ t[j - 1] \in Leads
    BY <1>3, <1>5, <2>1
  <2> QED
    BY <1>2, <2>2
<1> QED
  BY <1>1, <1>2, <1>4, <1>5

LEMMA LengthIsNat ==
    ASSUME text \in Texts
    PROVE  Len(text) \in Nat
  BY TextIs

\* The runes of a longer prefix are more if the longer one adds a byte that
\* starts a rune.
LEMMA RuneCountGrows ==
    ASSUME NEW a \in Nat, NEW b \in Nat, a < b, text[a + 1] # "cont"
    PROVE  /\ RuneCount(a) \in Nat /\ RuneCount(b) \in Nat
           /\ RuneCount(a) < RuneCount(b)
<1> DEFINE Runes(i) == {j \in 1..i : text[j] # "cont"}
<1>1. IsFiniteSet(1..b) /\ Runes(b) \in SUBSET (1..b)
  BY FS_Interval
<1>2. IsFiniteSet(Runes(b))
  BY <1>1, FS_Subset
<1>3. Runes(a) \in SUBSET Runes(b) /\ a + 1 \in Runes(b) /\ a + 1 \notin Runes(a)
  OBVIOUS
<1>4. RuneCount(a) = Cardinality(Runes(a)) /\ RuneCount(b) = Cardinality(Runes(b))
  BY DEF RuneCount
<1> HIDE DEF Runes
<1>5. /\ IsFiniteSet(Runes(a)) /\ Cardinality(Runes(a)) <= Cardinality(Runes(b))
      /\ Cardinality(Runes(a)) # Cardinality(Runes(b))
  BY <1>2, <1>3, FS_Subset
<1>6. Cardinality(Runes(a)) \in Nat /\ Cardinality(Runes(b)) \in Nat
  BY <1>2, <1>5, FS_CardinalityType
<1> QED
  BY <1>4, <1>5, <1>6

\* Pages never decrease.
LEMMA FormFeedsGrow ==
    ASSUME NEW a \in Nat, NEW b \in Nat, a <= b
    PROVE  /\ FormFeeds(a) \in Nat /\ FormFeeds(b) \in Nat
           /\ FormFeeds(a) <= FormFeeds(b)
<1> DEFINE Feeds(i) == {j \in 1..i : text[j] = "FF"}
<1>1. IsFiniteSet(1..b) /\ Feeds(b) \in SUBSET (1..b)
  BY FS_Interval
<1>2. IsFiniteSet(Feeds(b))
  BY <1>1, FS_Subset
<1>3. Feeds(a) \in SUBSET Feeds(b)
  OBVIOUS
<1>4. FormFeeds(a) = Cardinality(Feeds(a)) /\ FormFeeds(b) = Cardinality(Feeds(b))
  BY DEF FormFeeds
<1> HIDE DEF Feeds
<1>5. IsFiniteSet(Feeds(a)) /\ Cardinality(Feeds(a)) <= Cardinality(Feeds(b))
  BY <1>2, <1>3, FS_Subset
<1>6. Cardinality(Feeds(a)) \in Nat /\ Cardinality(Feeds(b)) \in Nat
  BY <1>2, <1>5, FS_CardinalityType
<1> QED
  BY <1>4, <1>5, <1>6

\* The bytes of a prefix that ends between two runes are its runes and, for each
\* two-byte rune, one more.
LEMMA BytesAreRunes ==
    ASSUME text \in Texts, NEW a \in 0..Len(text) - 1, text[a + 1] # "cont"
    PROVE  a = RuneCount(a) + Cardinality({j \in 1..a : text[j] \in Leads})
<1> DEFINE Lead == {j \in 1..a : text[j] \in Leads}
           Cont == {j \in 1..a : text[j] = "cont"}
           Rest == {j \in 1..a : text[j] # "cont"}
           f == [j \in Lead |-> j + 1]
<1>0. Len(text) \in Nat /\ a \in Nat /\ a < Len(text)
  BY LengthIsNat
<1>1. IsFiniteSet(1..a) /\ Cardinality(1..a) = a
  BY <1>0, FS_Interval
<1>2. IsFiniteSet(Lead) /\ IsFiniteSet(Cont) /\ IsFiniteSet(Rest)
  BY <1>1, FS_Subset
<1>3. \A j \in Lead : j + 1 \in Cont
  <2> SUFFICES ASSUME NEW j \in Lead
               PROVE  j + 1 \in Cont
    OBVIOUS
  <2>1. j \in 1..Len(text) /\ text[j] \in Leads
    BY <1>0
  <2>2. text[j + 1] = "cont"
    BY <2>1, TextIs
  <2> QED
    BY <1>0, <2>2
<1>4. \A c \in Cont : c - 1 \in Lead
  <2> SUFFICES ASSUME NEW c \in Cont
               PROVE  c - 1 \in Lead
    OBVIOUS
  <2>1. c \in 1..Len(text) /\ text[c] = "cont"
    BY <1>0
  <2>2. c > 1 /\ text[c - 1] \in Leads
    BY <2>1, TextIs
  <2> QED
    BY <1>0, <2>2
<1>5. f \in Bijection(Lead, Cont)
  <2>1. f \in [Lead -> Cont]
    BY <1>3
  <2>2. \A x, y \in Lead : f[x] = f[y] => x = y
    BY <1>0
  <2>3. \A c \in Cont : \E j \in Lead : f[j] = c
    <3> SUFFICES ASSUME NEW c \in Cont
                 PROVE  \E j \in Lead : f[j] = c
      OBVIOUS
    <3>1. c - 1 \in Lead /\ f[c - 1] = (c - 1) + 1 /\ (c - 1) + 1 = c
      BY <1>0, <1>4
    <3> QED
      BY <3>1
  <2> HIDE DEF f, Lead, Cont
  <2> QED
    BY <2>1, <2>2, <2>3 DEF Bijection, Injection, Surjection, IsInjective
<1>6. Cardinality(Cont) = Cardinality(Lead)
  <2> HIDE DEF f, Lead, Cont
  <2>1. ExistsBijection(Lead, Cont)
    BY <1>5 DEF ExistsBijection
  <2> QED
    BY <1>2, <2>1, FS_Bijection
<1>7. Rest \cup Cont = 1..a /\ Rest \cap Cont = {}
  OBVIOUS
<1>8. RuneCount(a) = Cardinality(Rest)
  BY DEF RuneCount
<1> HIDE DEF Lead, Cont, Rest, f
<1>9. a = Cardinality(Rest) + Cardinality(Cont) - Cardinality({})
  BY <1>1, <1>2, <1>7, FS_Union
<1>10. Cardinality(Rest) \in Nat /\ Cardinality(Cont) \in Nat /\ Cardinality({}) = 0
  BY <1>2, FS_CardinalityType, FS_EmptySet
<1>11. a = Cardinality(Rest) + Cardinality(Lead)
  BY <1>6, <1>9, <1>10
<1> QED
  BY <1>8, <1>11 DEF Lead

----------------------------------------------------------------------------
(* Boundaries. *)

\* RunEnd is the end of the run.
LEMMA RunEndIs ==
    ASSUME text \in Texts, NEW p \in 0..Len(text), NEW S
    PROVE  /\ RunEnd(p, S) \in p..Len(text)
           /\ \A i \in p..RunEnd(p, S) - 1 : Byte(i) \in S
           /\ RunEnd(p, S) = Len(text) \/ Byte(RunEnd(p, S)) \notin S
<1> DEFINE Ends == {q \in p..Len(text) : q = Len(text) \/ Byte(q) \notin S}
<1>0. Len(text) \in Nat /\ p \in Nat
  BY LengthIsNat
<1>1. Ends \in SUBSET Nat /\ Ends # {}
  BY <1>0
<1>2. PICK q \in Ends : \A r \in Ends : q <= r
  <2> HIDE DEF Ends
  <2> QED
    BY <1>1, LeastNatural
<1>3. \A i \in p..q - 1 : Byte(i) \in S
  <2> SUFFICES ASSUME NEW i \in p..q - 1
               PROVE  Byte(i) \in S
    OBVIOUS
  <2>1. i \notin Ends /\ i \in p..Len(text)
    BY <1>0, <1>2
  <2> QED
    BY <2>1
<1>4. \E e \in p..Len(text) : /\ \A i \in p..e - 1 : Byte(i) \in S
                              /\ e = Len(text) \/ Byte(e) \notin S
  BY <1>2, <1>3
<1> QED
  BY <1>4, Zenon DEF RunEnd

\* The two forms of a match of sentenceBoundary: terminators and white space, or
\* line breaks, up to the first byte that does not belong to it.
SpacedMatch(p, e) ==
    /\ \E k \in p + 1..e - 1 : /\ \A i \in p..k - 1 : Byte(i) = "."
                               /\ \A i \in k..e - 1 : Byte(i) \in Space
    /\ e = Len(text) \/ Byte(e) \notin Space

LineMatch(p, e) ==
    /\ \A i \in p..e - 1 : Byte(i) = "LF"
    /\ e = Len(text) \/ Byte(e) # "LF"

LEMMA MatchIs ==
    ASSUME text \in Texts, NEW p \in 0..Len(text)
    PROVE  /\ MatchEnd(p) \in p..Len(text)
           /\ MatchEnd(p) > p => SpacedMatch(p, MatchEnd(p)) \/ LineMatch(p, MatchEnd(p))
<1>0. Len(text) \in Nat /\ p \in Nat
  BY LengthIsNat
<1>1. PICK q : q = RunEnd(p, {"."})
  OBVIOUS
<1>2. q \in p..Len(text) /\ \A i \in p..q - 1 : Byte(i) = "."
  BY <1>1, RunEndIs
<1>3. PICK e : e = RunEnd(q, Space)
  OBVIOUS
<1>4. /\ e \in q..Len(text) /\ \A i \in q..e - 1 : Byte(i) \in Space
      /\ e = Len(text) \/ Byte(e) \notin Space
  <2>1. q \in 0..Len(text)
    BY <1>0, <1>2
  <2> QED
    BY <1>3, <2>1, RunEndIs
<1>5. PICK l : l = RunEnd(p, {"LF"})
  OBVIOUS
<1>6. /\ l \in p..Len(text) /\ \A i \in p..l - 1 : Byte(i) = "LF"
      /\ l = Len(text) \/ Byte(l) # "LF"
  BY <1>5, RunEndIs
<1>7. MatchEnd(p) = IF q > p THEN (IF e > q THEN e ELSE p) ELSE l
  BY <1>1, <1>3, <1>5 DEF MatchEnd
<1>8. CASE q > p /\ e > q
  <2>1. MatchEnd(p) = e /\ e \in p..Len(text)
    BY <1>0, <1>2, <1>4, <1>7, <1>8
  <2>2. q \in p + 1..e - 1
    BY <1>0, <1>2, <1>4, <1>8
  <2>3. SpacedMatch(p, e)
    BY <1>2, <1>4, <2>2 DEF SpacedMatch
  <2> QED
    BY <2>1, <2>3
<1>9. CASE q > p /\ ~(e > q)
  BY <1>0, <1>7, <1>9
<1>10. CASE ~(q > p)
  BY <1>6, <1>7, <1>10 DEF LineMatch
<1> QED
  BY <1>8, <1>9, <1>10

\* A terminator with white space behind it, and a line break, start a match.
LEMMA MatchStarts ==
    ASSUME text \in Texts, NEW p \in 0..Len(text) - 1,
           \/ Byte(p) = "." /\ p + 1 < Len(text) /\ Byte(p + 1) \in Space
           \/ Byte(p) = "LF"
    PROVE  MatchEnd(p) > p
<1>0. Len(text) \in Nat /\ p \in Nat /\ p \in 0..Len(text) /\ p # Len(text)
  BY LengthIsNat
<1>1. PICK q : q = RunEnd(p, {"."})
  OBVIOUS
<1>2. /\ q \in p..Len(text) /\ \A i \in p..q - 1 : Byte(i) = "."
      /\ q = Len(text) \/ Byte(q) # "."
  BY <1>0, <1>1, RunEndIs
<1>3. CASE Byte(p) = "." /\ p + 1 < Len(text) /\ Byte(p + 1) \in Space
  <2>1. q # p /\ q > p
    BY <1>0, <1>2, <1>3
  <2>2. q = p + 1
    <3>1. Byte(p + 1) # "."
      BY <1>3 DEF Space
    <3> QED
      BY <1>0, <1>2, <2>1, <3>1
  <2>3. RunEnd(q, Space) \in q..Len(text) /\ RunEnd(q, Space) # q
    <3>1. q \in 0..Len(text) /\ q # Len(text) /\ Byte(q) \in Space
      BY <1>0, <1>3, <2>2
    <3> QED
      BY <3>1, RunEndIs
  <2>4. RunEnd(q, Space) > q
    BY <1>0, <1>2, <2>3
  <2>5. MatchEnd(p) = RunEnd(q, Space)
    BY <1>1, <2>1, <2>4 DEF MatchEnd
  <2>6. RunEnd(q, Space) \in Nat
    BY <1>0, <1>2, <2>3
  <2> QED
    BY <1>0, <2>2, <2>4, <2>5, <2>6
<1>4. CASE Byte(p) = "LF"
  <2>1. q = p
    BY <1>0, <1>2, <1>4
  <2>2. RunEnd(p, {"LF"}) \in p..Len(text) /\ RunEnd(p, {"LF"}) # p
    BY <1>0, <1>4, RunEndIs
  <2>3. MatchEnd(p) = RunEnd(p, {"LF"})
    BY <1>0, <1>1, <2>1 DEF MatchEnd
  <2> QED
    BY <1>0, <2>2, <2>3
<1> QED
  BY <1>3, <1>4

\* White space at a start has no terminator before it, with only white space
\* between them.
LEMMA NoTerminatorBefore ==
    ASSUME text \in Texts, NEW p \in 0..Len(text) - 1, IsStart(p), Byte(p) \in Space,
           NEW q \in 0..p - 1, Byte(q) = "."
    PROVE  \E i \in q + 1..p - 1 : Byte(i) \notin Space
<1>0. Len(text) \in Nat /\ p \in Nat /\ q \in Nat /\ p # 0 /\ p # Len(text)
  BY LengthIsNat
<1>1. Byte(p - 1) = "LF" /\ ~AfterTerminator(p)
  BY <1>0 DEF IsStart
<1>2. q # p - 1
  BY <1>1
<1>3. q \in 0..p - 2
  BY <1>0, <1>2
<1> QED
  BY <1>1, <1>3 DEF AfterTerminator

\* Between a start and a later one a match begins.
LEMMA StartHasMatch ==
    ASSUME text \in Texts, NEW p \in 0..Len(text), IsStart(p),
           NEW c \in p + 1..Len(text), IsStart(c)
    PROVE  \E q \in p..c - 1 : MatchEnd(q) > q
<1>0. Len(text) \in Nat /\ p \in Nat /\ c \in Nat /\ p < c /\ c <= Len(text) /\ c # 0
  BY LengthIsNat
<1>1. CASE AfterTerminator(c)
  <2>1. PICK q \in 0..c - 2 : Byte(q) = "." /\ \A i \in q + 1..c - 1 : Byte(i) \in Space
    BY <1>1 DEF AfterTerminator
  <2>2. q >= p
    <3> SUFFICES ASSUME q < p
                 PROVE  FALSE
      BY <1>0
    <3>1. /\ p \in q + 1..c - 1 /\ p \in 0..Len(text) - 1 /\ q \in 0..p - 1
          /\ \A i \in q + 1..p - 1 : i \in q + 1..c - 1
      BY <1>0
    <3> QED
      BY <2>1, <3>1, NoTerminatorBefore
  <2>3. q \in 0..Len(text) - 1 /\ q + 1 < Len(text) /\ q + 1 \in q + 1..c - 1 /\ q \in p..c - 1
    BY <1>0, <2>2
  <2>4. MatchEnd(q) > q
    BY <2>1, <2>3, MatchStarts
  <2> QED
    BY <2>3, <2>4
<1>2. CASE ~AfterTerminator(c)
  <2>1. Byte(c - 1) = "LF"
    BY <1>0, <1>2 DEF IsStart
  <2>2. c - 1 \in 0..Len(text) - 1 /\ c - 1 \in p..c - 1
    BY <1>0
  <2>3. MatchEnd(c - 1) > c - 1
    BY <2>1, <2>2, MatchStarts
  <2> QED
    BY <2>2, <2>3
<1> QED
  BY <1>1, <1>2

\* The leftmost match behind a start ends at the next start.
LEMMA NextStart ==
    ASSUME text \in Texts, NEW a \in 0..Len(text), IsStart(a),
           NEW p \in a..Len(text) - 1, MatchEnd(p) > p,
           \A q \in a..p - 1 : MatchEnd(q) = q
    PROVE  /\ MatchEnd(p) \in a + 1..Len(text) /\ IsStart(MatchEnd(p))
           /\ \A c \in a + 1..MatchEnd(p) - 1 : ~IsStart(c)
<1>0. Len(text) \in Nat /\ a \in Nat /\ p \in Nat /\ a <= p /\ p < Len(text)
  BY LengthIsNat
<1>1. PICK e : e = MatchEnd(p)
  OBVIOUS
<1>2. e \in p..Len(text) /\ e > p /\ (SpacedMatch(p, e) \/ LineMatch(p, e))
  <2>1. p \in 0..Len(text)
    BY <1>0
  <2> QED
    BY <1>1, <2>1, MatchIs
<1>3. e \in Nat /\ e \in a + 1..Len(text) /\ p < e /\ e <= Len(text)
  BY <1>0, <1>2
<1>4. \A q \in a..p - 1 : ~(MatchEnd(q) > q)
  BY <1>0
<1>5. ASSUME NEW c \in a + 1..e - 1, IsStart(c)
      PROVE  c > p
  <2>1. c \in a + 1..Len(text)
    BY <1>0, <1>3
  <2>2. PICK q \in a..c - 1 : MatchEnd(q) > q
    BY <1>5, <2>1, StartHasMatch
  <2>3. q \notin a..p - 1
    BY <1>4, <2>2
  <2> QED
    BY <1>0, <1>3, <2>3
<1>6. CASE SpacedMatch(p, e)
  <2>1. PICK k \in p + 1..e - 1 : /\ \A i \in p..k - 1 : Byte(i) = "."
                                  /\ \A i \in k..e - 1 : Byte(i) \in Space
    BY <1>6 DEF SpacedMatch
  <2>2. k \in Nat /\ k - 1 \in p..k - 1 /\ k - 1 \in 0..e - 2 /\ (k - 1) + 1 = k
    BY <1>0, <1>3
  <2>3. IsStart(e)
    <3>1. AfterTerminator(e)
      BY <2>1, <2>2 DEF AfterTerminator
    <3> QED
      BY <1>6, <3>1 DEF IsStart, SpacedMatch
  <2>4. ASSUME NEW c \in a + 1..e - 1, IsStart(c)
        PROVE  FALSE
    <3>1. c \in Nat /\ c > p /\ c < e /\ c # 0 /\ c # Len(text)
      BY <1>0, <1>3, <1>5, <2>4
    <3>2. CASE c < k
      <4>1. c - 1 \in p..k - 1 /\ c \in p..k - 1
        BY <1>0, <2>2, <3>1, <3>2
      <4>2. Byte(c - 1) = "." /\ Byte(c) = "."
        BY <2>1, <4>1
      <4>3. Byte(c - 1) \notin Space
        BY <4>2 DEF Space
      <4>4. ~AfterTerminator(c)
        <5> SUFFICES ASSUME NEW q \in 0..c - 2, \A i \in q + 1..c - 1 : Byte(i) \in Space
                     PROVE  FALSE
          BY DEF AfterTerminator
        <5>1. c - 1 \in q + 1..c - 1
          BY <3>1
        <5> QED
          BY <4>3, <5>1
      <4> QED
        BY <2>4, <3>1, <4>2, <4>4 DEF IsStart
    <3>3. CASE c >= k
      <4>1. c \in k..e - 1
        BY <2>2, <3>1, <3>3, <1>3
      <4>2. Byte(c) \in Space
        BY <2>1, <4>1
      <4>3. Byte(c - 1) = "LF" /\ ~AfterTerminator(c)
        BY <2>4, <3>1, <4>2 DEF IsStart
      <4>4. c # k
        BY <2>1, <2>2, <4>3
      <4>5. k - 1 \in 0..c - 2 /\ \A i \in (k - 1) + 1..c - 1 : i \in k..e - 1
        BY <1>0, <2>2, <3>1, <3>3, <4>4, <1>3
      <4>6. AfterTerminator(c)
        BY <2>1, <2>2, <4>5 DEF AfterTerminator
      <4> QED
        BY <4>3, <4>6
    <3> QED
      BY <2>2, <3>1, <3>2, <3>3
  <2> QED
    BY <1>1, <1>3, <2>3, <2>4
<1>7. CASE LineMatch(p, e)
  <2>1. (\A i \in p..e - 1 : Byte(i) = "LF") /\ (e = Len(text) \/ Byte(e) # "LF")
    BY <1>7 DEF LineMatch
  <2>2. ~AfterTerminator(e)
    <3> SUFFICES ASSUME NEW q \in 0..e - 2, Byte(q) = ".",
                        \A i \in q + 1..e - 1 : Byte(i) \in Space
                 PROVE  FALSE
      BY DEF AfterTerminator
    <3>1. q \in Nat /\ q < p
      BY <1>0, <1>3, <2>1
    <3>2. CASE q >= a
      <4>1. /\ q \in 0..Len(text) - 1 /\ q + 1 < Len(text) /\ q + 1 \in q + 1..e - 1
            /\ q \in a..p - 1
        BY <1>0, <1>3, <3>1, <3>2
      <4> QED
        BY <1>4, <4>1, MatchStarts
    <3>3. CASE q < a
      <4>1. /\ a \in q + 1..e - 1 /\ a \in 0..Len(text) - 1 /\ q \in 0..a - 1
            /\ \A i \in q + 1..a - 1 : i \in q + 1..e - 1
        BY <1>0, <1>3, <3>1, <3>3
      <4> QED
        BY <4>1, NoTerminatorBefore
    <3> QED
      BY <1>0, <3>1, <3>2, <3>3
  <2>3. IsStart(e)
    <3>1. e - 1 \in p..e - 1
      BY <1>0, <1>3
    <3> QED
      BY <2>1, <2>2, <3>1 DEF IsStart
  <2>4. ASSUME NEW c \in a + 1..e - 1, IsStart(c)
        PROVE  FALSE
    <3>1. c \in Nat /\ c > p /\ c < e /\ c # 0 /\ c # Len(text) /\ c \in p..e - 1
      BY <1>0, <1>3, <1>5, <2>4
    <3>2. Byte(c) = "LF" /\ Byte(c) \in Space
      BY <2>1, <3>1 DEF Space
    <3> QED
      BY <2>4, <3>1, <3>2 DEF IsStart
  <2> QED
    BY <1>1, <1>3, <2>3, <2>4
<1> QED
  BY <1>2, <1>6, <1>7

----------------------------------------------------------------------------
(* The inductive invariant. *)

\* While boundaries are searched, starts lists the starts of the text up to pos,
\* in order, and the search goes on from one.
SearchInv ==
    /\ pos \in 0..Len(text)
    /\ starts \in Seq(0..Len(text)) /\ Len(starts) > 0
    /\ starts[Len(starts)] = pos
    /\ \A i, j \in 1..Len(starts) : i < j => starts[i] < starts[j]
    /\ \A p \in 0..pos : IsStart(p) <=> \E i \in 1..Len(starts) : starts[i] = p

\* Nothing else has happened by then.
NothingFound ==
    sentences = <<>> /\ current = 1 /\ found = <<>> /\ spans = {} /\ entities = <<>>

\* Sentences are pieces of the text, each behind the one before it.
SentencesInv ==
    /\ sentences \in Seq([lo : 0..Len(text), hi : 0..Len(text)])
    /\ \A i, j \in 1..Len(sentences) : i < j => sentences[i].hi <= sentences[j].lo
    /\ \A i \in 1..Len(sentences) : sentences[i].lo < sentences[i].hi
    /\ current \in 1..Len(sentences) + 1

\* A span starts at a word and lies in the current sentence, and spans are apart.
SpanOK(sp) ==
    /\ sp.rule \in 1..Len(found) /\ sp.start \in Nat /\ sp.end \in Nat
    /\ sp.start < sp.end
    /\ sentences[current].lo + sp.end <= sentences[current].hi
    /\ Byte(sentences[current].lo + sp.start) = "x"

Apart(a, b) == a.end <= b.start \/ b.end <= a.start

SpansInv ==
    /\ found \in Seq(SUBSET [start : Nat, end : Nat])
    /\ spans # {} => current \in 1..Len(sentences)
    /\ \A sp \in spans : SpanOK(sp)
    /\ \A a, b \in spans : a = b \/ Apart(a, b)
    /\ EarlierRuleWins

\* An entity is at a word of an earlier sentence, whose number and page it has.
EntityAt(e, k) ==
    /\ e.sentence = k - 1
    /\ e.page = 1 + FormFeeds(sentences[k].lo)
    /\ sentences[k].lo <= e.at /\ e.at < sentences[k].hi

EntityOK(e) ==
    /\ e.at \in Nat
    /\ Byte(e.at) = "x" /\ e.char_offset = RuneCount(e.at)
    /\ \E k \in 1..Len(sentences) : k < current /\ EntityAt(e, k)

EntitiesInv ==
    /\ entities \in Seq([page : Nat, sentence : Nat, char_offset : Nat, at : Nat])
    /\ \A i \in 1..Len(entities) : EntityOK(entities[i])
    /\ \A i, j \in 1..Len(entities) : i < j => entities[i].at < entities[j].at

ExtractorInv ==
    /\ text \in Texts
    /\ pc \in {"boundaries", "rules", "returned"}
    /\ pc = "boundaries" => SearchInv /\ NothingFound
    /\ SentencesAreExact /\ SentencesInv
    /\ SpansInv
    /\ EntitiesInv

LEMMA InitInv == Init => ExtractorInv
<1> SUFFICES ASSUME Init
             PROVE  ExtractorInv
  OBVIOUS
<1>1. text \in Texts /\ Len(text) \in Nat /\ pc = "boundaries"
  BY LengthIsNat DEF Init
<1>2. SearchInv
  <2>1. pos = 0 /\ starts = <<0>> /\ Len(starts) = 1 /\ starts[1] = 0
    BY DEF Init
  <2>2. starts \in Seq(0..Len(text))
    BY <1>1, <2>1
  <2>3. \A p \in 0..0 : p = 0
    OBVIOUS
  <2>4. IsStart(0)
    BY DEF IsStart
  <2> QED
    BY <1>1, <2>1, <2>2, <2>3, <2>4 DEF SearchInv
<1>3. NothingFound
  BY DEF Init, NothingFound
<1>4. SentencesAreExact /\ SentencesInv /\ SpansInv /\ EntitiesInv
  BY <1>1, <1>3 DEF NothingFound, SentencesAreExact, SentencesInv, SpansInv, EarlierRuleWins,
                    EntitiesInv
<1> QED
  BY <1>1, <1>2, <1>3, <1>4 DEF ExtractorInv

\* What a step that leaves the sentences and what was found in them alone keeps.
LEMMA FrameInv ==
    ASSUME ExtractorInv, UNCHANGED <<text, sentences, current, found, spans, entities>>
    PROVE  SentencesInv' /\ SpansInv' /\ EntitiesInv'
<1>1. SentencesInv'
  BY DEF ExtractorInv, SentencesInv
<1>2. SpansInv'
  BY DEF ExtractorInv, SpansInv, SpanOK, Apart, EarlierRuleWins, Byte
<1>3. EntitiesInv'
  BY DEF ExtractorInv, EntitiesInv, EntityOK, EntityAt, RuneCount, FormFeeds, Byte
<1> QED
  BY <1>1, <1>2, <1>3

LEMMA NextBoundaryInv ==
    ASSUME ExtractorInv, NextBoundary
    PROVE  ExtractorInv'
<1>0. /\ text \in Texts /\ text' = text /\ pc = "boundaries" /\ pc' = pc
      /\ Len(text) \in Nat /\ SearchInv /\ NothingFound
  BY LengthIsNat DEF ExtractorInv, NextBoundary
<1>1. PICK p \in pos..Len(text) - 1 :
         /\ MatchEnd(p) > p /\ \A q \in pos..p - 1 : MatchEnd(q) = q
         /\ pos' = MatchEnd(p) /\ starts' = Append(starts, MatchEnd(p))
  BY DEF NextBoundary
<1>2. PICK n : n = Len(starts)
  OBVIOUS
<1>3. /\ pos \in 0..Len(text) /\ starts \in Seq(0..Len(text)) /\ n \in Nat /\ n > 0
      /\ starts[n] = pos
      /\ \A i \in 1..n : starts[i] \in 0..Len(text)
      /\ \A i, j \in 1..n : i < j => starts[i] < starts[j]
  BY <1>0, <1>2 DEF SearchInv
<1>4. \A c \in 0..pos : IsStart(c) <=> \E i \in 1..n : starts[i] = c
  BY <1>0, <1>2 DEF SearchInv
<1>5. IsStart(pos)
  <2>1. pos \in 0..pos /\ n \in 1..n
    BY <1>0, <1>3
  <2> QED
    BY <1>3, <1>4, <2>1
<1>6. PICK e : e = MatchEnd(p)
  OBVIOUS
<1>7. /\ e \in pos + 1..Len(text) /\ IsStart(e)
      /\ \A c \in pos + 1..e - 1 : ~IsStart(c)
  BY <1>0, <1>1, <1>3, <1>5, <1>6, NextStart
<1>8. e \in 0..Len(text) /\ e > pos /\ e \in Nat /\ pos \in Nat
  BY <1>0, <1>3, <1>7
<1>9. /\ starts' \in Seq(0..Len(text)) /\ Len(starts') = n + 1
      /\ starts'[n + 1] = e /\ \A i \in 1..n : starts'[i] = starts[i]
  BY <1>1, <1>2, <1>3, <1>6, <1>8, AppendProperties
<1>10. \A i \in 1..n : starts[i] <= pos
  <2> SUFFICES ASSUME NEW i \in 1..n
               PROVE  starts[i] <= pos
    OBVIOUS
  <2>1. CASE i = n
    BY <1>3, <1>8, <2>1
  <2>2. CASE i < n
    <3>1. n \in 1..n /\ starts[i] \in Nat
      BY <1>0, <1>3
    <3>2. starts[i] < pos
      BY <1>3, <2>2, <3>1
    <3> QED
      BY <1>8, <3>1, <3>2
  <2> QED
    BY <1>3, <2>1, <2>2
<1>11. ASSUME NEW i \in 1..n + 1, NEW j \in 1..n + 1, i < j
       PROVE  starts'[i] < starts'[j]
  <2>1. i \in 1..n
    BY <1>3, <1>11
  <2>2. CASE j \in 1..n
    BY <1>3, <1>9, <1>11, <2>1, <2>2
  <2>3. CASE j = n + 1
    <3>1. starts'[i] = starts[i] /\ starts'[j] = e /\ starts[i] <= pos /\ starts[i] \in 0..Len(text)
      BY <1>3, <1>9, <1>10, <2>1, <2>3
    <3> QED
      BY <1>0, <1>8, <3>1
  <2> QED
    BY <1>3, <2>2, <2>3
<1>12. \A c \in 0..e : IsStart(c) <=> \E i \in 1..n + 1 : starts'[i] = c
  <2> SUFFICES ASSUME NEW c \in 0..e
               PROVE  IsStart(c) <=> \E i \in 1..n + 1 : starts'[i] = c
    OBVIOUS
  <2>1. CASE c = e
    <3>1. n + 1 \in 1..n + 1
      BY <1>3
    <3> QED
      BY <1>7, <1>9, <2>1, <3>1
  <2>2. CASE c \in 0..pos
    <3>1. IsStart(c) => \E i \in 1..n + 1 : starts'[i] = c
      <4> SUFFICES ASSUME IsStart(c)
                   PROVE  \E i \in 1..n + 1 : starts'[i] = c
        OBVIOUS
      <4>1. PICK i \in 1..n : starts[i] = c
        BY <1>4, <2>2
      <4>2. i \in 1..n + 1
        BY <1>3
      <4> QED
        BY <1>9, <4>1, <4>2
    <3>2. ASSUME NEW i \in 1..n + 1, starts'[i] = c
          PROVE  IsStart(c)
      <4>1. i # n + 1
        BY <1>8, <1>9, <2>2, <3>2
      <4>2. i \in 1..n
        BY <1>3, <4>1
      <4> QED
        BY <1>4, <1>9, <2>2, <3>2, <4>2
    <3> QED
      BY <3>1, <3>2
  <2>3. CASE c \in pos + 1..e - 1
    <3>1. ~IsStart(c)
      BY <1>7, <2>3
    <3>2. ASSUME NEW i \in 1..n + 1, starts'[i] = c
          PROVE  FALSE
      <4>1. i # n + 1
        BY <1>8, <1>9, <2>3, <3>2
      <4>2. i \in 1..n
        BY <1>3, <4>1
      <4>3. starts[i] <= pos /\ starts[i] = c
        BY <1>9, <1>10, <3>2, <4>2
      <4> QED
        BY <1>8, <2>3, <4>3
    <3> QED
      BY <3>1, <3>2
  <2> QED
    BY <1>8, <2>1, <2>2, <2>3
<1>13. \A c : IsStart(c)' <=> IsStart(c)
  BY <1>0 DEF IsStart, AfterTerminator, Byte
<1>14. SearchInv'
  <2>1. pos' = e
    BY <1>1, <1>6
  <2> QED
    BY <1>0, <1>3, <1>8, <1>9, <1>11, <1>12, <1>13, <2>1 DEF SearchInv
<1>15. UNCHANGED <<text, sentences, current, found, spans, entities>>
  BY DEF NextBoundary
<1>16. NothingFound'
  BY <1>0, <1>15 DEF NothingFound
<1>17. SentencesAreExact'
  BY <1>0 DEF SentencesAreExact
<1> QED
  BY <1>0, <1>14, <1>15, <1>16, <1>17, FrameInv DEF ExtractorInv

----------------------------------------------------------------------------
(* splitSentences. *)

\* A function on 1..n is a sequence.
LEMMA SequenceOf ==
    ASSUME NEW S, NEW n \in Nat, NEW f, f = [i \in 1..n |-> f[i]], \A i \in 1..n : f[i] \in S
    PROVE  f \in Seq(S) /\ Len(f) = n
<1>1. f \in [1..n -> S]
  OBVIOUS
<1> QED
  BY <1>1, SeqDef

\* A listing of a finite set without repetitions leaves no element out.
LEMMA ListingIsOnto ==
    ASSUME NEW S, IsFiniteSet(S), NEW q \in [1..Cardinality(S) -> S],
           \A i, j \in 1..Cardinality(S) : q[i] = q[j] => i = j
    PROVE  \A x \in S : \E k \in 1..Cardinality(S) : q[k] = x
<1>1. Cardinality(S) \in Nat
  BY FS_CardinalityType
<1>2. PICK n : n = Cardinality(S)
  OBVIOUS
<1>3. q \in Injection(1..n, S)
  BY <1>2 DEF Injection, IsInjective
<1>4. Cardinality(1..n) = Cardinality(S)
  BY <1>1, <1>2, FS_Interval
<1>5. q \in Surjection(1..n, S)
  BY <1>3, <1>4, FS_Injection
<1> QED
  BY <1>2, <1>5 DEF Surjection

\* Once no match is left, starts holds every start of the text.
LEMMA SearchIsComplete ==
    ASSUME text \in Texts, SearchInv, \A p \in pos..Len(text) - 1 : MatchEnd(p) = p
    PROVE  \A c \in 0..Len(text) : IsStart(c) <=> \E i \in 1..Len(starts) : starts[i] = c
<1>0. /\ Len(text) \in Nat /\ pos \in 0..Len(text) /\ pos \in Nat
      /\ Len(starts) \in Nat /\ Len(starts) > 0 /\ starts[Len(starts)] = pos
      /\ \A i \in 1..Len(starts) : starts[i] \in 0..Len(text)
      /\ \A i, j \in 1..Len(starts) : i < j => starts[i] < starts[j]
      /\ \A p \in 0..pos : IsStart(p) <=> \E i \in 1..Len(starts) : starts[i] = p
  BY LengthIsNat DEF SearchInv
<1> SUFFICES ASSUME NEW c \in 0..Len(text)
             PROVE  IsStart(c) <=> \E i \in 1..Len(starts) : starts[i] = c
  OBVIOUS
<1>1. CASE c \in 0..pos
  BY <1>0, <1>1
<1>2. CASE c \in pos + 1..Len(text)
  <2>1. IsStart(pos)
    <3>1. pos \in 0..pos /\ Len(starts) \in 1..Len(starts)
      BY <1>0
    <3> QED
      BY <1>0, <3>1
  <2>2. ~IsStart(c)
    <3> SUFFICES ASSUME IsStart(c)
                 PROVE  FALSE
      OBVIOUS
    <3>1. PICK q \in pos..c - 1 : MatchEnd(q) > q
      BY <1>0, <1>2, <2>1, StartHasMatch
    <3>2. q \in pos..Len(text) - 1 /\ q \in Nat
      BY <1>0
    <3> QED
      BY <3>1, <3>2
  <2>3. ASSUME NEW i \in 1..Len(starts), starts[i] = c
        PROVE  FALSE
    <3>1. i # Len(starts)
      BY <1>0, <1>2, <2>3
    <3>2. i < Len(starts) /\ Len(starts) \in 1..Len(starts)
      BY <1>0, <3>1
    <3>3. c < pos
      BY <1>0, <2>3, <3>2
    <3> QED
      BY <1>0, <1>2, <3>3
  <2> QED
    BY <2>2, <2>3
<1> QED
  BY <1>0, <1>1, <1>2

\* The cuts of the text, and its pieces between them that are not white space.
Cuts == {p \in 0..Len(text) : IsStart(p)} \cup {Len(text)}

Pieces ==
    {s \in {[lo |-> a, hi |-> b] : a \in Cuts, b \in Cuts} :
        /\ s.lo < s.hi
        /\ \A c \in Cuts : c <= s.lo \/ c >= s.hi
        /\ \E i \in s.lo..s.hi - 1 : Byte(i) \in {"x", ".", "lead"}}

\* The segments that are not blank are these pieces.
LEMMA SegmentsArePieces ==
    ASSUME text \in Texts, SearchInv, \A p \in pos..Len(text) - 1 : MatchEnd(p) = p
    PROVE  Pieces = {Segment(i) : i \in {j \in 1..Len(starts) : ~Blank(Segment(j))}}
<1> DEFINE n == Len(starts)
           Kept == {j \in 1..n : ~Blank(Segment(j))}
<1>0. /\ Len(text) \in Nat /\ n \in Nat
      /\ \A i \in 1..n : starts[i] \in 0..Len(text)
      /\ \A i, j \in 1..n : i < j => starts[i] < starts[j]
  BY LengthIsNat DEF SearchInv
<1>1. \A c \in 0..Len(text) : IsStart(c) <=> \E i \in 1..n : starts[i] = c
  BY SearchIsComplete
<1>2. \A c \in Cuts : c \in 0..Len(text) /\ (c = Len(text) \/ \E i \in 1..n : starts[i] = c)
  BY <1>0, <1>1 DEF Cuts
<1>3. Len(text) \in Cuts /\ \A i \in 1..n : starts[i] \in Cuts
  BY <1>0, <1>1 DEF Cuts
<1>4. ASSUME NEW i \in 1..n
      PROVE  /\ Segment(i) = [lo |-> Segment(i).lo, hi |-> Segment(i).hi]
             /\ Segment(i).lo = starts[i]
             /\ i < n => i + 1 \in 1..n /\ Segment(i).hi = starts[i + 1]
             /\ i = n => Segment(i).hi = Len(text)
  BY <1>0 DEF Segment
<1>5. ASSUME NEW i \in 1..n
      PROVE  /\ Segment(i).lo \in Cuts /\ Segment(i).hi \in Cuts
             /\ \A c \in Cuts : c <= Segment(i).lo \/ c >= Segment(i).hi
  <2>1. Segment(i).lo \in Cuts /\ Segment(i).hi \in Cuts
    BY <1>0, <1>3, <1>4
  <2>2. ASSUME NEW c \in Cuts
        PROVE  c <= Segment(i).lo \/ c >= Segment(i).hi
    <3>0. Segment(i).hi <= Len(text) /\ Segment(i).hi \in Nat
      BY <1>0, <1>2, <2>1
    <3>1. CASE c = Len(text)
      BY <1>0, <3>0, <3>1
    <3>2. CASE \E j \in 1..n : starts[j] = c
      <4>1. PICK j \in 1..n : starts[j] = c
        BY <3>2
      <4>2. CASE j <= i
        <5>1. j = i \/ starts[j] < starts[i]
          BY <1>0, <4>2
        <5> QED
          BY <1>0, <1>4, <4>1, <5>1
      <4>3. CASE j > i
        <5>1. i < n /\ i + 1 \in 1..n /\ Segment(i).hi = starts[i + 1]
          BY <1>0, <1>4, <4>3
        <5>2. j = i + 1 \/ starts[i + 1] < starts[j]
          BY <1>0, <4>3, <5>1
        <5> QED
          BY <1>0, <4>1, <5>1, <5>2
      <4> QED
        BY <1>0, <4>2, <4>3
    <3> QED
      BY <1>2, <3>1, <3>2
  <2> QED
    BY <2>1, <2>2
<1>6. ASSUME NEW i \in Kept
      PROVE  Segment(i) \in Pieces
  <2>1. i \in 1..n
    OBVIOUS
  <2>2. PICK lo, hi : lo = Segment(i).lo /\ hi = Segment(i).hi
    OBVIOUS
  <2>3. /\ lo \in Cuts /\ hi \in Cuts /\ Segment(i) = [lo |-> lo, hi |-> hi]
        /\ \A c \in Cuts : c <= lo \/ c >= hi
    BY <1>4, <1>5, <2>1, <2>2
  <2>4. PICK x \in lo..hi - 1 : Byte(x) \in {"x", ".", "lead"}
    <3>1. PICK x \in lo..hi - 1 : Byte(x) \notin Space \cup {"wide", "cont"}
      BY <2>2 DEF Blank
    <3>2. x + 1 \in 1..Len(text)
      BY <1>0, <1>2, <2>3
    <3>3. Byte(x) \in Bytes
      BY <3>2, TextIs DEF Byte
    <3> QED
      BY <3>1, <3>3 DEF Bytes, Space
  <2>5. lo < hi
    BY <1>0, <1>2, <2>3, <2>4
  <2> QED
    BY <2>3, <2>4, <2>5 DEF Pieces
<1>7. ASSUME NEW s \in Pieces
      PROVE  \E i \in Kept : s = Segment(i)
  <2>1. PICK a \in Cuts, b \in Cuts : s = [lo |-> a, hi |-> b]
    BY DEF Pieces
  <2>2. a < b /\ (\A c \in Cuts : c <= a \/ c >= b) /\ \E x \in a..b - 1 : Byte(x) \in {"x", ".", "lead"}
    BY <2>1 DEF Pieces
  <2>3. a \in Nat /\ b \in Nat /\ b <= Len(text) /\ a # Len(text)
    BY <1>0, <1>2, <2>2
  <2>4. PICK i \in 1..n : starts[i] = a
    BY <1>2, <2>3
  <2>5. Segment(i).hi = b
    <3>1. CASE i < n
      <4>1. i + 1 \in 1..n /\ Segment(i).hi = starts[i + 1]
        BY <1>4, <3>1
      <4>2. starts[i] < starts[i + 1] /\ starts[i + 1] \in Cuts /\ starts[i + 1] \in Nat
        BY <1>0, <1>3, <3>1, <4>1
      <4>3. starts[i + 1] >= b
        BY <2>2, <2>3, <2>4, <4>2
      <4>4. starts[i + 1] <= b
        <5>1. b <= Segment(i).lo \/ b >= Segment(i).hi
          BY <1>5
        <5>2. Segment(i).lo = a
          BY <1>4, <2>4
        <5> QED
          BY <2>2, <2>3, <4>1, <4>2, <5>1, <5>2
      <4> QED
        BY <2>3, <4>1, <4>2, <4>3, <4>4
    <3>2. CASE i = n
      <4>1. Segment(i).hi = Len(text) /\ Segment(i).lo = a
        BY <1>4, <2>4, <3>2
      <4>2. b <= a \/ b >= Len(text)
        BY <1>5, <4>1
      <4> QED
        BY <1>0, <2>2, <2>3, <4>1, <4>2
    <3> QED
      BY <1>0, <3>1, <3>2
  <2>6. s = Segment(i)
    BY <1>4, <2>1, <2>4, <2>5
  <2>7. ~Blank(Segment(i))
    BY <2>2, <2>4, <2>5, <1>4 DEF Blank, Space
  <2> QED
    BY <2>6, <2>7
<1> QED
  BY <1>6, <1>7

\* The sentences stay exact while the text and they stay what they are.
LEMMA ExactFrame ==
    ASSUME SentencesAreExact, pc # "boundaries", text' = text, sentences' = sentences
    PROVE  SentencesAreExact'
<1>1. Cuts' = Cuts /\ Pieces' = Pieces
  BY DEF Cuts, Pieces, IsStart, AfterTerminator, Byte
<1>2. {sentences[i] : i \in 1..Len(sentences)} = Pieces
  BY DEF SentencesAreExact, Pieces, Cuts
<1>3. \A i \in 1..Len(sentences) - 1 : sentences[i].hi <= sentences[i + 1].lo
  BY DEF SentencesAreExact
<1>4. {sentences'[i] : i \in 1..Len(sentences')} = Pieces'
  BY <1>1, <1>2
<1> QED
  BY <1>3, <1>4 DEF SentencesAreExact, Pieces, Cuts

LEMMA SplitSentencesInv ==
    ASSUME ExtractorInv, SplitSentences
    PROVE  ExtractorInv'
<1> DEFINE n == Len(starts)
           Kept == {i \in 1..n : ~Blank(Segment(i))}
<1>0. /\ text \in Texts /\ text' = text /\ pc = "boundaries" /\ pc' = "rules"
      /\ Len(text) \in Nat /\ SearchInv /\ NothingFound
      /\ \A p \in pos..Len(text) - 1 : MatchEnd(p) = p
  BY LengthIsNat DEF ExtractorInv, SplitSentences
<1>1. PICK q \in [1..Cardinality(Kept) -> Kept] :
         /\ \A i, j \in 1..Cardinality(Kept) : i < j => q[i] < q[j]
         /\ sentences' = [k \in 1..Cardinality(Kept) |-> Segment(q[k])]
  BY DEF SplitSentences, Orders
<1>2. /\ n \in Nat /\ \A i \in 1..n : starts[i] \in 0..Len(text)
      /\ \A i, j \in 1..n : i < j => starts[i] < starts[j]
  BY <1>0 DEF SearchInv
<1>3. IsFiniteSet(Kept) /\ Cardinality(Kept) \in Nat
  <2>1. IsFiniteSet(1..n) /\ Kept \in SUBSET (1..n)
    BY <1>2, FS_Interval
  <2> HIDE DEF Kept
  <2>2. IsFiniteSet(Kept)
    BY <2>1, FS_Subset
  <2> QED
    BY <2>2, FS_CardinalityType
<1>4. PICK m \in Nat : m = Cardinality(Kept)
  BY <1>3
<1>5. \A k \in 1..m : q[k] \in Kept /\ q[k] \in 1..n
  BY <1>1, <1>4
<1>6. \A x \in Kept : \E k \in 1..m : q[k] = x
  <2>1. \A i, j \in 1..m : q[i] = q[j] => i = j
    <3> SUFFICES ASSUME NEW i \in 1..m, NEW j \in 1..m, i < j
                 PROVE  q[i] # q[j]
      BY <1>4
    <3>1. q[i] < q[j] /\ q[i] \in Nat /\ q[j] \in Nat
      BY <1>1, <1>2, <1>4, <1>5
    <3> QED
      BY <3>1
  <2> HIDE DEF Kept
  <2> QED
    BY <1>1, <1>3, <1>4, <2>1, ListingIsOnto
<1>7. sentences' = [k \in 1..m |-> Segment(q[k])]
  BY <1>1, <1>4
<1>8. Len(sentences') = m /\ \A k \in 1..m : sentences'[k] = Segment(q[k])
  BY <1>4, <1>7
<1>9. \A i \in 1..n : Segment(i) \in [lo : 0..Len(text), hi : 0..Len(text)]
  BY <1>0, <1>2 DEF Segment
<1>10. sentences' \in Seq([lo : 0..Len(text), hi : 0..Len(text)])
  <2>1. \A k \in 1..m : Segment(q[k]) \in [lo : 0..Len(text), hi : 0..Len(text)]
    BY <1>5, <1>9
  <2> QED
    <3>1. sentences' = [k \in 1..m |-> sentences'[k]]
      BY <1>7
    <3>2. \A k \in 1..m : sentences'[k] \in [lo : 0..Len(text), hi : 0..Len(text)]
      BY <1>8, <2>1
    <3> QED
      BY <3>1, <3>2, SequenceOf, Zenon
<1>11. {sentences'[k] : k \in 1..m} = {Segment(i) : i \in Kept}
  BY <1>5, <1>6, <1>8
<1>12. {sentences'[k] : k \in 1..m} = Pieces
  BY <1>0, <1>11, SegmentsArePieces
<1>13. ASSUME NEW i \in 1..m, NEW j \in 1..m, i < j
       PROVE  sentences'[i].hi <= sentences'[j].lo
  <2>1. q[i] \in 1..n /\ q[j] \in 1..n /\ q[i] < q[j]
    BY <1>1, <1>4, <1>5, <1>13
  <2>2. q[i] < n /\ q[i] + 1 \in 1..n
    BY <1>2, <2>1
  <2>3. Segment(q[i]).hi = starts[q[i] + 1] /\ Segment(q[j]).lo = starts[q[j]]
    BY <2>2 DEF Segment
  <2>4. q[i] + 1 = q[j] \/ starts[q[i] + 1] < starts[q[j]]
    BY <1>2, <2>1, <2>2
  <2>5. starts[q[i] + 1] \in Nat /\ starts[q[j]] \in Nat
    BY <1>0, <1>2, <2>1, <2>2
  <2>6. starts[q[i] + 1] <= starts[q[j]]
    BY <2>4, <2>5
  <2> QED
    BY <1>8, <2>3, <2>6
<1>14. ASSUME NEW i \in 1..m
       PROVE  sentences'[i].lo < sentences'[i].hi
  <2>1. sentences'[i] \in Pieces
    BY <1>12
  <2> QED
    BY <2>1 DEF Pieces
<1>15. SentencesInv'
  <2>1. current' = 1
    BY <1>0 DEF NothingFound, SplitSentences
  <2> QED
    <3>1. current' \in 1..Len(sentences') + 1
      BY <1>4, <1>8, <2>1
    <3>2. \A i, j \in 1..Len(sentences') : i < j => sentences'[i].hi <= sentences'[j].lo
      BY <1>8, <1>13
    <3>3. \A i \in 1..Len(sentences') : sentences'[i].lo < sentences'[i].hi
      BY <1>8, <1>14
    <3> QED
      BY <1>0, <1>10, <3>1, <3>2, <3>3 DEF SentencesInv
<1>16. SentencesAreExact'
  <2>1. Cuts' = Cuts /\ Pieces' = Pieces
    BY <1>0 DEF Cuts, Pieces, IsStart, AfterTerminator, Byte
  <2>2. \A i \in 1..m - 1 : sentences'[i].hi <= sentences'[i + 1].lo
    <3> SUFFICES ASSUME NEW i \in 1..m - 1
                 PROVE  sentences'[i].hi <= sentences'[i + 1].lo
      OBVIOUS
    <3>1. i \in 1..m /\ i + 1 \in 1..m /\ i < i + 1
      BY <1>4
    <3> QED
      BY <1>13, <3>1
  <2>3. {sentences'[k] : k \in 1..Len(sentences')} = Pieces'
    BY <1>8, <1>12, <2>1
  <2> QED
    BY <1>8, <2>2, <2>3 DEF SentencesAreExact, Pieces, Cuts
<1>17. SpansInv' /\ EntitiesInv'
  <2>1. found' = <<>> /\ spans' = {} /\ entities' = <<>>
    BY <1>0 DEF NothingFound, SplitSentences
  <2> QED
    BY <2>1 DEF SpansInv, EarlierRuleWins, EntitiesInv
<1> QED
  BY <1>0, <1>15, <1>16, <1>17 DEF ExtractorInv

----------------------------------------------------------------------------
(* extractSentence. *)

\* A sentence is a piece of the text.
LEMMA SentenceIs ==
    ASSUME text \in Texts, SentencesInv, NEW k \in 1..Len(sentences)
    PROVE  /\ sentences[k].lo \in Nat /\ sentences[k].hi \in Nat
           /\ sentences[k].lo < sentences[k].hi /\ sentences[k].hi <= Len(text)
<1>1. /\ sentences \in Seq([lo : 0..Len(text), hi : 0..Len(text)])
      /\ sentences[k].lo < sentences[k].hi
  BY DEF SentencesInv
<1>2. sentences[k] \in [lo : 0..Len(text), hi : 0..Len(text)]
  BY <1>1, ElementOfSeq
<1>3. sentences[k].lo \in 0..Len(text) /\ sentences[k].hi \in 0..Len(text)
  BY <1>2
<1> QED
  BY <1>1, <1>3, LengthIsNat

\* A match starts at a word and lies in its sentence.
LEMMA CandidateIs ==
    ASSUME NEW s, s.lo \in Nat, s.hi \in Nat, NEW m \in Candidates(s)
    PROVE  /\ m \in [start : Nat, end : Nat] /\ m.start < m.end
           /\ s.lo + m.end <= s.hi /\ Byte(s.lo + m.start) = "x"
<1>1. /\ m \in [start : 0..s.hi - s.lo - 1, end : 1..s.hi - s.lo]
      /\ m.start < m.end /\ Word(s, m.start)
  BY DEF Candidates
<1>2. m.start \in 0..s.hi - s.lo - 1 /\ m.end \in 1..s.hi - s.lo
  BY <1>1
<1>3. m.start \in Nat /\ m.end \in Nat /\ s.lo + m.end <= s.hi
  BY <1>2
<1>4. m \in [start : Nat, end : Nat]
  BY <1>1, <1>3
<1>5. Byte(s.lo + m.start) = "x"
  BY <1>1 DEF Word
<1> QED
  BY <1>1, <1>3, <1>4, <1>5

LEMMA ApplyRuleInv ==
    ASSUME ExtractorInv, pc = "rules", current <= Len(sentences),
           NEW matches \in Matches(sentences[current]), ApplyRule(matches)
    PROVE  ExtractorInv'
<1> DEFINE s == sentences[current]
           R == Len(found) + 1
           Free == {m \in matches : \A sp \in spans : ~Overlap(m, sp)}
           New == {[rule |-> R, start |-> m.start, end |-> m.end] : m \in Free}
<1>0. /\ text' = text /\ pc' = pc /\ sentences' = sentences /\ current' = current
      /\ entities' = entities /\ found' = Append(found, matches) /\ spans' = spans \cup New
  BY DEF ApplyRule
<1>1. /\ SentencesInv /\ SpansInv /\ EntitiesInv /\ SentencesAreExact /\ text \in Texts
      /\ Len(text) \in Nat
  BY LengthIsNat DEF ExtractorInv
<1>2. current \in 1..Len(sentences) /\ s.lo \in Nat /\ s.hi \in Nat
  <2>1. current \in 1..Len(sentences)
    BY <1>1 DEF SentencesInv
  <2> QED
    BY <1>1, <2>1, SentenceIs
<1>3. \A m \in matches : /\ m \in [start : Nat, end : Nat] /\ m.start < m.end
                         /\ s.lo + m.end <= s.hi /\ Byte(s.lo + m.start) = "x"
  <2>1. matches \in SUBSET Candidates(s)
    BY DEF Matches
  <2> HIDE DEF s
  <2> QED
    BY <1>2, <2>1, CandidateIs
<1>4. \A a, b \in matches : a = b \/ a.end <= b.start \/ b.end <= a.start
  BY DEF Matches, Disjoint
<1>5. /\ found \in Seq(SUBSET [start : Nat, end : Nat])
      /\ matches \in SUBSET [start : Nat, end : Nat]
  BY <1>1, <1>3 DEF SpansInv
<1>6. /\ found' \in Seq(SUBSET [start : Nat, end : Nat])
      /\ Len(found) \in Nat /\ Len(found') = R /\ found'[R] = matches
      /\ \A r \in 1..Len(found) : found'[r] = found[r]
  BY <1>0, <1>5, AppendProperties
<1>7. ASSUME NEW sp \in New
      PROVE  \E m \in Free : /\ sp.rule = R /\ sp.start = m.start /\ sp.end = m.end
                             /\ sp = [rule |-> R, start |-> m.start, end |-> m.end]
  OBVIOUS
<1>8. \A sp \in spans : SpanOK(sp)
  BY <1>1 DEF SpansInv
<1>9. \A sp \in spans : /\ sp.rule \in 1..Len(found) /\ sp.rule \in Nat /\ sp.rule < R
                        /\ sp.start \in Nat /\ sp.end \in Nat
  <2> SUFFICES ASSUME NEW sp \in spans
               PROVE  /\ sp.rule \in 1..Len(found) /\ sp.rule \in Nat /\ sp.rule < R
                      /\ sp.start \in Nat /\ sp.end \in Nat
    OBVIOUS
  <2>1. sp.rule \in 1..Len(found) /\ sp.start \in Nat /\ sp.end \in Nat
    BY <1>8 DEF SpanOK
  <2> QED
    BY <1>6, <2>1
<1>10. \A sp \in spans' : SpanOK(sp)'
  <2>1. ASSUME NEW sp \in spans
        PROVE  SpanOK(sp)'
    <3>1. sp.rule \in 1..R
      BY <1>6, <1>9
    <3>2. SpanOK(sp)
      BY <1>8
    <3> QED
      BY <1>0, <1>6, <3>1, <3>2 DEF SpanOK, Byte
  <2>2. ASSUME NEW sp \in New
        PROVE  SpanOK(sp)'
    <3>1. PICK m \in matches : sp.rule = R /\ sp.start = m.start /\ sp.end = m.end
      BY <1>7, <2>2
    <3>2. R \in 1..R
      BY <1>6
    <3>3. /\ sp.start \in Nat /\ sp.end \in Nat /\ sp.start < sp.end
          /\ s.lo + sp.end <= s.hi /\ Byte(s.lo + sp.start) = "x"
      BY <1>3, <3>1
    <3> QED
      BY <1>0, <1>6, <3>1, <3>2, <3>3 DEF SpanOK, Byte
  <2> QED
    BY <1>0, <2>1, <2>2
<1>11. \A m \in matches, sp \in spans : ~Overlap(m, sp) <=> m.end <= sp.start \/ sp.end <= m.start
  <2> SUFFICES ASSUME NEW m \in matches, NEW sp \in spans
               PROVE  ~Overlap(m, sp) <=> m.end <= sp.start \/ sp.end <= m.start
    OBVIOUS
  <2>1. m.start \in Nat /\ m.end \in Nat /\ sp.start \in Nat /\ sp.end \in Nat
    BY <1>3, <1>9
  <2> QED
    BY <2>1 DEF Overlap
<1>12. \A a, b \in spans' : a = b \/ Apart(a, b)
  <2>1. ASSUME NEW a \in spans, NEW b \in spans
        PROVE  a = b \/ Apart(a, b)
    BY <1>1 DEF SpansInv
  <2>2. ASSUME NEW a \in New, NEW b \in spans
        PROVE  Apart(a, b)
    <3>1. PICK m \in Free : a.start = m.start /\ a.end = m.end
      BY <1>7, <2>2
    <3>2. m \in matches /\ ~Overlap(m, b)
      BY <2>2
    <3> QED
      BY <1>11, <3>1, <3>2 DEF Apart
  <2>3. ASSUME NEW a \in New, NEW b \in New
        PROVE  a = b \/ Apart(a, b)
    <3>1. PICK m \in Free : /\ a.start = m.start /\ a.end = m.end
                            /\ a = [rule |-> R, start |-> m.start, end |-> m.end]
      BY <1>7, <2>3
    <3>2. PICK k \in Free : /\ b.start = k.start /\ b.end = k.end
                            /\ b = [rule |-> R, start |-> k.start, end |-> k.end]
      BY <1>7, <2>3
    <3>3. CASE m = k
      BY <3>1, <3>2, <3>3
    <3>4. CASE m # k
      BY <1>4, <3>1, <3>2, <3>4 DEF Apart
    <3> QED
      BY <3>3, <3>4
  <2>4. ASSUME NEW a \in spans, NEW b \in New
        PROVE  Apart(a, b)
    BY <2>2, <2>4 DEF Apart
  <2> HIDE DEF New
  <2> QED
    BY <1>0, <2>1, <2>2, <2>3, <2>4
<1>13. \A sp \in New : sp.rule = R
  OBVIOUS
<1>14. EarlierRuleWins'
  <2> SUFFICES ASSUME NEW r \in 1..R, NEW m \in found'[r]
               PROVE  [rule |-> r, start |-> m.start, end |-> m.end] \in spans' <=>
                        \A sp \in spans' : sp.rule < r => m.end <= sp.start \/ sp.end <= m.start
    BY <1>6 DEF EarlierRuleWins
  <2> DEFINE this == [rule |-> r, start |-> m.start, end |-> m.end]
  <2>0. this.rule = r
    OBVIOUS
  <2>1. CASE r \in 1..Len(found)
    <3>1. r \in Nat /\ r < R /\ m \in found[r]
      BY <1>6, <2>1
    <3>2. this \in spans <=>
             \A sp \in spans : sp.rule < r => m.end <= sp.start \/ sp.end <= m.start
      BY <1>1, <2>1, <3>1 DEF SpansInv, EarlierRuleWins
    <3>3. \A sp \in New : sp.rule = R /\ ~(sp.rule < r) /\ sp.rule # r
      BY <1>6, <1>13, <3>1
    <3>4. this \notin New
      BY <2>0, <3>3
    <3> HIDE DEF New, this
    <3>5. this \in spans' <=> this \in spans
      BY <1>0, <3>4
    <3>6. (\A sp \in spans' : sp.rule < r => m.end <= sp.start \/ sp.end <= m.start) <=>
             \A sp \in spans : sp.rule < r => m.end <= sp.start \/ sp.end <= m.start
      BY <1>0, <3>3
    <3> QED
      BY <3>2, <3>5, <3>6 DEF this
  <2>2. CASE r = R
    <3>1. m \in matches
      BY <1>6, <2>2
    <3>2. m \in Free <=> \A sp \in spans : m.end <= sp.start \/ sp.end <= m.start
      BY <1>11, <3>1
    <3>3. this \in New <=> m \in Free
      <4>1. ASSUME this \in New
            PROVE  m \in Free
        <5>1. PICK k \in Free : this = [rule |-> R, start |-> k.start, end |-> k.end]
          BY <4>1
        <5>2. m.start = k.start /\ m.end = k.end
          BY <5>1
        <5>3. m \in [start : Nat, end : Nat] /\ k \in [start : Nat, end : Nat]
          BY <1>3, <3>1
        <5>4. m = k
          BY <5>2, <5>3
        <5> QED
          BY <5>4
      <4>2. m \in Free => this \in New
        BY <2>2
      <4> QED
        BY <4>1, <4>2
    <3>4. this \notin spans
      BY <1>6, <1>9, <2>0, <2>2
    <3>5. \A sp \in New : ~(sp.rule < r)
      BY <1>6, <1>13, <2>2
    <3>6. \A sp \in spans : sp.rule < r
      BY <1>9, <2>2
    <3> HIDE DEF New, this, Free
    <3>7. this \in spans' <=> m \in Free
      BY <1>0, <3>3, <3>4
    <3>8. (\A sp \in spans' : sp.rule < r => m.end <= sp.start \/ sp.end <= m.start) <=>
             \A sp \in spans : m.end <= sp.start \/ sp.end <= m.start
      BY <1>0, <3>5, <3>6
    <3> QED
      BY <3>2, <3>7, <3>8 DEF this
  <2> QED
    BY <1>6, <2>1, <2>2
<1>15. SpansInv'
  BY <1>0, <1>2, <1>6, <1>10, <1>12, <1>14 DEF SpansInv, Apart
<1>16. SentencesAreExact' /\ SentencesInv'
  <2>1. SentencesInv'
    BY <1>0, <1>1 DEF SentencesInv
  <2> QED
    BY <1>0, <1>1, <2>1, ExactFrame
<1>17. EntitiesInv'
  BY <1>0, <1>1 DEF EntitiesInv, EntityOK, EntityAt, RuneCount, FormFeeds, Byte
<1> QED
  BY <1>0, <1>1, <1>15, <1>16, <1>17 DEF ExtractorInv

\* There are finitely many spans: they start at different bytes.
LEMMA SpansAreFinite ==
    ASSUME text \in Texts, SentencesInv, SpansInv
    PROVE  IsFiniteSet(spans)
<1>1. CASE spans = {}
  BY <1>1, FS_EmptySet
<1>2. CASE spans # {}
  <2> DEFINE f == [sp \in spans |-> sp.start]
  <2>1. current \in 1..Len(sentences) /\ \A sp \in spans : SpanOK(sp)
    BY <1>2 DEF SpansInv
  <2>2. PICK lo \in Nat, hi \in Nat : lo = sentences[current].lo /\ hi = sentences[current].hi
    BY <2>1, SentenceIs
  <2>3. \A sp \in spans : /\ sp.start \in Nat /\ sp.end \in Nat /\ sp.start < sp.end
                          /\ lo + sp.end <= hi
    BY <2>1, <2>2 DEF SpanOK
  <2>4. \A sp \in spans : sp.start \in 0..hi
    BY <2>3
  <2>5. \A a, b \in spans : a.start = b.start => a = b
    <3> SUFFICES ASSUME NEW a \in spans, NEW b \in spans, a # b
                 PROVE  a.start # b.start
      OBVIOUS
    <3>1. a.end <= b.start \/ b.end <= a.start
      BY DEF SpansInv, Apart
    <3> QED
      BY <2>3, <3>1
  <2>6. f \in Injection(spans, 0..hi)
    BY <2>4, <2>5 DEF Injection, IsInjective
  <2>7. IsFiniteSet(0..hi)
    BY FS_Interval
  <2> QED
    BY <2>6, <2>7, FS_Injection
<1> QED
  BY <1>1, <1>2

LEMMA NextSentenceInv ==
    ASSUME ExtractorInv, NextSentence
    PROVE  ExtractorInv'
<1> DEFINE Entity == [page : Nat, sentence : Nat, char_offset : Nat, at : Nat]
<1>0. /\ text' = text /\ pc = "rules" /\ pc' = pc /\ sentences' = sentences
      /\ current' = current + 1 /\ found' = <<>> /\ spans' = {}
      /\ current <= Len(sentences)
  BY DEF NextSentence
<1>1. /\ SentencesInv /\ SpansInv /\ EntitiesInv /\ SentencesAreExact /\ text \in Texts
      /\ Len(text) \in Nat
  BY LengthIsNat DEF ExtractorInv
<1>2. current \in Nat /\ Len(sentences) \in Nat /\ current \in 1..Len(sentences)
  BY <1>0, <1>1 DEF SentencesInv
<1>3. PICK lo \in Nat, hi \in Nat, c \in Nat :
         lo = sentences[current].lo /\ hi = sentences[current].hi /\ c = current
  BY <1>1, <1>2, SentenceIs
<1>4. PICK q \in [1..Cardinality(spans) -> spans] :
         /\ \A i, j \in 1..Cardinality(spans) : i < j => q[i] # q[j] /\ q[i].start <= q[j].start
         /\ entities' = entities \o [k \in 1..Cardinality(spans) |-> EntityOf(q[k])]
  BY DEF NextSentence, Orders
<1>5. PICK m \in Nat : m = Cardinality(spans)
  BY <1>1, SpansAreFinite, FS_CardinalityType
<1>6. PICK n \in Nat : n = Len(entities)
  BY <1>1 DEF EntitiesInv
<1>7. \A k \in 1..m : q[k] \in spans
  BY <1>4, <1>5
<1>8. \A sp \in spans : /\ sp.start \in Nat /\ sp.end \in Nat /\ sp.start < sp.end
                        /\ lo + sp.end <= hi /\ Byte(lo + sp.start) = "x"
  BY <1>1, <1>3 DEF SpansInv, SpanOK
<1>9. PICK more : more = [k \in 1..m |-> EntityOf(q[k])]
  OBVIOUS
<1>10. ASSUME NEW k \in 1..m
       PROVE  /\ more[k].page = 1 + FormFeeds(lo) /\ more[k].sentence = c - 1
              /\ more[k].char_offset = RuneCount(lo + q[k].start)
              /\ more[k].at = lo + q[k].start
              /\ more[k] = [page |-> more[k].page, sentence |-> more[k].sentence,
                            char_offset |-> more[k].char_offset, at |-> more[k].at]
  BY <1>3, <1>9 DEF EntityOf
<1>11. ASSUME NEW k \in 1..m
       PROVE  /\ more[k].at \in Nat /\ lo <= more[k].at /\ more[k].at < hi
              /\ Byte(more[k].at) = "x" /\ more[k].char_offset = RuneCount(more[k].at)
              /\ more[k] \in Entity
  <2>1. /\ q[k].start \in Nat /\ q[k].end \in Nat /\ q[k].start < q[k].end
        /\ lo + q[k].end <= hi /\ Byte(lo + q[k].start) = "x"
    BY <1>7, <1>8
  <2>2. more[k].at \in Nat /\ lo <= more[k].at /\ more[k].at < hi /\ Byte(more[k].at) = "x"
    <3>1. PICK x : x = more[k].at
      OBVIOUS
    <3>2. PICK a, b : a = q[k].start /\ b = q[k].end
      OBVIOUS
    <3>3. x = lo + a /\ a \in Nat /\ b \in Nat /\ a < b /\ lo + b <= hi
      BY <1>10, <2>1, <3>1, <3>2
    <3>4. x \in Nat /\ lo <= x /\ x < hi
      BY <3>3
    <3>5. Byte(x) = "x"
      BY <2>1, <3>2, <3>3
    <3> QED
      BY <3>1, <3>4, <3>5
  <2>3. more[k].char_offset = RuneCount(more[k].at)
    BY <1>10
  <2>4. FormFeeds(lo) \in Nat
    BY <1>3, FormFeedsGrow
  <2>5. RuneCount(more[k].at) \in Nat
    <3>1. text[more[k].at + 1] # "cont"
      BY <2>2 DEF Byte
    <3> QED
      BY <1>3, <2>2, <3>1, RuneCountGrows
  <2>6. more[k].page \in Nat /\ more[k].sentence \in Nat
    <3>1. 1 + FormFeeds(lo) \in Nat /\ c - 1 \in Nat
      BY <1>2, <1>3, <2>4
    <3> QED
      BY <1>10, <3>1
  <2>7. more[k] \in Entity
    <3>1. PICK p, t, o, x : /\ p = more[k].page /\ t = more[k].sentence
                            /\ o = more[k].char_offset /\ x = more[k].at
      OBVIOUS
    <3>2. p \in Nat /\ t \in Nat /\ o \in Nat /\ x \in Nat
      BY <2>2, <2>3, <2>5, <2>6, <3>1
    <3>3. more[k] = [page |-> p, sentence |-> t, char_offset |-> o, at |-> x]
      BY <1>10, <3>1
    <3> QED
      BY <3>2, <3>3
  <2> QED
    BY <2>2, <2>3, <2>7
<1>12. more \in Seq(Entity) /\ Len(more) = m
  <2>1. more = [k \in 1..m |-> more[k]]
    BY <1>9
  <2>2. \A k \in 1..m : more[k] \in Entity
    BY <1>11
  <2> HIDE DEF Entity
  <2> QED
    BY <2>1, <2>2, SequenceOf, Zenon
<1>13. entities \in Seq(Entity) /\ entities' = entities \o more
  BY <1>1, <1>4, <1>5, <1>9 DEF EntitiesInv
<1>14. /\ entities' \in Seq(Entity) /\ Len(entities') = n + m
       /\ \A i \in 1..n : entities'[i] = entities[i]
       /\ \A i \in n + 1..n + m : entities'[i] = more[i - n]
  <2> HIDE DEF Entity
  <2> QED
    <3>1. entities' \in Seq(Entity) /\ Len(entities') = n + m
      BY <1>6, <1>12, <1>13, ConcatProperties
    <3>2. \A i \in 1..n + m : entities'[i] = IF i <= n THEN entities[i] ELSE more[i - n]
      BY <1>6, <1>12, <1>13, ConcatProperties
    <3> QED
      BY <3>1, <3>2
<1>15. \A e : EntityOK(e) => EntityOK(e)'
  <2> SUFFICES ASSUME NEW e, EntityOK(e)
               PROVE  EntityOK(e)'
    OBVIOUS
  <2>1. PICK k \in 1..Len(sentences) : k < current /\ EntityAt(e, k)
    BY DEF EntityOK
  <2>2. k < current' /\ EntityAt(e, k)'
    <3>1. EntityAt(e, k)'
      BY <1>0, <2>1 DEF EntityAt, FormFeeds
    <3> QED
      BY <1>0, <1>2, <2>1, <3>1
  <2> QED
    BY <1>0, <2>1, <2>2 DEF EntityOK, RuneCount, Byte
<1>16. \A k \in 1..m : EntityOK(more[k])'
  <2> SUFFICES ASSUME NEW k \in 1..m
               PROVE  EntityOK(more[k])'
    OBVIOUS
  <2>1. PICK e : e = more[k]
    OBVIOUS
  <2>2. EntityAt(e, c)
    BY <1>3, <1>10, <1>11, <2>1 DEF EntityAt
  <2>3. EntityAt(e, c)'
    BY <1>0, <2>2 DEF EntityAt, FormFeeds
  <2>4. c \in 1..Len(sentences') /\ c < current'
    BY <1>0, <1>2, <1>3
  <2>5. e.at \in Nat /\ Byte(e.at) = "x" /\ e.char_offset = RuneCount(e.at)
    BY <1>11, <2>1
  <2>6. EntityOK(e)'
    BY <1>0, <2>3, <2>4, <2>5 DEF EntityOK, RuneCount, Byte
  <2> QED
    BY <2>1, <2>6
<1>17. ASSUME NEW i \in 1..n
       PROVE  entities[i].at \in Nat /\ entities[i].at < lo
  <2>1. EntityOK(entities[i])
    BY <1>1, <1>6 DEF EntitiesInv
  <2>2. PICK k \in 1..Len(sentences) : k < current /\ entities[i].at < sentences[k].hi
    BY <2>1 DEF EntityOK, EntityAt
  <2>3. sentences[k].hi <= sentences[current].lo /\ sentences[k].hi \in Nat
    <3>1. sentences[k].hi \in Nat
      BY <1>1, SentenceIs
    <3> QED
      BY <1>1, <1>2, <2>2, <3>1 DEF SentencesInv
  <2>4. entities[i].at \in Nat
    BY <2>1 DEF EntityOK
  <2> QED
    BY <1>3, <2>2, <2>3, <2>4
<1>18. ASSUME NEW i \in 1..m, NEW j \in 1..m, i < j
       PROVE  more[i].at < more[j].at
  <2>1. /\ q[i] \in spans /\ q[j] \in spans /\ q[i] # q[j] /\ q[i].start <= q[j].start
    BY <1>4, <1>5, <1>7, <1>18
  <2>2. q[i].end <= q[j].start \/ q[j].end <= q[i].start
    BY <1>1, <2>1 DEF SpansInv, Apart
  <2>3. PICK a, b, x, y : a = q[i].start /\ b = q[i].end /\ x = q[j].start /\ y = q[j].end
    OBVIOUS
  <2>4. /\ a \in Nat /\ b \in Nat /\ x \in Nat /\ y \in Nat /\ a < b /\ x < y /\ a <= x
        /\ b <= x \/ y <= a
    BY <1>8, <2>1, <2>2, <2>3
  <2>5. lo + a < lo + x
    BY <2>4
  <2> QED
    BY <1>10, <2>3, <2>5
<1>19. ASSUME NEW i \in 1..n + m, NEW j \in 1..n + m, i < j
       PROVE  entities'[i].at < entities'[j].at
  <2>1. CASE j <= n
    <3>1. i \in 1..n /\ j \in 1..n
      BY <1>19, <2>1
    <3>2. entities[i].at < entities[j].at
      BY <1>1, <1>6, <1>19, <3>1 DEF EntitiesInv
    <3> QED
      BY <1>14, <3>1, <3>2
  <2>2. CASE i <= n /\ j > n
    <3>1. i \in 1..n /\ j \in n + 1..n + m /\ j - n \in 1..m
      BY <2>2
    <3>2. PICK x, y : x = entities[i].at /\ y = more[j - n].at
      OBVIOUS
    <3>3. x \in Nat /\ x < lo /\ y \in Nat /\ lo <= y
      BY <1>11, <1>17, <3>1, <3>2
    <3>4. x < y
      BY <3>3
    <3> QED
      BY <1>14, <3>1, <3>2, <3>4
  <2>3. CASE i > n
    <3>1. /\ i \in n + 1..n + m /\ j \in n + 1..n + m /\ i - n \in 1..m /\ j - n \in 1..m
          /\ i - n < j - n
      BY <1>19, <2>3
    <3> QED
      BY <1>14, <1>18, <3>1
  <2> QED
    BY <1>19, <2>1, <2>2, <2>3
<1>20. EntitiesInv'
  <2>1. \A i \in 1..n + m : EntityOK(entities[i])'
    <3> SUFFICES ASSUME NEW i \in 1..n + m
                 PROVE  EntityOK(entities[i])'
      OBVIOUS
    <3>1. CASE i <= n
      <4>0. i \in 1..n
        BY <3>1
      <4>1. entities'[i] = entities[i]
        BY <1>14, <4>0
      <4>2. PICK e : e = entities[i]
        OBVIOUS
      <4>3. EntityOK(e)
        BY <1>1, <1>6, <4>0, <4>2 DEF EntitiesInv
      <4>4. EntityOK(e)'
        BY <1>15, <4>3
      <4> QED
        BY <4>1, <4>2, <4>4
    <3>2. CASE i > n
      <4>1. i \in n + 1..n + m /\ i - n \in 1..m
        BY <3>2
      <4>2. entities'[i] = more[i - n]
        BY <1>14, <4>1
      <4> QED
        BY <1>16, <4>1, <4>2
    <3> QED
      BY <3>1, <3>2
  <2> QED
    BY <1>14, <1>19, <2>1 DEF EntitiesInv
<1>21. SpansInv'
  BY <1>0 DEF SpansInv, EarlierRuleWins
<1>22. SentencesInv'
  BY <1>0, <1>1, <1>2 DEF SentencesInv
<1>23. SentencesAreExact'
  BY <1>0, <1>1, ExactFrame
<1> QED
  BY <1>0, <1>1, <1>20, <1>21, <1>22, <1>23 DEF ExtractorInv

----------------------------------------------------------------------------
(* The result. *)

\* Entities further on in the document have larger offsets.
LEMMA OffsetsGrow ==
    ASSUME EntitiesInv, NEW i \in 1..Len(entities), NEW j \in 1..Len(entities), i < j
    PROVE  /\ entities[i].char_offset \in Nat /\ entities[j].char_offset \in Nat
           /\ entities[i].char_offset < entities[j].char_offset
<1>1. PICK a, b : a = entities[i].at /\ b = entities[j].at
  OBVIOUS
<1>2. EntityOK(entities[i]) /\ EntityOK(entities[j]) /\ a < b
  BY <1>1 DEF EntitiesInv
<1>3. /\ a \in Nat /\ b \in Nat /\ Byte(a) = "x"
      /\ entities[i].char_offset = RuneCount(a) /\ entities[j].char_offset = RuneCount(b)
  BY <1>1, <1>2 DEF EntityOK
<1>4. text[a + 1] # "cont"
  BY <1>3 DEF Byte
<1>5. RuneCount(a) \in Nat /\ RuneCount(b) \in Nat /\ RuneCount(a) < RuneCount(b)
  BY <1>2, <1>3, <1>4, RuneCountGrows
<1> QED
  BY <1>3, <1>5

LEMMA ReturnInv ==
    ASSUME ExtractorInv, Return
    PROVE  ExtractorInv'
<1>0. /\ text' = text /\ pc = "rules" /\ pc' = "returned" /\ sentences' = sentences
      /\ current' = current /\ found' = found /\ spans' = spans
  BY DEF Return
<1>1. /\ SentencesInv /\ SpansInv /\ EntitiesInv /\ SentencesAreExact /\ text \in Texts
  BY DEF ExtractorInv
<1> DEFINE Entity == [page : Nat, sentence : Nat, char_offset : Nat, at : Nat]
<1>2. entities \in Seq(Entity)
  BY <1>1 DEF EntitiesInv
<1>3. PICK n \in Nat : n = Len(entities)
  BY <1>2
<1>4. PICK q \in [1..n -> 1..n] :
         /\ \A i, j \in 1..n : i < j => SortsBefore(q[i], q[j])
         /\ entities' = [k \in 1..n |-> entities[q[k]]]
  <2>1. Cardinality(1..n) = n
    BY FS_Interval
  <2>2. PICK q \in [1..Cardinality(1..n) -> 1..n] :
           /\ \A i, j \in DOMAIN q : i < j => SortsBefore(q[i], q[j])
           /\ entities' = [k \in 1..n |-> entities[q[k]]]
    BY <1>3 DEF Return, Orders
  <2> QED
    BY <2>1, <2>2
<1>5. \A i \in 1..n : q[i] \in 1..n /\ entities'[i] = entities[q[i]] /\ entities[q[i]] \in Entity
  <2>1. \A i \in 1..n : q[i] \in 1..n /\ entities'[i] = entities[q[i]]
    BY <1>4
  <2> HIDE DEF Entity
  <2>2. \A i \in 1..n : entities[i] \in Entity
    BY <1>2, <1>3, ElementOfSeq
  <2> QED
    BY <2>1, <2>2
<1>6. entities' \in Seq(Entity) /\ Len(entities') = n
  <2>1. entities' = [k \in 1..n |-> entities'[k]] /\ \A k \in 1..n : entities'[k] \in Entity
    BY <1>4, <1>5
  <2> HIDE DEF Entity
  <2> QED
    BY <2>1, SequenceOf, Zenon
<1>7. ASSUME NEW i \in 1..n, NEW j \in 1..n, i < j
      PROVE  entities'[i].at < entities'[j].at
  <2>1. q[i] \in 1..n /\ q[j] \in 1..n /\ SortsBefore(q[i], q[j])
    BY <1>4, <1>7
  <2>2. PICK a \in 1..n, b \in 1..n : a = q[i] /\ b = q[j]
    BY <2>1
  <2>3. PICK x, y : x = entities[a].char_offset /\ y = entities[b].char_offset
    OBVIOUS
  <2>4. x < y \/ (x = y /\ a < b)
    BY <2>1, <2>2, <2>3 DEF SortsBefore
  <2>5. x \in Nat /\ y \in Nat
    <3>1. entities[a] \in Entity /\ entities[b] \in Entity
      BY <1>5, <2>2
    <3> QED
      BY <2>3, <3>1
  <2>6. b < a => y < x
    BY <1>1, <1>3, <2>3, OffsetsGrow
  <2>7. a = b => x = y
    BY <2>3
  <2>8. a < b
    BY <2>4, <2>5, <2>6, <2>7
  <2>9. entities[a].at < entities[b].at
    BY <1>1, <1>3, <2>8 DEF EntitiesInv
  <2> QED
    BY <1>5, <2>2, <2>9
<1>8. \A i \in 1..n : EntityOK(entities[i])'
  <2> SUFFICES ASSUME NEW i \in 1..n
               PROVE  EntityOK(entities[i])'
    OBVIOUS
  <2>1. PICK e : e = entities[q[i]]
    OBVIOUS
  <2>2. EntityOK(e) /\ entities'[i] = e
    BY <1>1, <1>3, <1>5, <2>1 DEF EntitiesInv
  <2>3. EntityOK(e)'
    BY <1>0, <2>2 DEF EntityOK, EntityAt, RuneCount, FormFeeds, Byte
  <2> QED
    BY <2>2, <2>3
<1>9. EntitiesInv'
  BY <1>6, <1>7, <1>8 DEF EntitiesInv
<1>10. SpansInv'
  BY <1>0, <1>1 DEF SpansInv, SpanOK, Apart, EarlierRuleWins, Byte
<1>11. SentencesInv' /\ SentencesAreExact'
  <2>1. SentencesInv'
    BY <1>0, <1>1 DEF SentencesInv
  <2> QED
    BY <1>0, <1>1, <2>1, ExactFrame
<1> QED
  BY <1>0, <1>1, <1>9, <1>10, <1>11 DEF ExtractorInv

LEMMA StutterInv ==
    ASSUME ExtractorInv, UNCHANGED vars
    PROVE  ExtractorInv'
<1>1. /\ text' = text /\ pc' = pc /\ pos' = pos /\ starts' = starts
      /\ UNCHANGED <<text, sentences, current, found, spans, entities>>
  BY DEF vars
<1>2. SearchInv => SearchInv'
  BY <1>1 DEF SearchInv, IsStart, AfterTerminator, Byte
<1>3. NothingFound => NothingFound'
  BY <1>1 DEF NothingFound
<1>4. SentencesAreExact'
  <2>1. CASE pc = "boundaries"
    BY <1>1, <2>1 DEF SentencesAreExact
  <2>2. CASE pc # "boundaries"
    BY <1>1, <2>2, ExactFrame DEF ExtractorInv
  <2> QED
    BY <2>1, <2>2
<1> QED
  BY <1>1, <1>2, <1>3, <1>4, FrameInv DEF ExtractorInv

\* What Extract has computed so far is right after every step of it: the
\* inductive invariant, of which the properties below are consequences.
THEOREM ExtractorCorrect == Spec => []ExtractorInv
<1>1. ExtractorInv /\ [Next]_vars => ExtractorInv'
  <2> SUFFICES ASSUME ExtractorInv, [Next]_vars
               PROVE  ExtractorInv'
    OBVIOUS
  <2>1. CASE NextBoundary
    BY <2>1, NextBoundaryInv
  <2>2. CASE SplitSentences
    BY <2>2, SplitSentencesInv
  <2>3. ASSUME pc = "rules", current <= Len(sentences),
               NEW matches \in Matches(sentences[current]), ApplyRule(matches)
        PROVE  ExtractorInv'
    BY <2>3, ApplyRuleInv
  <2>4. CASE NextSentence
    BY <2>4, NextSentenceInv
  <2>5. CASE Return
    BY <2>5, ReturnInv
  <2>6. CASE UNCHANGED vars
    BY <2>6, StutterInv
  <2> QED
    BY <2>1, <2>2, <2>3, <2>4, <2>5, <2>6 DEF Next, Returned
<1> QED
  BY <1>1, InitInv, PTL DEF Spec

\* splitSentences cuts the text at all the boundaries it has and at no other
\* place, although it finds them one at a time from the left, and keeps the
\* pieces that are not white space.
THEOREM SentencesExact == Spec => []SentencesAreExact
<1>1. ExtractorInv => SentencesAreExact
  BY DEF ExtractorInv
<1> QED
  BY <1>1, ExtractorCorrect, PTL

\* A match of a rule is dropped exactly if a span that an earlier rule claimed
\* overlaps it, for any number of rules.
THEOREM EarlierRulesWin == Spec => []EarlierRuleWins
<1>1. ExtractorInv => EarlierRuleWins
  BY DEF ExtractorInv, SpansInv
<1> QED
  BY <1>1, ExtractorCorrect, PTL

\* No two entities of a document share a natural key, so InsertTokens stores a
\* token for each.
THEOREM KeysUnique == Spec => []NaturalKeysAreUnique
<1>1. ExtractorInv => NaturalKeysAreUnique
  <2> SUFFICES ASSUME ExtractorInv, NEW i \in 1..Len(entities), NEW j \in 1..Len(entities), i < j
               PROVE  entities[i].char_offset # entities[j].char_offset
    BY DEF NaturalKeysAreUnique
  <2>1. EntitiesInv
    BY DEF ExtractorInv
  <2> QED
    BY <2>1, OffsetsGrow
<1> QED
  BY <1>1, ExtractorCorrect, PTL

\* CharOffset counts the runes before the entity, whatever mix of one- and
\* two-byte runes the text is, and Extract returns the entities in document
\* order, with pages that never decrease.
THEOREM OffsetsCorrect == Spec => []OffsetsCountRunes
<1>1. ExtractorInv => OffsetsCountRunes
  <2> SUFFICES ASSUME ExtractorInv
               PROVE  OffsetsCountRunes
    OBVIOUS
  <2>0. text \in Texts /\ SentencesInv /\ EntitiesInv
    BY DEF ExtractorInv
  <2>1. ASSUME NEW i \in 1..Len(entities)
        PROVE  /\ Byte(entities[i].at) = "x"
               /\ entities[i].at = entities[i].char_offset
                                     + Cardinality({j \in 1..entities[i].at : text[j] \in Leads})
    <3>1. EntityOK(entities[i])
      BY <2>0 DEF EntitiesInv
    <3>2. PICK a : a = entities[i].at
      OBVIOUS
    <3>3. PICK k \in 1..Len(sentences) : a < sentences[k].hi
      BY <3>1, <3>2 DEF EntityOK, EntityAt
    <3>4. a \in Nat /\ Byte(a) = "x" /\ entities[i].char_offset = RuneCount(a)
      BY <3>1, <3>2 DEF EntityOK
    <3>5. a \in 0..Len(text) - 1
      <4>1. sentences[k].hi \in Nat /\ sentences[k].hi <= Len(text) /\ Len(text) \in Nat
        BY <2>0, SentenceIs, LengthIsNat
      <4> QED
        BY <3>3, <3>4, <4>1
    <3>6. text[a + 1] # "cont"
      BY <3>4 DEF Byte
    <3>7. a = RuneCount(a) + Cardinality({j \in 1..a : text[j] \in Leads})
      BY <2>0, <3>5, <3>6, BytesAreRunes
    <3> QED
      BY <3>2, <3>4, <3>7
  <2>2. ASSUME NEW i \in 1..Len(entities), NEW j \in 1..Len(entities), i < j
        PROVE  entities[i].at < entities[j].at /\ entities[i].page <= entities[j].page
    <3>1. PICK a, b : a = entities[i].at /\ b = entities[j].at
      OBVIOUS
    <3>2. /\ a < b /\ EntityOK(entities[i]) /\ EntityOK(entities[j])
      BY <2>0, <2>2, <3>1 DEF EntitiesInv
    <3>3. PICK k \in 1..Len(sentences) : /\ sentences[k].lo <= a /\ a < sentences[k].hi
                                         /\ entities[i].page = 1 + FormFeeds(sentences[k].lo)
      BY <3>1, <3>2 DEF EntityOK, EntityAt
    <3>4. PICK l \in 1..Len(sentences) : /\ sentences[l].lo <= b /\ b < sentences[l].hi
                                         /\ entities[j].page = 1 + FormFeeds(sentences[l].lo)
      BY <3>1, <3>2 DEF EntityOK, EntityAt
    <3>5. a \in Nat /\ b \in Nat
      BY <3>1, <3>2 DEF EntityOK
    <3>6. PICK s \in Nat, t \in Nat, u \in Nat, v \in Nat :
             /\ s = sentences[k].lo /\ t = sentences[k].hi
             /\ u = sentences[l].lo /\ v = sentences[l].hi /\ s < t /\ u < v
      BY <2>0, SentenceIs
    <3>7. /\ k < l => t <= u
          /\ l < k => v <= s
      BY <2>0, <3>6 DEF SentencesInv
    <3>8. k = l => s = u
      BY <3>6
    <3>9. s <= u
      <4>1. k \in Nat /\ l \in Nat
        BY <2>0 DEF SentencesInv
      <4>2. s <= a /\ b < v
        BY <3>3, <3>4, <3>6
      <4> QED
        <5>1. CASE k < l
          BY <3>6, <3>7, <5>1
        <5>2. CASE l < k
          BY <3>2, <3>5, <3>7, <4>2, <5>2
        <5> QED
          BY <3>8, <4>1, <5>1, <5>2
    <3>10. FormFeeds(s) \in Nat /\ FormFeeds(u) \in Nat /\ FormFeeds(s) <= FormFeeds(u)
      BY <3>9, FormFeedsGrow
    <3>11. 1 + FormFeeds(s) <= 1 + FormFeeds(u)
      BY <3>10
    <3> QED
      BY <3>1, <3>2, <3>3, <3>4, <3>6, <3>11
  <2> QED
    BY <2>1, <2>2 DEF OffsetsCountRunes
<1> QED
  BY <1>1, ExtractorCorrect, PTL
============================================================================
