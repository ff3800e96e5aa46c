------------------------- MODULE ConsumeLoopProofs -------------------------
(***************************************************************************)
(* Theorems about the consumers' loop, for any number of consumers and     *)
(* entries and any times: type correctness, that two consumers hold the    *)
(* same entry only when one of them is slow, and that the loop implements  *)
(* the consumer group of Broker.                                           *)
(***************************************************************************)
EXTENDS LoopBroker, Sequences, FiniteSetTheorems, WellFoundedInduction, TLAPS

----------------------------------------------------------------------------
(* Smallest and largest entries. *)

\* A set of naturals has a smallest element.
LEMMA LeastNatural ==
    ASSUME NEW S \in SUBSET Nat, S # {}
    PROVE  \E x \in S : \A y \in S : x <= y
<1> DEFINE R == {ss \in Nat \X Nat : ss[1] < ss[2]}
<1>1. IsWellFoundedOn(R, Nat)
  BY NatLessThanWellFounded DEF OpToRel
<1>2. PICK x \in S : \A y \in S : ~(<<y, x>> \in R)
  <2> HIDE DEF R
  <2> QED
    BY <1>1, WFMin
<1>3. \A y \in S : ~(y < x)
  BY <1>2
<1> QED
  BY <1>3

\* Min of a batch is one of its entries.
LEMMA MinOf ==
    ASSUME NEW S \in SUBSET Nat, S # {}
    PROVE  Min(S) \in S
  BY LeastNatural DEF Min

\* Max of a bounded set of entries is one of them and bounds the others.
LEMMA MaxOf ==
    ASSUME NEW S \in SUBSET Nat, S # {}, NEW n \in Nat, \A x \in S : x <= n
    PROVE  Max(S) \in S /\ \A x \in S : x <= Max(S)
<1> DEFINE U == {u \in Nat : \A x \in S : x <= u}
<1>1. PICK u \in U : \A w \in U : u <= w
  <2>1. n \in U /\ U \in SUBSET Nat
    OBVIOUS
  <2> HIDE DEF U
  <2> QED
    BY <2>1, LeastNatural
<1>2. u \in S
  <2> SUFFICES ASSUME u \notin S
               PROVE  FALSE
    OBVIOUS
  <2>0. u \in Nat /\ \A x \in S : x \in Nat /\ x <= u /\ x # u
    OBVIOUS
  <2>1. \A x \in S : x <= u - 1
    BY <2>0
  <2>2. u - 1 \in Nat
    <3>1. PICK x \in S : TRUE
      OBVIOUS
    <3> QED
      BY <2>0, <3>1
  <2>3. u - 1 \in U
    BY <2>1, <2>2
  <2> QED
    BY <1>1, <2>3
<1>3. \E m \in S : \A x \in S : m >= x
  BY <1>2
<1> QED
  BY <1>3 DEF Max

\* No more than n entries are the first n.
LEMMA FirstOfIsShort ==
    ASSUME NEW n \in Nat \ {0}, NEW S \in SUBSET Nat, IsFiniteSet(S)
    PROVE  /\ FirstOf(n, S) \subseteq S
           /\ IsFiniteSet(FirstOf(n, S))
           /\ Cardinality(FirstOf(n, S)) <= n
<1> DEFINE Before(e) == {f \in S : f < e}
           Places == 0..(n - 1)
           place == [e \in FirstOf(n, S) |-> Cardinality(Before(e))]
<1>2. FirstOf(n, S) \subseteq S
  BY DEF FirstOf
<1>3. ASSUME NEW e \in S
      PROVE  IsFiniteSet(Before(e)) /\ Cardinality(Before(e)) \in Nat
  <2>1. Before(e) \in SUBSET S
    OBVIOUS
  <2> QED
    BY <2>1, FS_Subset, FS_CardinalityType
<1>4. ASSUME NEW e \in S, NEW f \in S, e < f
      PROVE  Cardinality(Before(e)) # Cardinality(Before(f))
  <2>0. \A g \in S : g \in Nat /\ (g < e => g < f)
    BY <1>4
  <2>1. Before(e) \in SUBSET Before(f)
    BY <2>0
  <2>3. e \in Before(f)
    BY <1>4
  <2>4. e \notin Before(e)
    BY <2>0
  <2>2. Before(e) # Before(f)
    BY <2>3, <2>4
  <2> HIDE DEF Before
  <2> QED
    BY <1>3, <2>1, <2>2, FS_Subset
<1>5. place \in [FirstOf(n, S) -> Places]
  <2> SUFFICES ASSUME NEW e \in FirstOf(n, S)
               PROVE  Cardinality(Before(e)) \in Places
    OBVIOUS
  <2>1. Cardinality(Before(e)) < n
    BY DEF FirstOf
  <2>2. Cardinality(Before(e)) \in Nat
    BY <1>2, <1>3
  <2> QED
    BY <2>1, <2>2
<1>6. \A e, f \in FirstOf(n, S) : place[e] = place[f] => e = f
  <2> SUFFICES ASSUME NEW e \in FirstOf(n, S), NEW f \in FirstOf(n, S), e # f
               PROVE  Cardinality(Before(e)) # Cardinality(Before(f))
    OBVIOUS
  <2>1. e \in S /\ f \in S /\ e \in Nat /\ f \in Nat
    BY <1>2
  <2>2. e < f \/ f < e
    BY <2>1
  <2> QED
    BY <1>4, <2>1, <2>2
<1>7. place \in Injection(FirstOf(n, S), Places)
  <2> HIDE DEF place, Places
  <2> QED
    BY <1>5, <1>6 DEF Injection, IsInjective
<1>8. IsFiniteSet(Places) /\ Cardinality(Places) = n
  BY FS_Interval
<1> HIDE DEF place, Places
<1> QED
  BY <1>2, <1>7, <1>8, FS_Injection

\* The entries of a read or a reclaim: some of those asked for, at most ReadCount.
LEMMA BatchOK ==
    ASSUME NEW S \in SUBSET Entry
    PROVE  /\ FirstOf(ReadCount, S) \subseteq S
           /\ IsFiniteSet(FirstOf(ReadCount, S))
           /\ Cardinality(FirstOf(ReadCount, S)) \in 0..ReadCount
<1>1. MaxEntries \in Nat /\ ReadCount \in Nat \ {0}
  BY LoopAssumption
<1>2. IsFiniteSet(Entry) /\ Entry \subseteq Nat
  BY <1>1, FS_Interval DEF Entry
<1>3. IsFiniteSet(S) /\ S \in SUBSET Nat
  BY <1>2, FS_Subset
<1>4. FirstOf(ReadCount, S) \subseteq S /\ IsFiniteSet(FirstOf(ReadCount, S)) /\ Cardinality(FirstOf(ReadCount, S)) <= ReadCount
  BY <1>1, <1>3, FirstOfIsShort
<1> QED
  BY <1>1, <1>4, FS_CardinalityType

----------------------------------------------------------------------------
(* Type correctness. *)

LEMMA ConstantTypes ==
    /\ HandleTime \in Nat \ {0} /\ MinIdle \in Nat \ {0}
    /\ BlockTime \in Nat \ {0} /\ ReadCount \in Nat \ {0}
    /\ MaxEntries \in Nat /\ MaxFaults \in Nat /\ MaxCrashes \in Nat /\ MaxLosses \in Nat
  BY LoopAssumption

\* A consumer that moves elsewhere in its loop.
LEMMA MoveType ==
    ASSUME TypeOK, NEW c \in Members, NEW loop \in Loop, Move(c, loop),
           loop.at = "handle" <=> loop.batch # {}
    PROVE  /\ consumer' \in [Members -> Loop]
           /\ \A d \in Members : consumer'[d].at = "handle" <=> consumer'[d].batch # {}
           /\ consumer'[c] = loop
           /\ \A d \in Members \ {c} : consumer'[d] = consumer[d]
  BY DEF TypeOK, Move

LEMMA PlaceType ==
    ASSUME NEW at \in {"start", "reclaim", "read", "blocked", "paused"}, NEW ticks \in Nat
    PROVE  At(at, ticks) \in Loop /\ (At(at, ticks).at = "handle" <=> At(at, ticks).batch # {})
  BY ConstantTypes DEF At, Loop

LEMMA HandlingType ==
    ASSUME NEW batch \in SUBSET Entry, batch # {}, NEW age \in 0..MinIdle
    PROVE  Handling(batch, age) \in Loop
             /\ (Handling(batch, age).at = "handle" <=> Handling(batch, age).batch # {})
  BY ConstantTypes DEF Handling, Loop

\* What the group knows after a delivery.
LEMMA DeliveredType ==
    ASSUME TypeOK, NEW batch, idle' = Delivered(batch)
    PROVE  /\ DOMAIN idle' = DOMAIN idle \cup batch
           /\ \A e \in DOMAIN idle' : idle'[e] = IF e \in batch THEN 0 ELSE idle[e]
           /\ \A e \in DOMAIN idle' : idle'[e] \in 0..MinIdle
<1>1. DOMAIN idle' = DOMAIN idle \cup batch
        /\ \A e \in DOMAIN idle' : idle'[e] = IF e \in batch THEN 0 ELSE idle[e]
  BY DEF Delivered
<1> QED
  BY <1>1, ConstantTypes DEF TypeOK

\* The entries that a read or a reclaim chooses from.
LEMMA SourcesType ==
    ASSUME TypeOK
    PROVE  /\ Claimable \in SUBSET Entry /\ Claimable \subseteq DOMAIN idle
           /\ New \in SUBSET Entry
           /\ \A e \in New : e \in Nat /\ lastDelivered < e /\ e <= published
           /\ lastDelivered \in Nat /\ published \in Nat /\ published <= MaxEntries
  BY ConstantTypes DEF TypeOK, Claimable, FirstOf, New, Entry

\* Time passes, up to MinIdle.
LEMMA LaterType ==
    ASSUME NEW ticks \in 0..MinIdle
    PROVE  /\ Later(ticks) \in 0..MinIdle
           /\ \A less \in 0..MinIdle : less <= ticks => Later(less) <= Later(ticks)
           /\ ticks = MinIdle => Later(ticks) = MinIdle
  BY ConstantTypes DEF Later

\* Everything in the loop keeps the types.
LEMMA TypeStep == TypeOK /\ [Next]_vars => TypeOK'
<1> SUFFICES ASSUME TypeOK, [Next]_vars
             PROVE  TypeOK'
  OBVIOUS
<1> USE ConstantTypes
<1>1. CASE Publish
  BY <1>1 DEF Publish, TypeOK
<1>2. ASSUME NEW c \in Members, NEW at \in {"start", "reclaim", "read", "blocked", "paused"},
             NEW ticks \in Nat, Move(c, At(at, ticks)), group' \in BOOLEAN,
             crashes' \in 0..MaxCrashes,
             UNCHANGED <<published, gone, lastDelivered, idle, handled, faults, losses>>
      PROVE  TypeOK'
  <2>1. /\ consumer' \in [Members -> Loop]
        /\ \A d \in Members : consumer'[d].at = "handle" <=> consumer'[d].batch # {}
    BY <1>2, PlaceType, MoveType
  <2> QED
    BY <1>2, <2>1 DEF TypeOK
<1>3. ASSUME NEW c \in Members, Reclaim(c)
      PROVE  TypeOK'
  <2> DEFINE batch == FirstOf(ReadCount, Claimable)
  <2>1. batch \in SUBSET Entry /\ batch \subseteq DOMAIN idle /\ batch # {}
    BY <1>3, SourcesType, BatchOK DEF Reclaim
  <2>2. idle' = Delivered(batch) /\ Move(c, Handling(batch, 0))
          /\ UNCHANGED <<published, gone, lastDelivered, group, handled, faults, crashes, losses>>
    BY <1>3 DEF Reclaim
  <2> HIDE DEF batch
  <2>3. /\ consumer' \in [Members -> Loop]
        /\ \A d \in Members : consumer'[d].at = "handle" <=> consumer'[d].batch # {}
    <3>1. Handling(batch, 0) \in Loop
            /\ (Handling(batch, 0).at = "handle" <=> Handling(batch, 0).batch # {})
      BY <2>1, HandlingType, 0 \in 0..MinIdle
    <3> QED
      BY <2>2, <3>1, MoveType
  <2>4. DOMAIN idle' = DOMAIN idle /\ \A e \in DOMAIN idle' : idle'[e] \in 0..MinIdle
    BY <2>1, <2>2, DeliveredType
  <2> QED
    BY <2>2, <2>3, <2>4 DEF TypeOK
<1>4. ASSUME NEW c \in Members, ReadNew(c)
      PROVE  TypeOK'
  <2> DEFINE batch == FirstOf(ReadCount, New)
  <2>1. batch \in SUBSET Entry /\ batch \subseteq New /\ batch # {}
    BY <1>4, SourcesType, BatchOK DEF ReadNew
  <2>2. /\ idle' = Delivered(batch) /\ Move(c, Handling(batch, 0)) /\ lastDelivered' = Max(batch)
        /\ UNCHANGED <<published, gone, group, handled, faults, crashes, losses>>
    BY <1>4 DEF ReadNew
  <2> HIDE DEF batch
  <2>3. /\ consumer' \in [Members -> Loop]
        /\ \A d \in Members : consumer'[d].at = "handle" <=> consumer'[d].batch # {}
    <3>1. Handling(batch, 0) \in Loop
            /\ (Handling(batch, 0).at = "handle" <=> Handling(batch, 0).batch # {})
      BY <2>1, HandlingType, 0 \in 0..MinIdle
    <3> QED
      BY <2>2, <3>1, MoveType
  <2>4. /\ batch \in SUBSET Nat /\ \A e \in batch : lastDelivered < e /\ e <= published
        /\ lastDelivered \in Nat /\ published \in Nat
    BY <2>1, SourcesType
  <2>5. Max(batch) \in batch /\ \A e \in batch : e <= Max(batch)
    BY <2>1, <2>4, MaxOf
  <2>6. lastDelivered' \in 0..published' /\ lastDelivered < lastDelivered'
    <3>1. lastDelivered' \in Nat /\ lastDelivered < lastDelivered' /\ lastDelivered' <= published
      BY <2>2, <2>4, <2>5
    <3> QED
      BY <2>2, <2>4, <3>1
  <2>7. DOMAIN idle' = DOMAIN idle \cup batch /\ \A e \in DOMAIN idle' : idle'[e] \in 0..MinIdle
    BY <2>2, DeliveredType
  <2>8. batch \subseteq 1..lastDelivered'
    BY <2>2, <2>4, <2>5
  <2>9. DOMAIN idle \subseteq 1..lastDelivered'
    BY <2>4, <2>6 DEF TypeOK
  <2> QED
    BY <2>2, <2>3, <2>6, <2>7, <2>8, <2>9 DEF TypeOK
<1>5. ASSUME NEW c \in Members, HandlerReturns(c)
      PROVE  TypeOK'
  <2> DEFINE e == Min(consumer[c].batch)
             rest == consumer[c].batch \ {e}
  <2>0. PICK o \in Outcomes(e) : HandleOne(c, o)
    BY <1>5 DEF HandlerReturns
  <2>1. consumer[c] \in Loop /\ consumer[c].batch # {}
    BY <1>5 DEF TypeOK, HandlerReturns
  <2>2. consumer[c].batch \in SUBSET Entry
    BY <2>1 DEF Loop
  <2>3. e \in Entry
    <3>1. consumer[c].batch \in SUBSET Nat
      BY <2>2 DEF Entry
    <3> QED
      BY <2>1, <2>2, <3>1, MinOf
  <2>4. /\ idle' = [f \in (IF o.acked THEN DOMAIN idle \ {e} ELSE DOMAIN idle) |-> idle[f]]
        /\ handled' = IF o.ok THEN handled \cup {e} ELSE handled
        /\ Move(c, IF rest = {} THEN At("reclaim", 0) ELSE Handling(rest, consumer[c].age))
        /\ UNCHANGED <<published, gone, lastDelivered, group, crashes, losses>>
    BY <2>0 DEF HandleOne
  <2>5. rest \in SUBSET Entry /\ consumer[c].age \in 0..MinIdle
    BY <2>1, <2>2 DEF Loop
  <2>8. faults' \in 0..MaxFaults
    <3>1. faults' \in {faults, faults + 1} /\ faults' <= MaxFaults
      BY <2>0 DEF HandleOne
    <3> QED
      BY <3>1 DEF TypeOK
  <2> HIDE DEF e, rest
  <2>6. /\ consumer' \in [Members -> Loop]
        /\ \A d \in Members : consumer'[d].at = "handle" <=> consumer'[d].batch # {}
    <3>1. CASE rest = {}
      BY <2>4, <3>1, PlaceType, MoveType
    <3>2. CASE rest # {}
      BY <2>4, <2>5, <3>2, HandlingType, MoveType
    <3> QED
      BY <3>1, <3>2
  <2>7. DOMAIN idle' \subseteq DOMAIN idle /\ \A f \in DOMAIN idle' : idle'[f] = idle[f]
    BY <2>4
  <2> QED
    BY <2>3, <2>4, <2>6, <2>7, <2>8 DEF TypeOK
<1>6. CASE Loss
  <2>1. gone' \subseteq Entry
    BY <1>6 DEF Loss, TypeOK, Entry
  <2>2. DOMAIN idle' = {}
    BY <1>6 DEF Loss
  <2>3. /\ published' \in 0..MaxEntries /\ lastDelivered' \in 0..published'
        /\ losses' \in 0..MaxLosses /\ crashes' \in 0..MaxCrashes /\ faults' \in 0..MaxFaults
    BY <1>6 DEF Loss, TypeOK
  <2>4. group' \in BOOLEAN /\ handled' \subseteq Entry /\ consumer' = consumer
    BY <1>6 DEF Loss, TypeOK
  <2> QED
    BY <2>1, <2>2, <2>3, <2>4 DEF TypeOK
<1>7. CASE Tick
  <2>1. ASSUME NEW c \in Members
        PROVE  /\ consumer'[c] \in Loop
               /\ consumer'[c].at = consumer[c].at /\ consumer'[c].batch = consumer[c].batch
    <3>1. consumer[c] \in Loop
      BY DEF TypeOK
    <3>2. consumer[c].left \in Nat /\ consumer[c].left > 0
      BY <1>7, <3>1 DEF Tick, Waiting, Loop
    <3>3. consumer[c].left - 1 \in Nat
      BY <3>2
    <3>4. consumer'[c] = [consumer[c] EXCEPT !.left = consumer[c].left - 1,
                                             !.age = IF consumer[c].at = "handle"
                                                     THEN Later(consumer[c].age) ELSE consumer[c].age]
      BY <1>7 DEF Tick
    <3>5. consumer[c].age \in 0..MinIdle /\ Later(consumer[c].age) \in 0..MinIdle
      BY <3>1, LaterType DEF Loop
    <3> QED
      BY <3>1, <3>3, <3>4, <3>5 DEF Loop
  <2>2. consumer' \in [Members -> Loop]
    BY <1>7, <2>1 DEF Tick
  <2>3. DOMAIN idle' = DOMAIN idle /\ \A e \in DOMAIN idle' : idle'[e] \in 0..MinIdle
    BY <1>7, LaterType DEF Tick, TypeOK
  <2> QED
    BY <1>7, <2>1, <2>2, <2>3 DEF Tick, TypeOK
<1>8. CASE UNCHANGED vars
  BY <1>8 DEF vars, TypeOK
<1>9. ASSUME NEW c \in Members,
             EnsureGroup(c) \/ NothingReclaimed(c) \/ ReadNothing(c) \/ ReadFails(c)
               \/ BlockEnds(c) \/ Crash(c)
      PROVE  TypeOK'
  <2>1. group \in BOOLEAN /\ crashes \in 0..MaxCrashes
    BY DEF TypeOK
  <2>2. CASE EnsureGroup(c)
    BY <1>2, <2>1, <2>2 DEF EnsureGroup
  <2>3. CASE NothingReclaimed(c)
    BY <1>2, <2>1, <2>3 DEF NothingReclaimed
  <2>4. CASE ReadNothing(c)
    BY <1>2, <2>1, <2>4 DEF ReadNothing
  <2>5. CASE ReadFails(c)
    BY <1>2, <2>1, <2>5 DEF ReadFails
  <2>6. CASE BlockEnds(c)
    BY <1>2, <2>1, <2>6 DEF BlockEnds
  <2>7. CASE Crash(c)
    <3>1. crashes' \in 0..MaxCrashes
      BY <2>1, <2>7 DEF Crash
    <3> QED
      BY <1>2, <2>1, <2>7, <3>1 DEF Crash
  <2> QED
    BY <1>9, <2>2, <2>3, <2>4, <2>5, <2>6, <2>7
<1> QED
  BY <1>1, <1>3, <1>4, <1>5, <1>6, <1>7, <1>8, <1>9 DEF Next, Step

----------------------------------------------------------------------------
(* Who holds an entry. *)

\* What a consumer holds was delivered, and has been idle for no longer than the
\* consumer has had its batch: a delivery to another one only sets the idle time
\* back.  (After a loss of data, an entry that is held need not be pending.)
InTime(c) ==
    /\ consumer[c].batch \subseteq 1..lastDelivered
    /\ \A e \in consumer[c].batch \cap DOMAIN idle : idle[e] <= consumer[c].age

LoopInv == TypeOK /\ DisjointBatches /\ \A c \in Members : InTime(c)

\* An entry in somebody's hands is not new, and can be claimed only when its holder
\* has had it for MinIdle.
LEMMA HeldIsSafe ==
    ASSUME LoopInv, NEW c \in Members, NEW e \in consumer[c].batch
    PROVE  (e \in Claimable => consumer[c].age = MinIdle) /\ e \notin New
<1> USE ConstantTypes
<1>1. consumer[c] \in Loop /\ InTime(c)
  BY DEF LoopInv, TypeOK
<1>2. e \notin New
  BY <1>1 DEF InTime, New, LoopInv, TypeOK
<1>3. ASSUME e \in Claimable
      PROVE  consumer[c].age = MinIdle
  <2>1. e \in DOMAIN idle /\ idle[e] >= MinIdle /\ idle[e] \in Nat
    BY <1>3 DEF Claimable, FirstOf, LoopInv, TypeOK
  <2>2. idle[e] <= consumer[c].age /\ consumer[c].age \in 0..MinIdle
    BY <1>1, <2>1 DEF InTime, Loop
  <2> QED
    BY <2>1, <2>2
<1> QED
  BY <1>2, <1>3

\* Deliveries only advance, and idle times fall away, stay or are set back.
OnlyRecent ==
    /\ lastDelivered <= lastDelivered'
    /\ \A e \in DOMAIN idle' : idle'[e] = 0 \/ (e \in DOMAIN idle /\ idle'[e] = idle[e])

\* A consumer that does not move stays within its time.
LEMMA OthersStayInTime ==
    ASSUME LoopInv, TypeOK', NEW d \in Members, consumer'[d] = consumer[d], OnlyRecent
    PROVE  InTime(d)'
<1>1. consumer[d].batch \subseteq 1..lastDelivered'
  BY DEF LoopInv, InTime, OnlyRecent, TypeOK
<1>2. consumer[d].age \in Nat
  BY ConstantTypes DEF LoopInv, TypeOK, Loop
<1>3. ASSUME NEW e \in consumer[d].batch \cap DOMAIN idle'
      PROVE  idle'[e] <= consumer[d].age
  BY <1>2 DEF LoopInv, InTime, OnlyRecent
<1> QED
  BY <1>1, <1>3 DEF InTime

\* A consumer that moves to a place where it is within its time, and where whoever
\* else holds an entry of its batch is slow.
LEMMA MoveKeeps ==
    ASSUME LoopInv, TypeOK', OnlyRecent, NEW c \in Members, NEW loop \in Loop, Move(c, loop),
           loop.at = "handle" <=> loop.batch # {},
           loop.batch \subseteq 1..lastDelivered',
           \A e \in loop.batch \cap DOMAIN idle' : idle'[e] <= loop.age,
           \A d \in Members \ {c} :
              consumer[d].batch \cap loop.batch # {} => MinIdle \in {consumer[d].age, loop.age}
    PROVE  LoopInv'
<1>1. consumer'[c] = loop /\ \A d \in Members \ {c} : consumer'[d] = consumer[d]
  BY MoveType DEF LoopInv
<1>2. DisjointBatches'
  BY <1>1 DEF LoopInv, DisjointBatches
<1>3. InTime(c)'
  BY <1>1 DEF InTime
<1>4. \A d \in Members \ {c} : InTime(d)'
  BY <1>1, OthersStayInTime
<1> QED
  BY <1>2, <1>3, <1>4 DEF LoopInv

\* A consumer that fetches a batch that only slow ones hold.
LEMMA FetchKeeps ==
    ASSUME LoopInv, TypeOK', NEW c \in Members, NEW batch \in SUBSET Entry, batch # {},
           batch \subseteq 1..lastDelivered', lastDelivered <= lastDelivered',
           idle' = Delivered(batch), Move(c, Handling(batch, 0)),
           \A d \in Members \ {c} : consumer[d].batch \cap batch # {} => consumer[d].age = MinIdle
    PROVE  LoopInv'
<1>1. PICK loop : loop = Handling(batch, 0)
  OBVIOUS
<1>2. /\ loop \in Loop /\ (loop.at = "handle" <=> loop.batch # {})
      /\ loop.batch = batch /\ loop.age = 0
  BY <1>1, HandlingType, ConstantTypes DEF Handling
<1>3. /\ DOMAIN idle' = DOMAIN idle \cup batch
      /\ \A e \in DOMAIN idle' : idle'[e] = IF e \in batch THEN 0 ELSE idle[e]
  BY DeliveredType DEF LoopInv
<1>4. OnlyRecent
  BY <1>3 DEF OnlyRecent
<1>5. \A e \in loop.batch \cap DOMAIN idle' : idle'[e] <= loop.age
  BY <1>2, <1>3
<1> QED
  BY <1>1, <1>2, <1>4, <1>5, MoveKeeps

\* A consumer that lets go of what it held, if anything.
LEMMA LetGoKeeps ==
    ASSUME LoopInv, TypeOK', OnlyRecent, NEW c \in Members,
           NEW at \in {"start", "reclaim", "read", "blocked", "paused"},
           NEW ticks \in Nat, Move(c, At(at, ticks))
    PROVE  LoopInv'
<1>1. At(at, ticks).batch = {}
  BY DEF At
<1> QED
  BY <1>1, PlaceType, MoveKeeps

\* The next entry of a batch: the batch keeps its age.
LEMMA NextOfBatchKeeps ==
    ASSUME LoopInv, TypeOK', NEW c \in Members, NEW e \in consumer[c].batch,
           consumer[c].batch \ {e} # {},
           Move(c, Handling(consumer[c].batch \ {e}, consumer[c].age)),
           lastDelivered' = lastDelivered,
           \A f \in DOMAIN idle' : f \in DOMAIN idle /\ idle'[f] = idle[f]
    PROVE  LoopInv'
<1>1. PICK rest, loop : rest = consumer[c].batch \ {e} /\ loop = Handling(rest, consumer[c].age)
  OBVIOUS
<1>2. rest \in SUBSET Entry /\ rest # {} /\ consumer[c].age \in 0..MinIdle
  BY <1>1 DEF LoopInv, TypeOK, Loop
<1>3. /\ loop \in Loop /\ (loop.at = "handle" <=> loop.batch # {})
      /\ loop.batch = rest /\ loop.age = consumer[c].age
  BY <1>1, <1>2, HandlingType DEF Handling
<1>4. OnlyRecent
  BY DEF OnlyRecent, LoopInv, TypeOK
<1>5. /\ rest \subseteq 1..lastDelivered'
      /\ \A f \in rest \cap DOMAIN idle' : idle'[f] <= consumer[c].age
  BY <1>1 DEF LoopInv, InTime
<1>6. \A d \in Members \ {c} :
         consumer[d].batch \cap rest # {} => MinIdle \in {consumer[d].age, consumer[c].age}
  BY <1>1 DEF LoopInv, DisjointBatches
<1> QED
  BY <1>1, <1>3, <1>4, <1>5, <1>6, MoveKeeps

\* A tick: entries grow idle and batches grow old together.
LEMMA TickKeeps ==
    ASSUME LoopInv, TypeOK', Tick
    PROVE  LoopInv'
<1>1. ASSUME NEW c \in Members
      PROVE  /\ consumer[c].age \in 0..MinIdle /\ consumer'[c].batch = consumer[c].batch
             /\ consumer[c].batch # {} => consumer'[c].age = Later(consumer[c].age)
  <2>1. consumer[c] \in Loop /\ (consumer[c].at = "handle" <=> consumer[c].batch # {})
    BY DEF LoopInv, TypeOK
  <2>2. consumer'[c] = [consumer[c] EXCEPT !.left = consumer[c].left - 1,
                                           !.age = IF consumer[c].at = "handle"
                                                   THEN Later(consumer[c].age) ELSE consumer[c].age]
    BY DEF Tick
  <2> QED
    BY <2>1, <2>2 DEF Loop
<1>2. /\ DOMAIN idle' = DOMAIN idle /\ lastDelivered' = lastDelivered
      /\ \A e \in DOMAIN idle : idle[e] \in 0..MinIdle /\ idle'[e] = Later(idle[e])
  BY DEF Tick, LoopInv, TypeOK
<1>3. DisjointBatches'
  <2> SUFFICES ASSUME NEW c \in Members, NEW d \in Members, c # d,
                      consumer'[c].batch \cap consumer'[d].batch # {}
               PROVE  MinIdle \in {consumer'[c].age, consumer'[d].age}
    BY DEF DisjointBatches
  <2>1. consumer[c].batch \cap consumer[d].batch # {}
    BY <1>1
  <2>2. MinIdle \in {consumer[c].age, consumer[d].age}
    BY <2>1 DEF LoopInv, DisjointBatches
  <2> QED
    BY <1>1, <2>1, <2>2, LaterType
<1>4. ASSUME NEW c \in Members
      PROVE  InTime(c)'
  <2>1. consumer'[c].batch \subseteq 1..lastDelivered'
    BY <1>1, <1>2 DEF LoopInv, InTime
  <2>2. ASSUME NEW e \in consumer'[c].batch \cap DOMAIN idle'
        PROVE  idle'[e] <= consumer'[c].age
    <3>1. e \in consumer[c].batch \cap DOMAIN idle /\ idle[e] <= consumer[c].age
      BY <1>1, <1>2 DEF LoopInv, InTime
    <3>2. idle'[e] = Later(idle[e]) /\ consumer'[c].age = Later(consumer[c].age)
      BY <1>1, <1>2, <3>1
    <3> QED
      BY <1>1, <1>2, <3>1, <3>2, LaterType
  <2> QED
    BY <2>1, <2>2 DEF InTime
<1> QED
  BY <1>3, <1>4 DEF LoopInv

\* The invariant is inductive.
LEMMA LoopStep == LoopInv /\ [Next]_vars => LoopInv'
<1> SUFFICES ASSUME LoopInv, [Next]_vars
             PROVE  LoopInv'
  OBVIOUS
<1>1. TypeOK /\ TypeOK'
  BY TypeStep DEF LoopInv
<1>2. lastDelivered \in Nat /\ published \in Nat /\ lastDelivered <= published
  BY <1>1, ConstantTypes DEF TypeOK
<1>4. CASE Publish \/ Loss \/ UNCHANGED vars
  <2>1. consumer' = consumer /\ OnlyRecent
    BY <1>2, <1>4 DEF Publish, Loss, vars, OnlyRecent
  <2>2. \A d \in Members : InTime(d)'
    BY <1>1, <2>1, OthersStayInTime
  <2> QED
    BY <1>1, <2>1, <2>2 DEF LoopInv, DisjointBatches
<1>5. CASE Tick
  BY <1>1, <1>5, TickKeeps
<1>6. ASSUME NEW c \in Members, Reclaim(c)
      PROVE  LoopInv'
  <2> DEFINE batch == FirstOf(ReadCount, Claimable)
  <2>1. batch \in SUBSET Entry /\ batch # {} /\ batch \subseteq Claimable
    BY <1>1, <1>6, SourcesType, BatchOK DEF Reclaim
  <2>2. idle' = Delivered(batch) /\ Move(c, Handling(batch, 0)) /\ lastDelivered' = lastDelivered
    BY <1>6 DEF Reclaim
  <2> HIDE DEF batch
  <2>3. batch \subseteq 1..lastDelivered'
    BY <1>1, <2>1, <2>2, SourcesType DEF TypeOK
  <2>4. \A d \in Members \ {c} : consumer[d].batch \cap batch # {} => consumer[d].age = MinIdle
    BY <2>1, HeldIsSafe
  <2> QED
    BY <1>1, <1>2, <2>1, <2>2, <2>3, <2>4, FetchKeeps
<1>7. ASSUME NEW c \in Members, ReadNew(c)
      PROVE  LoopInv'
  <2> DEFINE batch == FirstOf(ReadCount, New)
  <2>1. batch \in SUBSET Entry /\ batch # {} /\ batch \subseteq New
    BY <1>1, <1>7, SourcesType, BatchOK DEF ReadNew
  <2>2. idle' = Delivered(batch) /\ Move(c, Handling(batch, 0)) /\ lastDelivered' = Max(batch)
    BY <1>7 DEF ReadNew
  <2> HIDE DEF batch
  <2>3. batch \in SUBSET Nat /\ \A e \in batch : lastDelivered < e /\ e <= published
    BY <1>1, <2>1, SourcesType
  <2>4. Max(batch) \in batch /\ \A e \in batch : e <= Max(batch)
    BY <1>2, <2>1, <2>3, MaxOf
  <2>5. batch \subseteq 1..lastDelivered' /\ lastDelivered <= lastDelivered'
    <3>1. lastDelivered' \in Nat /\ lastDelivered < lastDelivered'
            /\ \A e \in batch : e <= lastDelivered'
      BY <1>2, <2>2, <2>3, <2>4
    <3>2. \A e \in batch : e \in Nat /\ e >= 1
      BY <1>2, <2>3
    <3> QED
      BY <1>2, <3>1, <3>2
  <2>6. \A d \in Members \ {c} : consumer[d].batch \cap batch = {}
    BY <2>1, HeldIsSafe
  <2> QED
    BY <1>1, <2>1, <2>2, <2>5, <2>6, FetchKeeps
<1>8. ASSUME NEW c \in Members, HandlerReturns(c)
      PROVE  LoopInv'
  <2>1. PICK e, rest, o : /\ e = Min(consumer[c].batch) /\ rest = consumer[c].batch \ {e}
                          /\ HandleOne(c, o)
    BY <1>8 DEF HandlerReturns
  <2>2. /\ Move(c, IF rest = {} THEN At("reclaim", 0) ELSE Handling(rest, consumer[c].age))
        /\ lastDelivered' = lastDelivered
        /\ \A f \in DOMAIN idle' : f \in DOMAIN idle /\ idle'[f] = idle[f]
    BY <2>1 DEF HandleOne
  <2>3. e \in consumer[c].batch
    <3>1. consumer[c].batch # {} /\ consumer[c].batch \in SUBSET Nat
      BY <1>1, <1>8 DEF HandlerReturns, TypeOK, Loop, Entry
    <3> QED
      BY <2>1, <3>1, MinOf
  <2>4. OnlyRecent
    BY <1>2, <2>2 DEF OnlyRecent
  <2>5. CASE rest = {}
    BY <1>1, <2>2, <2>4, <2>5, LetGoKeeps
  <2>6. CASE rest # {}
    BY <1>1, <2>1, <2>2, <2>3, <2>6, NextOfBatchKeeps
  <2> QED
    BY <2>5, <2>6
<1>9. ASSUME NEW c \in Members,
             EnsureGroup(c) \/ NothingReclaimed(c) \/ ReadNothing(c) \/ ReadFails(c)
               \/ BlockEnds(c) \/ Crash(c)
      PROVE  LoopInv'
  <2>1. PICK at \in {"start", "reclaim", "read", "blocked", "paused"}, ticks \in Nat :
            Move(c, At(at, ticks))
    BY <1>9, ConstantTypes
       DEF EnsureGroup, NothingReclaimed, ReadNothing, ReadFails, BlockEnds, Crash
  <2>2. UNCHANGED <<lastDelivered, idle>>
    BY <1>9 DEF EnsureGroup, NothingReclaimed, ReadNothing, ReadFails, BlockEnds, Crash
  <2>3. OnlyRecent
    BY <1>2, <2>2 DEF OnlyRecent
  <2> QED
    BY <1>1, <2>1, <2>3, LetGoKeeps
<1> QED
  BY <1>4, <1>5, <1>6, <1>7, <1>8, <1>9 DEF Next, Step

----------------------------------------------------------------------------
(* The theorems. *)

LEMMA LoopInit == Init => LoopInv
<1> SUFFICES ASSUME Init
             PROVE  LoopInv
  OBVIOUS
<1>1. \A c \in Members : consumer[c] = At("start", 0)
  BY DEF Init
<1>2. TypeOK
  <2>1. consumer \in [Members -> Loop]
          /\ \A c \in Members : consumer[c].at = "handle" <=> consumer[c].batch # {}
    BY PlaceType DEF Init
  <2>2. published = 0 /\ lastDelivered = 0 /\ faults = 0 /\ crashes = 0 /\ losses = 0
    BY DEF Init
  <2>3. /\ published \in 0..MaxEntries /\ lastDelivered \in 0..published
        /\ faults \in 0..MaxFaults /\ crashes \in 0..MaxCrashes /\ losses \in 0..MaxLosses
    BY <2>2, ConstantTypes
  <2>4. gone = {} /\ handled = {} /\ group \in BOOLEAN /\ DOMAIN idle = {}
    BY DEF Init
  <2> QED
    BY <2>1, <2>3, <2>4 DEF TypeOK
<1> QED
  BY <1>1, <1>2 DEF LoopInv, DisjointBatches, InTime, At

\* Type correctness, for any number of consumers and any configured times: what is
\* pending was delivered, what was delivered was published, and a consumer has a
\* batch exactly while it handles one.
THEOREM LoopTypeCorrect == Spec => []TypeOK
<1>1. Init => TypeOK
  BY LoopInit DEF LoopInv
<1> QED
  BY <1>1, TypeStep, PTL DEF Spec

\* No entry is in the hands of two consumers unless one of them has had its batch for
\* CLAIM_MIN_IDLE or longer, whatever crashes, losses, slow and failing handlers and
\* failing XACKs do to the group in between.
THEOREM BatchesAreDisjoint == Spec => []DisjointBatches
<1>1. LoopInv => DisjointBatches
  BY DEF LoopInv
<1> QED
  BY <1>1, LoopInit, LoopStep, PTL DEF Spec

----------------------------------------------------------------------------
(* The loop implements ConsumerGroup. *)

Mapped == <<Log, LastDelivered, Pel, GroupExists, Inbox>>

\* What the loop's stream has, as ConsumerGroup sees it.
LEMMA StreamIs ==
    /\ Group!Streams = {"extract", "classify"} /\ Group!StreamExtract = "extract"
    /\ Group!Consumers = Members
    /\ \A c \in Members : Group!StreamOf(c) = "extract"
    /\ Log["extract"] = [e \in 1..published |-> JobOf(e)]
    /\ LastDelivered["extract"] = lastDelivered
    /\ Pel["extract"] = DOMAIN idle
    /\ GroupExists["extract"] = group
    /\ \A c \in Members : Inbox[c] = consumer[c].batch
  BY DEF Group!Streams, Group!StreamExtract, Group!StreamClassify, Group!Consumers,
         Group!StreamOf, Log, LastDelivered, Pel, GroupExists, Inbox, OfStream

LEMMA LogLength ==
    ASSUME published \in Nat
    PROVE  Len(Log["extract"]) = published /\ Len(Log["classify"]) = 0
<1>1. Log["extract"] = [e \in 1..published |-> JobOf(e)] /\ Log["classify"] = <<>>
  BY DEF Log, OfStream
<1> QED
  BY <1>1

\* A change of one stream.
LEMMA StreamChanges ==
    ASSUME NEW x, NEW y, NEW none
    PROVE  OfStream(y, none) = [OfStream(x, none) EXCEPT !["extract"] = y]
  BY DEF OfStream

\* A consumer that moves elsewhere in its loop, with another batch or without.
LEMMA InboxMoves ==
    ASSUME TypeOK, NEW c \in Members, NEW loop, Move(c, loop)
    PROVE  Inbox' = [Inbox EXCEPT ![c] = loop.batch]
<1>1. consumer' = [consumer EXCEPT ![c] = loop] /\ DOMAIN consumer = Members
  BY DEF TypeOK, Move
<1>2. \A d \in Members : consumer'[d].batch = IF d = c THEN loop.batch ELSE consumer[d].batch
  BY <1>1
<1> QED
  BY <1>2 DEF Inbox

\* The steps of the loop that the group does not notice.
LEMMA BatchUnchanged ==
    ASSUME TypeOK, NEW c \in Members, NEW loop, Move(c, loop), loop.batch = consumer[c].batch,
           UNCHANGED <<published, lastDelivered, idle, group>>
    PROVE  Mapped' = Mapped
<1>1. Inbox' = Inbox
  BY InboxMoves DEF Inbox
<1> QED
  BY <1>1 DEF Mapped, Log, LastDelivered, Pel, GroupExists, OfStream

\* The entries that XREADGROUP delivers are the next ones.
LEMMA ReadIsNext ==
    ASSUME NEW a \in Nat, NEW b \in Nat, a < b,
           NEW last, last = IF a + ReadCount <= b THEN a + ReadCount ELSE b
    PROVE  /\ FirstOf(ReadCount, (a + 1)..b) = (a + 1)..last
           /\ Max((a + 1)..last) = last
<1>0. ReadCount \in Nat /\ ReadCount > 0 /\ last \in Nat /\ a < last /\ last <= b
  BY ConstantTypes
<1>1. ASSUME NEW e \in (a + 1)..b
      PROVE  e \in FirstOf(ReadCount, (a + 1)..b) <=> e <= last
  <2>1. {f \in (a + 1)..b : f < e} = (a + 1)..(e - 1)
    OBVIOUS
  <2>2. Cardinality((a + 1)..(e - 1)) = e - 1 - a
    <3>1. a + 1 \in Int /\ e - 1 \in Int
      OBVIOUS
    <3>2. Cardinality((a + 1)..(e - 1)) =
             IF a + 1 > e - 1 THEN 0 ELSE (e - 1) - (a + 1) + 1
      BY <3>1, FS_Interval
    <3> QED
      BY <3>2
  <2>3. e - 1 - a < ReadCount <=> e <= last
    BY <1>0
  <2> QED
    BY <2>1, <2>2, <2>3 DEF FirstOf
<1>2. FirstOf(ReadCount, (a + 1)..b) = (a + 1)..last
  <2>1. FirstOf(ReadCount, (a + 1)..b) \subseteq (a + 1)..b
    BY DEF FirstOf
  <2>2. \A e \in (a + 1)..last : e \in (a + 1)..b /\ e <= last
    BY <1>0
  <2>3. \A e \in (a + 1)..b : e <= last => e \in (a + 1)..last
    BY <1>0
  <2> QED
    BY <1>1, <2>1, <2>2, <2>3
<1>3. Max((a + 1)..last) = last
  <2>1. (a + 1)..last \in SUBSET Nat /\ last \in (a + 1)..last
    BY <1>0
  <2>2. \A x \in (a + 1)..last : x <= last
    OBVIOUS
  <2>3. /\ Max((a + 1)..last) \in (a + 1)..last
        /\ \A x \in (a + 1)..last : x <= Max((a + 1)..last)
    BY <1>0, <2>1, <2>2, MaxOf
  <2> QED
    BY <1>0, <2>1, <2>3
<1> QED
  BY <1>2, <1>3

\* The entry handled next is the first of the batch.
LEMMA MinIsFirst ==
    ASSUME NEW S \in SUBSET Nat, S # {}
    PROVE  Min(S) \in S /\ \A x \in S : Min(S) <= x
  BY LeastNatural DEF Min

LEMMA PublishMaps ==
    ASSUME TypeOK, Publish
    PROVE  Group!GroupNext
<1>1. /\ published \in Nat /\ published' = published + 1
      /\ UNCHANGED <<lastDelivered, idle, group, consumer>>
  BY ConstantTypes DEF TypeOK, Publish
<1>2. PICK n \in Nat : n = published
  BY <1>1
<1>3. Len(Log["extract"]) = n /\ Len(Log'["extract"]) = n + 1
  <2>1. Log'["extract"] = [e \in 1..n + 1 |-> JobOf(e)] /\ Log["extract"] = [e \in 1..n |-> JobOf(e)]
    BY <1>1, <1>2 DEF Log, OfStream
  <2> QED
    BY <2>1
<1>4. Log'["extract"][n + 1] = JobOf(n + 1)
  BY <1>1, <1>2 DEF Log, OfStream
<1>5. JobOf(n + 1) \in Group!Job("extract")
  BY DEF JobOf, Group!Job, Group!ExtractJob, Group!StreamExtract
<1>6. Log' = [Log EXCEPT !["extract"] = Append(Log["extract"], JobOf(n + 1))]
  <2>1. [e \in 1..n + 1 |-> JobOf(e)] = Append([e \in 1..n |-> JobOf(e)], JobOf(n + 1))
    OBVIOUS
  <2>2. Log["extract"] = [e \in 1..n |-> JobOf(e)]
    BY <1>2 DEF Log, OfStream
  <2>3. Log' = OfStream([e \in 1..n + 1 |-> JobOf(e)], <<>>) /\ Log = OfStream(Log["extract"], <<>>)
    BY <1>1, <1>2, <2>2 DEF Log
  <2> QED
    BY <2>1, <2>2, <2>3, StreamChanges
<1>7. UNCHANGED <<LastDelivered, Pel, GroupExists, Inbox>>
  BY <1>1 DEF LastDelivered, Pel, GroupExists, Inbox, OfStream
<1>8. Group!Publish("extract", JobOf(n + 1))
  BY <1>6, <1>7 DEF Group!Publish
<1>9. Group!SomePublish
  BY <1>3, <1>4, <1>5, <1>8, StreamIs DEF Group!SomePublish
<1> QED
  BY <1>9 DEF Group!GroupNext

\* A consumer takes over a batch that the group has noted as delivered.
LEMMA FetchMaps ==
    ASSUME TypeOK, NEW c \in Members, NEW batch \in SUBSET Entry, Move(c, Handling(batch, 0)),
           idle' = Delivered(batch), UNCHANGED <<published, group>>
    PROVE  /\ Inbox' = [Inbox EXCEPT ![c] = batch]
           /\ Pel' = [Pel EXCEPT !["extract"] = DOMAIN idle \cup batch]
           /\ UNCHANGED <<Log, GroupExists>>
<1>1. Inbox' = [Inbox EXCEPT ![c] = batch]
  BY InboxMoves DEF Handling
<1>2. Pel' = [Pel EXCEPT !["extract"] = DOMAIN idle \cup batch]
  <2>1. DOMAIN idle' = DOMAIN idle \cup batch
    BY DeliveredType
  <2> QED
    BY <2>1, StreamChanges DEF Pel
<1> QED
  BY <1>1, <1>2 DEF Log, GroupExists, OfStream

LEMMA ReclaimMaps ==
    ASSUME TypeOK, NEW c \in Members, Reclaim(c)
    PROVE  Group!GroupNext
<1>1. PICK batch : batch = FirstOf(ReadCount, Claimable)
  OBVIOUS
<1>2. /\ batch # {} /\ batch \in SUBSET Entry /\ batch \in SUBSET DOMAIN idle
      /\ Cardinality(batch) <= ReadCount
  <2>1. batch # {}
    BY <1>1 DEF Reclaim
  <2>2. Claimable \in SUBSET Entry /\ Claimable \subseteq DOMAIN idle
    BY SourcesType
  <2> QED
    BY <1>1, <2>1, <2>2, BatchOK, ConstantTypes
<1>3. /\ Move(c, Handling(batch, 0)) /\ idle' = Delivered(batch)
      /\ UNCHANGED <<published, group, lastDelivered>> /\ group
      /\ consumer[c].batch = {}
  BY <1>1 DEF Reclaim, TypeOK
<1>4. /\ Inbox' = [Inbox EXCEPT ![c] = batch]
      /\ Pel' = [Pel EXCEPT !["extract"] = DOMAIN idle \cup batch]
      /\ UNCHANGED <<Log, GroupExists>>
  BY <1>2, <1>3, FetchMaps
<1>5. Pel' = Pel /\ LastDelivered' = LastDelivered
  <2>1. DOMAIN idle \cup batch = Pel["extract"]
    BY <1>2, StreamIs
  <2>2. Pel = [Pel EXCEPT !["extract"] = Pel["extract"]]
    BY DEF Pel, OfStream
  <2> QED
    BY <1>3, <1>4, <2>1, <2>2 DEF LastDelivered
<1>6. Group!Reclaim(c, batch)
  <2>1. Group!StreamOf(c) = "extract" /\ Inbox[c] = {} /\ GroupExists["extract"]
    BY <1>3, StreamIs
  <2>2. batch # {} /\ batch \subseteq Pel["extract"] /\ Cardinality(batch) <= ReadCount
    BY <1>2, StreamIs
  <2>3. Group!Cardinality(batch) = Cardinality(batch)
    BY DEF Group!Cardinality, Cardinality
  <2> QED
    BY <1>4, <1>5, <2>1, <2>2, <2>3 DEF Group!Reclaim
<1>7. batch \in SUBSET Pel[Group!StreamOf(c)] /\ c \in Group!Consumers
  BY <1>2, StreamIs
<1> QED
  BY <1>6, <1>7 DEF Group!GroupNext

LEMMA ReadNewMaps ==
    ASSUME TypeOK, NEW c \in Members, ReadNew(c)
    PROVE  Group!GroupNext
<1>1. PICK a \in Nat, b \in Nat : a = lastDelivered /\ b = published
  BY SourcesType
<1>2. PICK last : last = IF a + ReadCount <= b THEN a + ReadCount ELSE b
  OBVIOUS
<1>3. a < b
  <2>1. FirstOf(ReadCount, New) # {} /\ FirstOf(ReadCount, New) \subseteq New
    BY DEF ReadNew, FirstOf
  <2> QED
    BY <1>1, <2>1 DEF New
<1>4. FirstOf(ReadCount, New) = (a + 1)..last /\ Max((a + 1)..last) = last
  BY <1>1, <1>2, <1>3, ReadIsNext DEF New
<1>5. PICK batch : batch = (a + 1)..last
  OBVIOUS
<1>6. /\ Move(c, Handling(batch, 0)) /\ idle' = Delivered(batch) /\ lastDelivered' = last
      /\ UNCHANGED <<published, group>> /\ group /\ consumer[c].batch = {}
  BY <1>4, <1>5 DEF ReadNew, TypeOK
<1>7. batch \in SUBSET Entry
  <2>1. FirstOf(ReadCount, New) \subseteq New /\ New \in SUBSET Entry
    BY SourcesType DEF FirstOf
  <2> QED
    BY <1>4, <1>5, <2>1
<1>8. /\ Inbox' = [Inbox EXCEPT ![c] = batch]
      /\ Pel' = [Pel EXCEPT !["extract"] = DOMAIN idle \cup batch]
      /\ UNCHANGED <<Log, GroupExists>>
  BY <1>6, <1>7, FetchMaps
<1>9. LastDelivered' = [LastDelivered EXCEPT !["extract"] = last]
  BY <1>6, StreamChanges DEF LastDelivered
<1>10. Len(Log["extract"]) = b /\ LastDelivered["extract"] = a /\ Pel["extract"] = DOMAIN idle
  BY <1>1, LogLength, StreamIs
<1>11. Group!ReadNew(c)
  <2>1. Group!StreamOf(c) = "extract" /\ Inbox[c] = {} /\ GroupExists["extract"]
    BY <1>6, StreamIs
  <2> QED
    BY <1>2, <1>3, <1>5, <1>8, <1>9, <1>10, <2>1 DEF Group!ReadNew
<1>12. c \in Group!Consumers
  BY StreamIs
<1> QED
  BY <1>11, <1>12 DEF Group!GroupNext

LEMMA HandleOneMaps ==
    ASSUME TypeOK, NEW c \in Members, HandlerReturns(c)
    PROVE  Group!GroupNext
<1>1. PICK batch, e, o : /\ batch = consumer[c].batch /\ e = Min(consumer[c].batch)
                         /\ HandleOne(c, o)
  BY DEF HandlerReturns
<1>2. batch # {} /\ batch \in SUBSET Nat
  <2>1. consumer[c] \in Loop /\ consumer[c].at = "handle"
    BY DEF TypeOK, HandlerReturns
  <2>2. consumer[c].batch \in SUBSET Entry /\ consumer[c].batch # {}
    BY <2>1 DEF Loop, TypeOK
  <2> QED
    BY <1>1, <2>2, ConstantTypes DEF Entry
<1>3. e \in batch /\ \A f \in batch : e <= f
  BY <1>1, <1>2, MinIsFirst
<1>4. Inbox' = [Inbox EXCEPT ![c] = batch \ {e}]
  <2>1. PICK loop : /\ Move(c, loop)
                    /\ loop = IF batch \ {e} = {} THEN At("reclaim", 0)
                                ELSE Handling(batch \ {e}, consumer[c].age)
    BY <1>1 DEF HandleOne
  <2>2. loop.batch = batch \ {e}
    BY <2>1 DEF At, Handling
  <2> QED
    BY <2>1, <2>2, InboxMoves
<1>5. UNCHANGED <<Log, LastDelivered, GroupExists>>
  BY <1>1 DEF HandleOne, Log, LastDelivered, GroupExists, OfStream
<1>6. Inbox[c] = batch /\ Group!Current(c, e)
  BY <1>1, <1>3, StreamIs DEF Group!Current
<1>7. Group!StreamOf(c) = "extract" /\ c \in Group!Consumers /\ Pel["extract"] = DOMAIN idle
  BY StreamIs
<1>8. Group!Ack(c, e) \/ Group!LeavePending(c, e)
  <2>1. CASE o.acked
    <3>1. DOMAIN idle' = DOMAIN idle \ {e}
      BY <1>1, <2>1 DEF HandleOne
    <3>2. Pel' = [Pel EXCEPT !["extract"] = DOMAIN idle \ {e}]
      BY <3>1, StreamChanges DEF Pel
    <3> QED
      BY <1>4, <1>5, <1>6, <1>7, <3>2 DEF Group!Ack
  <2>2. CASE ~o.acked
    <3>1. DOMAIN idle' = DOMAIN idle
      BY <1>1, <2>2 DEF HandleOne
    <3>2. Pel' = Pel
      BY <3>1 DEF Pel
    <3> QED
      BY <1>4, <1>5, <1>6, <3>2 DEF Group!LeavePending
  <2> QED
    BY <2>1, <2>2
<1> QED
  BY <1>3, <1>6, <1>7, <1>8 DEF Group!GroupNext

LEMMA LossMaps ==
    ASSUME TypeOK, Loss
    PROVE  Group!GroupNext
<1>1. /\ lastDelivered' = published /\ DOMAIN idle' = {} /\ group' = FALSE
      /\ UNCHANGED <<published, consumer>> /\ published \in Nat
  BY ConstantTypes DEF Loss, TypeOK
<1>2. Log' = Log /\ Inbox' = Inbox
  BY <1>1 DEF Log, Inbox, OfStream
<1>3. Len(Log["extract"]) = published /\ Len(Log["classify"]) = 0
  BY <1>1, LogLength
<1>4. LastDelivered' = [s \in Group!Streams |-> Len(Log[s])]
  BY <1>1, <1>3, StreamIs DEF LastDelivered, OfStream
<1>5. Pel' = [s \in Group!Streams |-> {}] /\ GroupExists' = [s \in Group!Streams |-> FALSE]
  BY <1>1, StreamIs DEF Pel, GroupExists, OfStream
<1>6. Group!LoseStreams
  BY <1>2, <1>4, <1>5 DEF Group!LoseStreams
<1> QED
  BY <1>6 DEF Group!GroupNext

\* Every step of the loop is a step of the group or one it does not notice.
LEMMA LoopMaps ==
    ASSUME TypeOK, [Next]_vars
    PROVE  Group!GroupNext \/ Mapped' = Mapped
<1>1. CASE Publish
  BY <1>1, PublishMaps
<1>2. ASSUME NEW c \in Members, Step(c)
      PROVE  Group!GroupNext \/ Mapped' = Mapped
  <2>0. c \in Group!Consumers /\ At("reclaim", 0).batch = {} /\ At("read", 0).batch = {}
    BY StreamIs DEF At
  <2>1. CASE EnsureGroup(c)
    <3>1. Inbox' = [Inbox EXCEPT ![c] = {}]
      BY <2>0, <2>1, InboxMoves DEF EnsureGroup
    <3>2. GroupExists' = [GroupExists EXCEPT !["extract"] = TRUE]
      BY <2>1, StreamChanges DEF EnsureGroup, GroupExists
    <3>3. UNCHANGED <<Log, LastDelivered, Pel>>
      BY <2>1 DEF EnsureGroup, Log, LastDelivered, Pel, OfStream
    <3>4. Group!StartConsumer(c)
      BY <3>1, <3>2, <3>3, StreamIs DEF Group!StartConsumer
    <3> QED
      BY <2>0, <3>4 DEF Group!GroupNext
  <2>2. CASE Reclaim(c)
    BY <2>2, ReclaimMaps
  <2>3. CASE ReadNew(c)
    BY <2>3, ReadNewMaps
  <2>4. CASE HandlerReturns(c)
    BY <2>4, HandleOneMaps
  <2>5. CASE NothingReclaimed(c) \/ ReadNothing(c) \/ ReadFails(c) \/ BlockEnds(c)
    <3>1. PICK place, ticks : Move(c, At(place, ticks))
      BY <2>5 DEF NothingReclaimed, ReadNothing, ReadFails, BlockEnds
    <3>2. consumer[c].batch = {} /\ UNCHANGED <<published, lastDelivered, idle, group>>
      BY <2>5 DEF NothingReclaimed, ReadNothing, ReadFails, BlockEnds, TypeOK
    <3>3. At(place, ticks).batch = consumer[c].batch
      BY <3>2 DEF At
    <3> QED
      BY <3>1, <3>2, <3>3, BatchUnchanged
  <2> QED
    BY <1>2, <2>1, <2>2, <2>3, <2>4, <2>5 DEF Step
<1>3. ASSUME NEW c \in Members, Crash(c)
      PROVE  Group!GroupNext
  <2>1. Inbox' = [Inbox EXCEPT ![c] = {}]
    <3>1. Move(c, At("start", 0)) /\ At("start", 0).batch = {}
      BY <1>3 DEF Crash, At
    <3> QED
      BY <3>1, InboxMoves
  <2>2. UNCHANGED <<Log, LastDelivered, Pel, GroupExists>>
    BY <1>3 DEF Crash, Log, LastDelivered, Pel, GroupExists, OfStream
  <2>3. Group!Die(c) /\ c \in Group!Consumers
    BY <2>1, <2>2, StreamIs DEF Group!Die
  <2> QED
    BY <2>3 DEF Group!GroupNext
<1>4. CASE Loss
  BY <1>4, LossMaps
<1>5. CASE Tick
  <2>1. Inbox' = Inbox
    <3>1. /\ consumer' = [c \in Members |->
                             [consumer[c] EXCEPT !.left = @ - 1,
                                                 !.age = IF consumer[c].at = "handle"
                                                         THEN Later(@) ELSE @]]
          /\ consumer \in [Members -> Loop]
      BY <1>5 DEF Tick, TypeOK
    <3>2. \A c \in Members : consumer'[c].batch = consumer[c].batch
      BY <3>1 DEF Loop
    <3> QED
      BY <3>2 DEF Inbox
  <2>2. DOMAIN idle' = DOMAIN idle /\ UNCHANGED <<published, lastDelivered, group>>
    BY <1>5 DEF Tick
  <2> QED
    BY <2>1, <2>2 DEF Mapped, Log, LastDelivered, Pel, GroupExists, OfStream
<1>6. CASE UNCHANGED vars
  BY <1>6 DEF vars, Mapped, Log, LastDelivered, Pel, GroupExists, Inbox, OfStream
<1> QED
  BY <1>1, <1>2, <1>3, <1>4, <1>5, <1>6 DEF Next

LEMMA LoopInitMaps ==
    ASSUME Init
    PROVE  Group!BrokerInit
<1>1. /\ published = 0 /\ lastDelivered = 0 /\ DOMAIN idle = {} /\ group = FALSE
      /\ \A c \in Members : consumer[c].batch = {}
  BY DEF Init, At
<1>2. Log = [s \in Group!Streams |-> <<>>]
  BY <1>1, StreamIs DEF Log, OfStream
<1>3. /\ LastDelivered = [s \in Group!Streams |-> 0] /\ Pel = [s \in Group!Streams |-> {}]
      /\ GroupExists = [s \in Group!Streams |-> FALSE]
  BY <1>1, StreamIs DEF LastDelivered, Pel, GroupExists, OfStream
<1>4. Inbox = [c \in Group!Consumers |-> {}]
  BY <1>1, StreamIs DEF Inbox
<1> QED
  BY <1>2, <1>3, <1>4 DEF Group!BrokerInit

\* The loop with its clock, blocking reads, crashes and losses does to the stream
\* and to the group only what Broker's operations do, for any number of consumers
\* and any times: Broker, which Pipeline is built on, leaves out nothing that
\* Consume (redis.go) can do to a stream.
THEOREM LoopImplementsBroker == Spec => ImplementsBroker
<1>1. Init => Group!BrokerInit
  BY LoopInitMaps
<1>2. TypeOK /\ [Next]_vars => [Group!GroupNext]_Mapped
  BY LoopMaps
<1> QED
  BY <1>1, <1>2, LoopTypeCorrect, PTL DEF Spec, ImplementsBroker, Group!GroupSpec,
                                          Group!brokerVars, Mapped
============================================================================
