------------------------- MODULE EventCollectorProofs -------------------------
(* Theorems about EventCollector for any sessions, sizes and windows. *)
EXTENDS EventCollector, SequenceTheorems, FiniteSetTheorems, TLAPS

(* Intervals are finite. *)
LEMMA Intervals == \A a, b \in Int : IsFiniteSet(a..b)
BY FS_Interval

USE CollectorAssumption

-----------------------------------------------------------------------------
(* Sequences of events. *)

(* Order of two sequences one after the other. *)
LEMMA OrderedConcat ==
    ASSUME NEW s \in Seq(Event), NEW t \in Seq(Event)
    PROVE  Ordered(s \o t) <=>
             /\ Ordered(s) /\ Ordered(t)
             /\ \A e \in Range(s), f \in Range(t) : Precedes(e, f)
<1>1. /\ DOMAIN s = 1..Len(s) /\ DOMAIN t = 1..Len(t) /\ Len(s) \in Nat /\ Len(t) \in Nat
      /\ DOMAIN (s \o t) = 1..(Len(s) + Len(t))
  BY ConcatProperties, LenProperties
<1>2. \A i \in 1..Len(s) : (s \o t)[i] = s[i]
  BY <1>1, ConcatProperties
<1>3. \A i \in 1..Len(t) : (s \o t)[Len(s) + i] = t[i]
  <2> SUFFICES ASSUME NEW i \in 1..Len(t)
               PROVE  (s \o t)[Len(s) + i] = t[i]
    OBVIOUS
  <2>1. Len(s) + i \in 1..(Len(s) + Len(t)) /\ ~(Len(s) + i <= Len(s)) /\ Len(s) + i - Len(s) = i
    BY <1>1
  <2> QED  BY <2>1, ConcatProperties
<1>4. \A i \in DOMAIN (s \o t) : i \in DOMAIN s \/ \E j \in DOMAIN t : i = Len(s) + j
  <2> SUFFICES ASSUME NEW i \in 1..(Len(s) + Len(t)), i \notin 1..Len(s)
               PROVE  \E j \in 1..Len(t) : i = Len(s) + j
    BY <1>1
  <2>1. i - Len(s) \in 1..Len(t) /\ i = Len(s) + (i - Len(s))
    BY <1>1
  <2> QED  BY <2>1
<1>5. ASSUME Ordered(s \o t)
      PROVE  /\ Ordered(s) /\ Ordered(t)
             /\ \A e \in Range(s), f \in Range(t) : Precedes(e, f)
  <2>1. Ordered(s)
    BY <1>1, <1>2, <1>5 DEF Ordered
  <2>2. ASSUME NEW i \in DOMAIN t, NEW j \in DOMAIN t, i < j
        PROVE  Precedes(t[i], t[j])
    <3>1. Len(s) + i \in DOMAIN (s \o t) /\ Len(s) + j \in DOMAIN (s \o t) /\ Len(s) + i < Len(s) + j
      BY <1>1, <2>2
    <3> QED  BY <1>1, <1>3, <1>5, <3>1 DEF Ordered
  <2>3. ASSUME NEW i \in DOMAIN s, NEW j \in DOMAIN t
        PROVE  Precedes(s[i], t[j])
    <3>1. i \in DOMAIN (s \o t) /\ Len(s) + j \in DOMAIN (s \o t) /\ i < Len(s) + j
      BY <1>1
    <3> QED  BY <1>1, <1>2, <1>3, <1>5, <3>1 DEF Ordered
  <2> QED  BY <2>1, <2>2, <2>3 DEF Ordered, Range
<1>6. ASSUME Ordered(s), Ordered(t), \A e \in Range(s), f \in Range(t) : Precedes(e, f)
      PROVE  Ordered(s \o t)
  <2> SUFFICES ASSUME NEW i \in DOMAIN (s \o t), NEW j \in DOMAIN (s \o t), i < j
               PROVE  Precedes((s \o t)[i], (s \o t)[j])
    BY DEF Ordered
  <2>1. CASE i \in DOMAIN s /\ j \in DOMAIN s
    BY <1>1, <1>2, <1>6, <2>1 DEF Ordered
  <2>2. CASE i \in DOMAIN s /\ j \notin DOMAIN s
    <3>1. PICK k \in DOMAIN t : j = Len(s) + k  BY <1>4, <2>2
    <3>2. (s \o t)[i] = s[i] /\ (s \o t)[j] = t[k]
      BY <1>1, <1>2, <1>3, <2>2, <3>1
    <3> QED  BY <1>6, <2>2, <3>2 DEF Range
  <2>3. CASE i \notin DOMAIN s
    <3>1. PICK h \in DOMAIN t : i = Len(s) + h  BY <1>4, <2>3
    <3>2. PICK k \in DOMAIN t : j = Len(s) + k
      <4>1. j \notin DOMAIN s  BY <1>1, <2>3
      <4> QED  BY <1>4, <4>1
    <3>3. h < k  BY <1>1, <3>1, <3>2
    <3>4. (s \o t)[i] = t[h] /\ (s \o t)[j] = t[k]
      BY <1>1, <1>3, <3>1, <3>2
    <3> QED  BY <1>6, <3>3, <3>4 DEF Ordered
  <2> QED  BY <2>1, <2>2, <2>3
<1> QED  BY <1>5, <1>6

(* A sequence of one event. *)
Just(e) == <<e>>

LEMMA OneEvent ==
    ASSUME NEW e \in Event
    PROVE  /\ Just(e) \in Seq(Event) /\ Ordered(Just(e)) /\ Range(Just(e)) = {e}
           /\ Ids(Just(e)) = {e.id}
<1>1. /\ Just(e) \in Seq(Event) /\ DOMAIN Just(e) = 1..1 /\ Just(e)[1] = e
  BY DEF Just
<1>2. DOMAIN Just(e) = {1}  BY <1>1
<1>3. Ordered(Just(e)) /\ Range(Just(e)) = {e}
  BY <1>1, <1>2 DEF Ordered, Range
<1> QED  BY <1>1, <1>3 DEF Ids

(* No event. *)
LEMMA NoEvent ==
    <<>> \in Seq(Event) /\ Ordered(<<>>) /\ Range(<<>>) = {} /\ Ids(<<>>) = {} /\ Triggers(<<>>) = {}
<1>1. <<>> \in Seq(Event) /\ DOMAIN <<>> = {}  OBVIOUS
<1>2. Range(<<>>) = {}  BY <1>1 DEF Range
<1> QED  BY <1>1, <1>2 DEF Ordered, Ids, Triggers

(* What two sequences bring along. *)
LEMMA Together ==
    ASSUME NEW s \in Seq(Event), NEW t \in Seq(Event)
    PROVE  /\ s \o t \in Seq(Event) /\ Range(s \o t) = Range(s) \cup Range(t)
           /\ Ids(s \o t) = Ids(s) \cup Ids(t) /\ Triggers(s \o t) = Triggers(s) \cup Triggers(t)
<1>1. s \o t \in Seq(Event) /\ Range(s \o t) = Range(s) \cup Range(t)
  BY ConcatProperties, RangeConcatenation
<1> QED  BY <1>1 DEF Ids, Triggers

(* Three sequences in a row. *)
LEMMA Associative ==
    ASSUME NEW s \in Seq(Event), NEW t \in Seq(Event), NEW u \in Seq(Event)
    PROVE  (s \o t) \o u = s \o (t \o u)
BY ONLY ConcatAssociative, s \in Seq(Event), t \in Seq(Event), u \in Seq(Event)

(* One event more. *)
LEMMA OneMore ==
    ASSUME NEW s \in Seq(Event), NEW e \in Event
    PROVE  /\ s \o Just(e) \in Seq(Event) /\ Append(s, e) = s \o Just(e)
           /\ Range(s \o Just(e)) = Range(s) \cup {e}
           /\ Ids(s \o Just(e)) = Ids(s) \cup {e.id}
           /\ Triggers(s \o Just(e)) = Triggers(s) \cup Triggers(Just(e))
           /\ Ordered(s) /\ (\A x \in Range(s) : Precedes(x, e)) => Ordered(s \o Just(e))
<1>1. /\ Just(e) \in Seq(Event) /\ Ordered(Just(e)) /\ Range(Just(e)) = {e}
      /\ Ids(Just(e)) = {e.id}
  BY OneEvent
<1>2. Append(s, e) = s \o Just(e)
  BY AppendIsConcat DEF Just
<1>3. /\ s \o Just(e) \in Seq(Event) /\ Range(s \o Just(e)) = Range(s) \cup {e}
      /\ Ids(s \o Just(e)) = Ids(s) \cup {e.id}
      /\ Triggers(s \o Just(e)) = Triggers(s) \cup Triggers(Just(e))
  BY <1>1, Together
<1>4. ASSUME Ordered(s), \A x \in Range(s) : Precedes(x, e)
      PROVE  Ordered(s \o Just(e))
  <2>1. \A x \in Range(s), f \in Range(Just(e)) : Precedes(x, f)
    BY <1>1, <1>4
  <2> QED  BY <1>1, <1>4, <2>1, OrderedConcat
<1> QED  BY <1>2, <1>3, <1>4

(* The flusher takes the first event of the queue as the last of its slice. *)
LEMMA TakeMoves ==
    ASSUME NEW s \in Seq(Event), NEW t \in Seq(Event), t # <<>>
    PROVE  Append(s, Head(t)) \o Tail(t) = s \o t
<1>1. /\ Head(t) \in Event /\ Tail(t) \in Seq(Event) /\ Len(Tail(t)) = Len(t) - 1
      /\ \A i \in 1..Len(Tail(t)) : Tail(t)[i] = t[i + 1]
  BY HeadTailProperties
<1>2. t = Just(Head(t)) \o Tail(t)
  BY DEF Just
<1>3. Just(Head(t)) \in Seq(Event)  BY <1>1, OneEvent
<1>4. Append(s, Head(t)) = s \o Just(Head(t))
  BY <1>1, OneMore
<1>5. (s \o Just(Head(t))) \o Tail(t) = s \o (Just(Head(t)) \o Tail(t))
  BY <1>1, <1>3, Associative
<1> QED  BY <1>2, <1>4, <1>5

-----------------------------------------------------------------------------
(* Ends of finite sets. *)

(* Well-founded strict inclusion stands in for induction: an element with  *)
(* the fewest elements after it has none.                                  *)
LEMMA HasLast ==
    ASSUME NEW S, IsFiniteSet(S), S # {}, NEW R,
           \A x \in S : <<x, x>> \notin R,
           \A x, y, z \in S : <<x, y>> \in R /\ <<y, z>> \in R => <<x, z>> \in R
    PROVE  \E x \in S : \A y \in S : <<x, y>> \notin R
<1> DEFINE Above(x) == {y \in S : <<x, y>> \in R}
           D == {Above(x) : x \in S}
<1>1. IsWellFoundedOn(StrictSubsetOrdering(S), FiniteSubsetsOf(S))
  BY FS_StrictSubsetOrderingWellFounded
<1>2. \A x \in S : Above(x) \in SUBSET S
  OBVIOUS
<1> HIDE DEF Above
<1>3. \A x \in S : Above(x) \in FiniteSubsetsOf(S)
  BY <1>2, FS_Subset DEF FiniteSubsetsOf
<1>4. PICK x \in S : \A y \in S : <<Above(y), Above(x)>> \notin StrictSubsetOrdering(S)
  <2>1. D \subseteq FiniteSubsetsOf(S) /\ D # {}
    BY <1>3
  <2>2. \E d \in D : \A c \in D : ~(<<c, d>> \in StrictSubsetOrdering(S))
    <3> HIDE DEF D
    <3> QED  BY <1>1, <2>1, WFMin
  <2>3. PICK d \in D : \A c \in D : ~(<<c, d>> \in StrictSubsetOrdering(S))
    BY <2>2
  <2>4. PICK x \in S : d = Above(x)
    BY <2>3
  <2>5. \A y \in S : Above(y) \in D
    OBVIOUS
  <2> HIDE DEF D
  <2> QED  BY <2>3, <2>4, <2>5
<1>5. ASSUME NEW y \in S, <<x, y>> \in R
      PROVE  FALSE
  <2>1. Above(y) \subseteq Above(x) /\ y \in Above(x) /\ y \notin Above(y)
    BY <1>5 DEF Above
  <2>2. Above(y) # Above(x) /\ Above(x) \in SUBSET S /\ Above(y) \in SUBSET S
    BY <1>2, <2>1
  <2>3. <<Above(y), Above(x)>> \in StrictSubsetOrdering(S)
    BY <2>1, <2>2 DEF StrictSubsetOrdering
  <2> QED  BY <1>4, <2>3
<1> QED  BY <1>5

(* Max and Min name an element of a finite set of numbers. *)
LEMMA MaxMinFacts ==
    ASSUME NEW S \in SUBSET Int, IsFiniteSet(S), S # {}
    PROVE  /\ Max(S) \in S /\ \A y \in S : y <= Max(S)
           /\ Min(S) \in S /\ \A y \in S : Min(S) <= y
<1>1. \E x \in S : \A y \in S : y <= x
  <2> DEFINE R == {p \in S \X S : p[1] < p[2]}
  <2>1. /\ \A x \in S : <<x, x>> \notin R
        /\ \A x, y, z \in S : <<x, y>> \in R /\ <<y, z>> \in R => <<x, z>> \in R
        /\ \A x, y \in S : <<x, y>> \notin R => y <= x
    OBVIOUS
  <2> HIDE DEF R
  <2>2. \E x \in S : \A y \in S : <<x, y>> \notin R
    BY <2>1, HasLast
  <2> QED  BY <2>1, <2>2
<1>2. \E x \in S : \A y \in S : x <= y
  <2> DEFINE R == {p \in S \X S : p[1] > p[2]}
  <2>1. /\ \A x \in S : <<x, x>> \notin R
        /\ \A x, y, z \in S : <<x, y>> \in R /\ <<y, z>> \in R => <<x, z>> \in R
        /\ \A x, y \in S : <<x, y>> \notin R => x <= y
    OBVIOUS
  <2> HIDE DEF R
  <2>2. \E x \in S : \A y \in S : <<x, y>> \notin R
    BY <2>1, HasLast
  <2> QED  BY <2>1, <2>2
<1>3. Max(S) \in S /\ \A y \in S : Max(S) >= y
  BY <1>1 DEF Max
<1>4. Min(S) \in S /\ \A y \in S : Min(S) <= y
  BY <1>2 DEF Min
<1> QED  BY <1>3, <1>4

(* So do they for the times and the ids a client may hold. *)
LEMMA EndFacts ==
    ASSUME NEW C \in SUBSET (Beginning..MaxClock), NEW N \in SUBSET (1..MaxEvents)
    PROVE  /\ C \in SUBSET Int /\ N \in SUBSET Int
           /\ C # {} => Max(C) \in C /\ \A c \in C : c <= Max(C)
           /\ N # {} => Min(N) \in N /\ \A n \in N : Min(N) <= n
<1>1. Beginning \in Int /\ MaxClock \in Int /\ MaxEvents \in Int
  BY DEF Beginning
<1>2. IsFiniteSet(Beginning..MaxClock) /\ IsFiniteSet(1..MaxEvents)
  BY <1>1, Intervals
<1>3. IsFiniteSet(C) /\ IsFiniteSet(N)
  BY <1>1, <1>2, FS_Subset
<1>4. C \in SUBSET Int /\ N \in SUBSET Int
  BY <1>1
<1>5. C # {} => Max(C) \in C /\ \A c \in C : c <= Max(C)
  BY <1>3, <1>4, MaxMinFacts
<1>6. N # {} => Min(N) \in N /\ \A n \in N : Min(N) <= n
  BY <1>3, <1>4, MaxMinFacts
<1> QED  BY <1>4, <1>5, <1>6

-----------------------------------------------------------------------------
(* The table. *)

(* The rows: finitely many, ordered by time and row id. *)
LEMMA TableFacts ==
    ASSUME TypeOK
    PROVE  /\ IsFiniteSet(DOMAIN table) /\ DOMAIN table \subseteq Nat
           /\ \A i \in DOMAIN table : /\ table[i] \in Event
                                      /\ table[i].id \in 1..MaxEvents
                                      /\ table[i].at \in 0..MaxClock
           /\ Range(table) = {table[i] : i \in DOMAIN table} /\ Range(table) \subseteq Event
<1>1. /\ rowid \in Nat /\ DOMAIN table \subseteq 1..rowid
      /\ \A i \in DOMAIN table : table[i] \in Event
  BY DEF TypeOK
<1>2. IsFiniteSet(1..rowid)  BY <1>1, Intervals
<1>3. IsFiniteSet(DOMAIN table)  BY <1>1, <1>2, FS_Subset
<1>4. \A e \in Event : e.id \in 1..MaxEvents /\ e.at \in 0..MaxClock
  BY DEF Event
<1> QED  BY <1>1, <1>3, <1>4 DEF Range

(* Sooner orders the rows. *)
LEMMA SoonerFacts ==
    ASSUME TypeOK, NEW i \in DOMAIN table, NEW j \in DOMAIN table
    PROVE  /\ ~Sooner(i, i)
           /\ i # j => Sooner(i, j) \/ Sooner(j, i)
           /\ \A k \in DOMAIN table : Sooner(i, j) /\ Sooner(j, k) => Sooner(i, k)
<1>1. \A k \in DOMAIN table : k \in Nat /\ table[k].at \in Nat
  BY TableFacts
<1> QED  BY <1>1 DEF Sooner

(* A page that is not empty has a last row. *)
LEMMA LastRowFacts ==
    ASSUME TypeOK, NEW rows \in SUBSET DOMAIN table, rows # {}
    PROVE  /\ LastRow(rows) \in rows
           /\ \A j \in rows : ~Sooner(LastRow(rows), j) /\ table[j].at <= table[LastRow(rows)].at
<1> DEFINE R == {p \in rows \X rows : Sooner(p[1], p[2])}
<1>1. IsFiniteSet(rows)
  BY TableFacts, FS_Subset
<1>2. /\ \A x \in rows : <<x, x>> \notin R
      /\ \A x, y, z \in rows : <<x, y>> \in R /\ <<y, z>> \in R => <<x, z>> \in R
  BY SoonerFacts
<1>3. \E x \in rows : \A y \in rows : <<x, y>> \notin R
  <2> HIDE DEF R
  <2> QED  BY <1>1, <1>2, HasLast
<1>4. \E x \in rows : \A y \in rows : ~Sooner(x, y)
  BY <1>3
<1>5. LastRow(rows) \in rows /\ \A y \in rows : ~Sooner(LastRow(rows), y)
  BY <1>4 DEF LastRow
<1>6. \A y \in rows : table[y].at \in Nat
  BY TableFacts
<1> QED  BY <1>5, <1>6 DEF Sooner

(* A page of the oldest rows leaves out no row before one of its own. *)
LEMMA OldestFacts ==
    ASSUME TypeOK, NEW rows \in SUBSET DOMAIN table, NEW limit \in Nat,
           NEW i \in Oldest(rows, limit), NEW j \in rows, Sooner(j, i)
    PROVE  j \in Oldest(rows, limit)
<1> DEFINE Before(x) == {k \in rows : Sooner(k, x)}
<1>1. IsFiniteSet(rows) /\ i \in rows
  BY TableFacts, FS_Subset DEF Oldest
<1>2. Before(j) \in SUBSET Before(i)
  BY <1>1, SoonerFacts
<1>3. Before(i) \in SUBSET rows
  OBVIOUS
<1>4. Cardinality(Before(i)) < limit
  BY DEF Oldest
<1> HIDE DEF Before
<1>5. IsFiniteSet(Before(i))
  BY <1>1, <1>3, FS_Subset
<1>6. IsFiniteSet(Before(j)) /\ Cardinality(Before(j)) <= Cardinality(Before(i))
  BY <1>2, <1>5, FS_Subset
<1>7. Cardinality(Before(j)) \in Nat /\ Cardinality(Before(i)) \in Nat
  BY <1>5, <1>6, FS_CardinalityType
<1>8. Cardinality(Before(j)) < limit
  BY <1>4, <1>6, <1>7
<1> QED  BY <1>8 DEF Before, Oldest

(* A page of the newest rows leaves out no row after one of its own. *)
LEMMA NewestFacts ==
    ASSUME TypeOK, NEW rows \in SUBSET DOMAIN table, NEW limit \in Nat,
           NEW i \in Newest(rows, limit), NEW j \in rows, Sooner(i, j)
    PROVE  j \in Newest(rows, limit)
<1> DEFINE After(x) == {k \in rows : Sooner(x, k)}
<1>1. IsFiniteSet(rows) /\ i \in rows
  BY TableFacts, FS_Subset DEF Newest
<1>2. After(j) \in SUBSET After(i)
  BY <1>1, SoonerFacts
<1>3. After(i) \in SUBSET rows
  OBVIOUS
<1>4. Cardinality(After(i)) < limit
  BY DEF Newest
<1> HIDE DEF After
<1>5. IsFiniteSet(After(i))
  BY <1>1, <1>3, FS_Subset
<1>6. IsFiniteSet(After(j)) /\ Cardinality(After(j)) <= Cardinality(After(i))
  BY <1>2, <1>5, FS_Subset
<1>7. Cardinality(After(j)) \in Nat /\ Cardinality(After(i)) \in Nat
  BY <1>5, <1>6, FS_CardinalityType
<1>8. Cardinality(After(j)) < limit
  BY <1>4, <1>6, <1>7
<1> QED  BY <1>8 DEF After, Newest

-----------------------------------------------------------------------------
(* Types and sizes. *)

(* What is not stored yet. *)
LEMMA UnstoredFacts ==
    ASSUME TypeOK
    PROVE  /\ Unstored \in Seq(Event) /\ Range(Unstored) \subseteq Event
           /\ fpc = "mark" => Unstored = queue
           /\ fpc # "mark" => Unstored = batch \o queue
<1>1. queue \in Seq(Event) /\ batch \in Seq(Event) /\ <<>> \in Seq(Event)
  BY DEF TypeOK
<1>2. fpc = "mark" => Unstored = queue
  BY <1>1, ConcatEmptySeq DEF Unstored
<1>3. fpc # "mark" => Unstored = batch \o queue
  BY DEF Unstored
<1>4. Unstored \in Seq(Event)
  BY <1>1, <1>2, <1>3, ConcatProperties
<1> QED  BY <1>2, <1>3, <1>4, RangeOfSeq

(* Cursors are finitely many numbers. *)
LEMMA CursorFacts ==
    ASSUME TypeOK
    PROVE  /\ cursors \in SUBSET Int
           /\ cursors # {} => Max(cursors) \in cursors /\ \A c \in cursors : c <= Max(cursors)
           /\ seen \in SUBSET Int
           /\ seen # {} => Min(seen) \in seen /\ \A n \in seen : Min(seen) <= n
<1>1. cursors \in SUBSET (Beginning..MaxClock) /\ seen \in SUBSET (1..MaxEvents)
  BY DEF TypeOK
<1> QED  BY <1>1, EndFacts

(* A fetched page. *)
LEMMA FetchFacts ==
    ASSUME TypeOK, NEW page \in SUBSET DOMAIN table, NEW since \in SUBSET (Beginning..MaxClock),
           Fetch(page, since)
    PROVE  cursors' \subseteq Beginning..MaxClock /\ seen' \subseteq 1..MaxEvents
<1>1. page # {}  BY DEF Fetch
<1>2. LastRow(page) \in DOMAIN table  BY <1>1, LastRowFacts
<1>3. table[LastRow(page)].at \in Beginning..MaxClock
  BY <1>2, TableFacts DEF Beginning
<1>4. \A i \in page : table[i].id \in 1..MaxEvents
  BY TableFacts
<1>5. cursors \subseteq Beginning..MaxClock /\ seen \subseteq 1..MaxEvents
  BY DEF TypeOK
<1>6. /\ cursors' = cursors \cup since \cup {table[LastRow(page)].at}
      /\ seen' = seen \cup {table[i].id : i \in page}
  BY DEF Fetch
<1> QED  BY <1>3, <1>4, <1>5, <1>6

(* Every step keeps the types. *)
LEMMA TypeStep ==
    ASSUME TypeOK, Next
    PROVE  TypeOK'
<1>0. /\ now \in 0..MaxClock /\ received \in 0..MaxEvents /\ restarts \in Nat
      /\ queue \in Seq(Event) /\ batch \in Seq(Event) /\ <<>> \in Seq(Event)
      /\ MaxClock \in Nat /\ MaxEvents \in Nat
  BY DEF TypeOK
<1>1. CASE StartCleanup \/ CleanupPass
  <2>1. CASE UNCHANGED database
    BY <1>1, <2>1 DEF StartCleanup, CleanupPass, TypeOK, database, memory, client, history
  <2>2. CASE DeleteEventsOlderThan(now - Retention)
    <3>1. rowid' = rowid /\ DOMAIN table' \subseteq DOMAIN table /\ table' \in [DOMAIN table' -> Event]
      BY <2>2 DEF DeleteEventsOlderThan, Restrict, TypeOK
    <3> QED
      BY <1>1, <3>1 DEF StartCleanup, CleanupPass, TypeOK, memory, client, history
  <2> QED  BY <1>1, <2>1, <2>2 DEF StartCleanup, CleanupPass
<1>2. CASE seedSessionStatuses
  <2>1. \A rows \in SUBSET DOMAIN table, s \in Sessions : Seeded(rows, s) \in {NoStatus, "busy", "idle"}
    <3> SUFFICES ASSUME NEW rows \in SUBSET DOMAIN table, NEW s \in Sessions,
                        StatusHits(rows, s) # {}
                 PROVE  table[LastRow(StatusHits(rows, s))].kind \in {"busy", "idle"}
      BY DEF Seeded
    <3>1. StatusHits(rows, s) \in SUBSET DOMAIN table
      BY DEF StatusHits
    <3>2. LastRow(StatusHits(rows, s)) \in StatusHits(rows, s)
      BY <3>1, LastRowFacts
    <3> QED  BY <3>2 DEF StatusHits, HasStatus
  <2>2. ListEvents(now - SeedWindow, SeedLimit) \in SUBSET DOMAIN table
    BY DEF ListEvents, Oldest, Since
  <2>3. statuses' \in [Sessions -> {NoStatus, "busy", "idle"}]
    BY <1>2, <2>1, <2>2 DEF seedSessionStatuses, TypeOK
  <2>4. seed'.at \in 0..MaxClock
    BY <1>0, <1>2 DEF seedSessionStatuses
  <2> QED
    BY <1>2, <2>3, <2>4 DEF seedSessionStatuses, TypeOK, database, client
<1>3. ASSUME NEW s \in Sessions, NEW k \in Kinds, Receive(s, k)
      PROVE  TypeOK'
  <2> DEFINE e == [id |-> received + 1, session |-> s, kind |-> k, at |-> now]
  <2>1. received' = received + 1 /\ received + 1 \in 1..MaxEvents
    BY <1>0, <1>3 DEF Receive
  <2>2. e \in Event
    BY <1>0, <2>1 DEF Event
  <2>3. queue' \in Seq(Event)
    <3>1. queue' = IF Full THEN queue ELSE Append(queue, e)
      BY <1>3 DEF Receive
    <3> HIDE DEF e
    <3> QED  BY <1>0, <2>2, <3>1, AppendProperties
  <2>4. k \in {"busy", "idle"} \/ ~HasStatus(e)
    BY DEF HasStatus
  <2>5. statuses' \in [Sessions -> {NoStatus, "busy", "idle"}]
    BY <1>3, <2>4 DEF Receive, TypeOK
  <2>6. truth' \in [Sessions -> [status : {NoStatus, "busy", "idle"}, id : 0..MaxEvents,
                                 at : 0..MaxClock, life : Nat]]
    <3> DEFINE rec == [status |-> k, id |-> e.id, at |-> now, life |-> restarts]
               Rec == [status : {NoStatus, "busy", "idle"}, id : 0..MaxEvents,
                       at : 0..MaxClock, life : Nat]
    <3>1. rec \in Rec \/ ~HasStatus(e)
      BY <1>0, <2>1, <2>4
    <3>2. truth' = truth \/ (HasStatus(e) /\ truth' = [truth EXCEPT ![s] = rec])
      BY <1>3 DEF Receive
    <3>3. truth \in [Sessions -> Rec]
      BY DEF TypeOK
    <3> HIDE DEF rec, Rec, e
    <3>4. truth' \in [Sessions -> Rec]
      BY <3>1, <3>2, <3>3
    <3> QED  BY <3>4 DEF Rec
  <2>7. UNCHANGED <<now, pc, fpc, back, batch, table, rowid, restarts, cursors, seen, seed>>
    BY <1>3 DEF Receive, database, client
  <2>8. received' \in 0..MaxEvents
    BY <1>0, <2>1
  <2> HIDE DEF e
  <2> QED  BY <2>3, <2>5, <2>6, <2>7, <2>8 DEF TypeOK
<1>4. CASE StreamEnds \/ Reconnect \/ Exit
  BY <1>4 DEF StreamEnds, Reconnect, Exit, TypeOK, database, counters, client, history
<1>5. CASE Take
  <2>1. queue' \in Seq(Event) /\ batch' \in Seq(Event)
    BY <1>0, <1>5, HeadTailProperties, AppendProperties DEF Take
  <2> QED
    BY <1>5, <2>1 DEF Take, TypeOK, database, counters, client, history
<1>6. CASE FlushTick \/ StartDrain \/ EndDrain
  BY <1>6 DEF FlushTick, StartDrain, EndDrain, TypeOK, database, counters, client, history
<1>7. CASE FlushInsert
  <2>1. batch' \in Seq(Event) /\ fpc' \in {"select", "drain", "done", "mark"}
    BY <1>0, <1>7 DEF FlushInsert, Flushed, TypeOK
  <2>2. rowid' \in Nat /\ DOMAIN table' \subseteq 1..rowid' /\ table' \in [DOMAIN table' -> Event]
    <3>1. CASE UNCHANGED database
      BY <3>1 DEF database, TypeOK
    <3>2. CASE InsertEvents(batch)
      <4>1. Len(batch) \in Nat /\ \A i \in 1..Len(batch) : batch[i] \in Event
        BY <1>0, LenProperties, ElementOfSeq
      <4>2. /\ rowid' = rowid + Len(batch)
            /\ table' = [i \in DOMAIN table \cup (rowid + 1)..(rowid + Len(batch)) |->
                           IF i \in DOMAIN table THEN table[i] ELSE batch[i - rowid]]
        BY <3>2 DEF InsertEvents
      <4>3. rowid \in Nat /\ DOMAIN table \subseteq 1..rowid /\ \A i \in DOMAIN table : table[i] \in Event
        BY DEF TypeOK
      <4>4. \A i \in (rowid + 1)..(rowid + Len(batch)) : i - rowid \in 1..Len(batch)
        BY <4>1, <4>3
      <4> DEFINE D == DOMAIN table \cup (rowid + 1)..(rowid + Len(batch))
      <4>5. DOMAIN table' = D
        BY <4>2
      <4>6. rowid' \in Nat /\ D \subseteq 1..rowid'
        BY <4>1, <4>2, <4>3
      <4>7. \A i \in D : table'[i] \in Event
        BY <4>1, <4>2, <4>3, <4>4
      <4>8. table' = [i \in D |-> table'[i]]
        BY <4>2
      <4> HIDE DEF D
      <4> QED  BY <4>5, <4>6, <4>7, <4>8
    <3> QED  BY <1>7, <3>1, <3>2 DEF FlushInsert
  <2> QED
    BY <1>7, <2>1, <2>2 DEF FlushInsert, TypeOK, client
<1>8. CASE FlushMark
  BY <1>0, <1>8 DEF FlushMark, Flushed, TypeOK, database, client
<1>9. CASE PollNewest
  <2>1. ListNewest(PageLimit) \in SUBSET DOMAIN table
    BY DEF ListNewest, Newest
  <2>2. Fetch(ListNewest(PageLimit), {})
    BY <1>9 DEF PollNewest
  <2>3. cursors' \subseteq Beginning..MaxClock /\ seen' \subseteq 1..MaxEvents
    BY <2>1, <2>2, FetchFacts
  <2> QED
    BY <2>2, <2>3 DEF Fetch, TypeOK, memory, database, counters, history
<1>10. CASE Poll
  <2> DEFINE since == IF cursors = {} THEN Beginning ELSE Max(cursors)
  <2>1. since \in Beginning..MaxClock
    <3>1. Beginning \in Beginning..MaxClock
      BY <1>0 DEF Beginning
    <3>2. cursors # {} => Max(cursors) \in Beginning..MaxClock
      BY CursorFacts DEF TypeOK
    <3> QED  BY <3>1, <3>2
  <2>2. ListEvents(since, PageLimit) \in SUBSET DOMAIN table
    BY DEF ListEvents, Oldest, Since
  <2>3. Fetch(ListEvents(since, PageLimit), {since})
    BY <1>10 DEF Poll
  <2> HIDE DEF since
  <2>4. cursors' \subseteq Beginning..MaxClock /\ seen' \subseteq 1..MaxEvents
    BY <2>1, <2>2, <2>3, FetchFacts
  <2> QED
    BY <2>3, <2>4 DEF Fetch, TypeOK, memory, database, counters, history
<1>11. CASE (\E s \in Sessions : MarkSessionRead(s)) \/ Cancel
  BY <1>11 DEF MarkSessionRead, Cancel, TypeOK, memory, database, counters, client, history
<1>12. CASE Tick
  <2>1. now' \in 0..MaxClock
    BY <1>0, <1>12 DEF Tick
  <2> QED
    BY <1>12, <2>1 DEF Tick, TypeOK, memory, database, counters, client, history
<1>13. CASE Restart
  <2>1. /\ pc' = "cleanup" /\ fpc' = "off" /\ back' = "select" /\ queue' = <<>> /\ batch' = <<>>
        /\ restarts' \in Nat
    BY <1>0, <1>13 DEF Restart
  <2>2. statuses' \in [Sessions -> {NoStatus, "busy", "idle"}]
    BY <1>13 DEF Restart
  <2>3. UNCHANGED <<now, table, rowid, received, cursors, seen, truth, seed>>
    BY <1>13 DEF Restart, database, client
  <2> QED  BY <1>0, <2>1, <2>2, <2>3 DEF TypeOK
<1> QED
  BY <1>1, <1>2, <1>3, <1>4, <1>5, <1>6, <1>7, <1>8, <1>9, <1>10, <1>11, <1>12, <1>13
    DEF Next, CollectorNext, FlusherNext, ClientNext

(* Neither the queue nor the slice ever outgrows its size. *)
LEMMA SlotsStep ==
    ASSUME TypeOK, Slots, Next
    PROVE  Slots'
<1>0. /\ queue \in Seq(Event) /\ batch \in Seq(Event) /\ back \in {"select", "drain", "done"}
      /\ Len(queue) \in Nat /\ Len(batch) \in Nat
      /\ QueueSize \in Nat \ {0} /\ FlushBatch \in Nat \ {0} /\ Len(<<>>) = 0
  BY LenProperties DEF TypeOK
<1>1. CASE UNCHANGED <<queue, batch>> /\ fpc' = fpc /\ (pc' \in {"cleanup", "seed"} <=> pc \in {"cleanup", "seed"})
  BY <1>1 DEF Slots
<1>2. CASE StartCleanup \/ CleanupPass \/ StreamEnds \/ Reconnect \/ Exit
  BY <1>1, <1>2 DEF StartCleanup, CleanupPass, StreamEnds, Reconnect, Exit, memory
<1>3. CASE seedSessionStatuses
  BY <1>0, <1>3 DEF seedSessionStatuses, Slots
<1>4. ASSUME NEW s \in Sessions, NEW k \in Kinds, Receive(s, k)
      PROVE  Slots'
  <2> DEFINE e == [id |-> received + 1, session |-> s, kind |-> k, at |-> now]
  <2>1. /\ pc = "stream" /\ UNCHANGED <<pc, fpc, batch>>
        /\ queue' = IF Len(queue) >= QueueSize THEN queue ELSE Append(queue, e)
    BY <1>4 DEF Receive, Full
  <2> HIDE DEF e
  <2>2. Len(queue') <= QueueSize
    <3>1. Len(Append(queue, e)) = Len(queue) + 1
      BY <1>0
    <3> QED  BY <1>0, <2>1, <3>1 DEF Slots
  <2> QED  BY <2>1, <2>2 DEF Slots
<1>5. CASE Take
  <2>1. /\ fpc \in {"select", "drain"} /\ queue # <<>> /\ pc' = pc
        /\ queue' = Tail(queue) /\ batch' = Append(batch, Head(queue))
        /\ IF Len(batch') >= FlushBatch THEN fpc' = "insert" ELSE fpc' = fpc
    BY <1>5 DEF Take
  <2>2. Len(queue') = Len(queue) - 1
    BY <1>0, <2>1, HeadTailProperties
  <2>3. Len(batch') = Len(batch) + 1
    BY <1>0, <2>1, HeadTailProperties, AppendProperties
  <2> QED  BY <1>0, <2>1, <2>2, <2>3 DEF Slots
<1>6. CASE FlushTick \/ StartDrain \/ EndDrain
  BY <1>6 DEF FlushTick, StartDrain, EndDrain, Slots
<1>7. CASE FlushInsert \/ FlushMark
  BY <1>0, <1>7 DEF FlushInsert, FlushMark, Flushed, Slots
<1>8. CASE PollNewest \/ Poll
  BY <1>1, <1>8 DEF PollNewest, Poll, Fetch, memory
<1>9. CASE (\E s \in Sessions : MarkSessionRead(s)) \/ Tick \/ Cancel
  BY <1>1, <1>9 DEF MarkSessionRead, Tick, Cancel, memory
<1>10. CASE Restart
  BY <1>0, <1>10 DEF Restart, Slots
<1> QED
  BY <1>2, <1>3, <1>4, <1>5, <1>6, <1>7, <1>8, <1>9, <1>10
    DEF Next, CollectorNext, FlusherNext, ClientNext

-----------------------------------------------------------------------------
(* What a step does to the events that are stored or on their way. *)

Still == UNCHANGED <<table, received, lost>> /\ Unstored' = Unstored

Arrives(e) ==
    /\ e \in Event /\ e.id = received + 1 /\ e.at = now
    /\ UNCHANGED table /\ received' = received + 1
    /\ \/ Unstored' = Unstored \o Just(e) /\ UNCHANGED lost
       \/ Unstored' = Unstored /\ lost' = lost \cup {e.id}

Purges ==
    /\ DeleteEventsOlderThan(now - Retention)
    /\ UNCHANGED <<received, lost>> /\ Unstored' = Unstored

Stores ==
    /\ InsertEvents(batch)
    /\ UNCHANGED <<received, lost>> /\ Unstored = batch \o queue /\ Unstored' = queue

Drops(s, t) ==
    /\ s \in Seq(Event) /\ t \in Seq(Event) /\ Unstored = s \o t
    /\ UNCHANGED <<table, received>> /\ Unstored' = t /\ lost' = lost \cup Ids(s)

(* The statement by which a batch reaches the table, or does not. *)
LEMMA FlushInsertEffect ==
    ASSUME TypeOK, FlushInsert
    PROVE  Stores \/ Drops(batch, queue)
<1>0. queue \in Seq(Event) /\ batch \in Seq(Event) /\ back \in {"select", "drain", "done"}
  BY DEF TypeOK
<1>1. Unstored = batch \o queue
  BY UnstoredFacts DEF FlushInsert
<1>2. Unstored' = queue
  <2>1. queue' = queue /\ (fpc' = "mark" \/ (fpc' # "mark" /\ batch' = <<>>))
    BY <1>0 DEF FlushInsert, Flushed
  <2>2. Unstored' = <<>> \o queue
    BY <2>1 DEF Unstored
  <2> QED  BY <1>0, <2>2, ConcatEmptySeq
<1>3. received' = received
  BY DEF FlushInsert
<1>4. CASE InsertEvents(batch) /\ UNCHANGED lost
  BY <1>1, <1>2, <1>3, <1>4 DEF Stores
<1>5. CASE UNCHANGED database /\ lost' = lost \cup Ids(batch)
  BY <1>0, <1>1, <1>2, <1>3, <1>5 DEF Drops, database
<1> QED  BY <1>4, <1>5 DEF FlushInsert

(* A new event. *)
LEMMA ReceiveEffect ==
    ASSUME TypeOK, Slots, NEW s \in Sessions, NEW k \in Kinds, Receive(s, k),
           NEW e, e = [id |-> received + 1, session |-> s, kind |-> k, at |-> now]
    PROVE  Arrives(e)
<1>0. /\ now \in 0..MaxClock /\ received \in 0..MaxEvents /\ received < MaxEvents
      /\ queue \in Seq(Event) /\ batch \in Seq(Event) /\ MaxEvents \in Nat
  BY DEF TypeOK, Receive
<1>1. e \in Event /\ e.id = received + 1 /\ e.at = now
  BY <1>0 DEF Event
<1>2. /\ UNCHANGED <<table, fpc, batch>> /\ received' = received + 1
      /\ queue' = IF Full THEN queue ELSE Append(queue, e)
      /\ lost' = IF Full THEN lost \cup {e.id} ELSE lost
  BY DEF Receive, database
<1>3. CASE Full
  <2>1. Unstored' = Unstored
    BY <1>2, <1>3 DEF Unstored
  <2> QED  BY <1>1, <1>2, <1>3, <2>1 DEF Arrives
<1>4. CASE ~Full
  <2> DEFINE b == IF fpc = "mark" THEN <<>> ELSE batch
  <2>1. b \in Seq(Event) /\ Just(e) \in Seq(Event)
    BY <1>0, <1>1, OneEvent
  <2>2. queue' = queue \o Just(e)
    BY <1>0, <1>1, <1>2, <1>4, OneMore
  <2>3. Unstored' = b \o queue' /\ Unstored = b \o queue
    BY <1>2 DEF Unstored
  <2> HIDE DEF b
  <2>4. (b \o queue) \o Just(e) = b \o (queue \o Just(e))
    BY <1>0, <2>1, Associative
  <2>5. Unstored' = Unstored \o Just(e)
    BY <2>2, <2>3, <2>4
  <2> QED  BY <1>1, <1>2, <1>4, <2>5 DEF Arrives
<1> QED  BY <1>3, <1>4

(* A restart. *)
LEMMA RestartEffect ==
    ASSUME TypeOK, Restart
    PROVE  Drops(Unstored, <<>>)
<1>1. Unstored \in Seq(Event) /\ <<>> \in Seq(Event)
  BY UnstoredFacts
<1>2. Unstored = Unstored \o <<>>
  BY <1>1, ConcatEmptySeq
<1>3. Unstored' = <<>> \o <<>>
  BY DEF Restart, Unstored
<1>4. Unstored' = <<>>
  BY <1>1, <1>3, ConcatEmptySeq
<1>5. UNCHANGED <<table, received>> /\ lost' = lost \cup Ids(Unstored)
  BY DEF Restart, database
<1> QED  BY <1>1, <1>2, <1>4, <1>5 DEF Drops

(* The flusher's other steps and everything else. *)
LEMMA StillEffect ==
    ASSUME TypeOK, Slots,
           \/ StreamEnds \/ Reconnect \/ Exit \/ seedSessionStatuses
           \/ Take \/ FlushTick \/ StartDrain \/ EndDrain \/ FlushMark
           \/ PollNewest \/ Poll \/ (\E s \in Sessions : MarkSessionRead(s)) \/ Tick \/ Cancel
    PROVE  Still
<1>0. queue \in Seq(Event) /\ batch \in Seq(Event) /\ back \in {"select", "drain", "done"}
  BY DEF TypeOK
<1>1. UNCHANGED <<table, received, lost>>
  BY DEF StreamEnds, Reconnect, Exit, seedSessionStatuses, Take, FlushTick, StartDrain, EndDrain,
    FlushMark, PollNewest, Poll, Fetch, MarkSessionRead, Tick, Cancel, database, counters, history
<1>2. CASE Take
  <2>1. /\ fpc # "mark" /\ fpc' # "mark" /\ queue # <<>>
        /\ queue' = Tail(queue) /\ batch' = Append(batch, Head(queue))
    BY <1>2 DEF Take
  <2>2. Unstored' = Append(batch, Head(queue)) \o Tail(queue) /\ Unstored = batch \o queue
    BY <2>1 DEF Unstored
  <2>3. Append(batch, Head(queue)) \o Tail(queue) = batch \o queue
    BY <1>0, <2>1, TakeMoves
  <2> QED  BY <1>1, <2>2, <2>3 DEF Still
<1>3. CASE FlushMark
  <2>1. fpc = "mark" /\ fpc' # "mark" /\ batch' = <<>> /\ queue' = queue
    BY <1>0, <1>3 DEF FlushMark, Flushed
  <2> QED  BY <1>1, <2>1 DEF Still, Unstored
<1>4. CASE FlushTick \/ StartDrain \/ EndDrain \/ seedSessionStatuses
  <2>1. fpc # "mark" /\ fpc' # "mark" /\ UNCHANGED <<queue, batch>>
    BY <1>4 DEF FlushTick, StartDrain, EndDrain, seedSessionStatuses, Slots
  <2> QED  BY <1>1, <2>1 DEF Still, Unstored
<1>5. CASE \/ StreamEnds \/ Reconnect \/ Exit \/ PollNewest \/ Poll
           \/ (\E s \in Sessions : MarkSessionRead(s)) \/ Tick \/ Cancel
  <2>1. UNCHANGED <<fpc, queue, batch>>
    BY <1>5 DEF StreamEnds, Reconnect, Exit, PollNewest, Poll, Fetch, MarkSessionRead, Tick,
      Cancel, memory
  <2> QED  BY <1>1, <2>1 DEF Still, Unstored
<1> QED  BY <1>2, <1>3, <1>4, <1>5

(* Retention. *)
LEMMA PurgeEffect ==
    ASSUME TypeOK, StartCleanup \/ CleanupPass
    PROVE  Still \/ Purges
<1>1. UNCHANGED <<fpc, queue, batch, received, lost>>
  BY DEF StartCleanup, CleanupPass, memory, history
<1>2. Unstored' = Unstored
  BY <1>1 DEF Unstored
<1>3. DeleteEventsOlderThan(now - Retention) \/ UNCHANGED table
  BY DEF StartCleanup, CleanupPass, database
<1> QED  BY <1>1, <1>2, <1>3 DEF Still, Purges

-----------------------------------------------------------------------------
(* Order. *)

(* Every event lies in its type. *)
LEMMA AliveFacts ==
    ASSUME TypeOK
    PROVE  /\ Range(table) \subseteq Event /\ Range(Unstored) \subseteq Event
           /\ \A e \in Event : e.id \in Nat /\ e.at \in Nat
<1>1. \A e \in Event : e.id \in Nat /\ e.at \in Nat
  BY DEF Event
<1> QED  BY <1>1, TableFacts, UnstoredFacts

(* An arriving event is the last one. *)
LEMMA ArriveOrder ==
    ASSUME TypeOK, InOrder, Known, NEW e, Arrives(e)
    PROVE  InOrder' /\ (\A x \in Alive' : x \in Alive \/ x = e)
<1>0. /\ Unstored \in Seq(Event) /\ received \in Nat /\ now \in Nat
      /\ \A x \in Alive : x.id \in Nat /\ x.at \in Nat
  <2>1. Unstored \in Seq(Event)
    BY UnstoredFacts
  <2>2. received \in Nat /\ now \in Nat
    BY DEF TypeOK
  <2>3. \A x \in Alive : x.id \in Nat /\ x.at \in Nat
    BY AliveFacts DEF Alive
  <2> QED  BY <2>1, <2>2, <2>3
<1>1. /\ e \in Event /\ e.id = received + 1 /\ e.at = now /\ table' = table /\ received' = received + 1
  BY DEF Arrives
<1>2. \A x \in Alive : Precedes(x, e)
  BY <1>0, <1>1 DEF Known, Precedes
<1>3. CASE Unstored' = Unstored \o Just(e) /\ lost' = lost
  <2>2. Range(Unstored') = Range(Unstored) \cup {e} /\ Ids(Unstored') = Ids(Unstored) \cup {e.id}
    BY <1>0, <1>1, <1>3, OneMore
  <2>3. Ordered(Unstored')
    <3>1. Ordered(Unstored) /\ \A x \in Range(Unstored) : Precedes(x, e)
      BY <1>2 DEF InOrder, Alive
    <3> QED  BY <1>0, <1>1, <1>3, <3>1, OneMore
  <2>4. Ordered(table') /\ \A x \in Range(table'), f \in Range(Unstored') : Precedes(x, f)
    BY <1>1, <1>2, <2>2 DEF InOrder, Alive
  <2>5. ASSUME NEW n \in 1..received'
        PROVE  \/ n \in Ids(table') \cup Ids(Unstored') \cup lost'
               \/ \A x \in Range(table') \cup Range(Unstored') : n < x.id
    <3>1. CASE n = received + 1
      BY <1>1, <2>2, <3>1
    <3>2. CASE n # received + 1
      <4>1. n \in 1..received /\ n < e.id
        BY <1>0, <1>1, <3>2
      <4> QED  BY <1>1, <1>3, <2>2, <4>1 DEF InOrder
    <3> QED  BY <3>1, <3>2
  <2>6. \A x \in Alive' : x \in Alive \/ x = e
    BY <1>1, <2>2 DEF Alive
  <2> QED  BY <2>3, <2>4, <2>5, <2>6 DEF InOrder
<1>4. CASE Unstored' = Unstored /\ lost' = lost \cup {e.id}
  <2>1. ASSUME NEW n \in 1..received'
        PROVE  \/ n \in Ids(table') \cup Ids(Unstored') \cup lost'
               \/ \A x \in Range(table') \cup Range(Unstored') : n < x.id
    <3>1. n = e.id \/ n \in 1..received
      BY <1>0, <1>1
    <3> QED  BY <1>1, <1>4, <3>1 DEF InOrder
  <2>2. Ordered(table') /\ Ordered(Unstored') /\ \A x \in Range(table'), f \in Range(Unstored') : Precedes(x, f)
    BY <1>1, <1>4 DEF InOrder
  <2>3. \A x \in Alive' : x \in Alive
    BY <1>1, <1>4 DEF Alive
  <2> QED  BY <2>1, <2>2, <2>3 DEF InOrder
<1> QED  BY <1>3, <1>4 DEF Arrives

(* What retention leaves, came after what it removes. *)
LEMMA PurgeOrder ==
    ASSUME TypeOK, InOrder, Purges
    PROVE  InOrder' /\ Alive' \subseteq Alive /\ \A x \in Alive \ Alive' : x.at < now - Retention
<1> DEFINE cutoff == now - Retention
           keep == {i \in DOMAIN table : table[i].at >= cutoff}
<1>0. /\ now \in Nat /\ Retention \in Nat /\ DOMAIN table \subseteq Nat
      /\ \A i \in DOMAIN table : table[i].id \in Nat /\ table[i].at \in Nat
  <2>1. now \in Nat /\ Retention \in Nat
    BY DEF TypeOK
  <2>2. /\ DOMAIN table \subseteq Nat
        /\ \A i \in DOMAIN table : table[i].id \in Nat /\ table[i].at \in Nat
    BY TableFacts
  <2> QED  BY <2>1, <2>2
<1>1. /\ table' = [i \in keep |-> table[i]] /\ Unstored' = Unstored
      /\ received' = received /\ lost' = lost
  BY DEF Purges, DeleteEventsOlderThan, Restrict
<1>2. /\ DOMAIN table' = keep /\ \A i \in keep : table'[i] = table[i]
      /\ Range(table') = {table[i] : i \in keep} /\ Range(table') \subseteq Range(table)
  BY <1>1 DEF Range
<1>3. Ordered(table')
  BY <1>2 DEF InOrder, Ordered
<1>4. \A x \in Range(table'), f \in Range(Unstored') : Precedes(x, f)
  BY <1>1, <1>2 DEF InOrder
<1>5. ASSUME NEW i \in DOMAIN table, i \notin keep, NEW x \in Range(table') \cup Range(Unstored')
      PROVE  table[i].id < x.id
  <2>1. CASE x \in Range(Unstored')
    BY <1>1, <2>1 DEF InOrder, Precedes, Range
  <2>2. CASE x \in Range(table')
    <3>1. PICK j \in keep : x = table[j]  BY <1>2, <2>2
    <3>2. table[i].at < table[j].at
      BY <1>0, <1>5
    <3>3. i < j
      <4>1. ~(j < i)
        BY <1>0, <3>2 DEF InOrder, Ordered, Precedes
      <4>2. i # j  BY <1>5
      <4> QED  BY <1>0, <4>1, <4>2
    <3> QED  BY <3>1, <3>3 DEF InOrder, Ordered, Precedes
  <2> QED  BY <2>1, <2>2
<1>6. ASSUME NEW n \in 1..received'
      PROVE  \/ n \in Ids(table') \cup Ids(Unstored') \cup lost'
             \/ \A x \in Range(table') \cup Range(Unstored') : n < x.id
  <2>1. CASE n \in Ids(table) /\ n \notin Ids(table')
    <3>1. PICK i \in DOMAIN table : n = table[i].id
      BY <2>1 DEF Ids, Range
    <3>2. i \notin keep
      BY <1>2, <2>1, <3>1 DEF Ids
    <3> QED  BY <1>5, <3>1, <3>2
  <2>2. CASE n \notin Ids(table) \/ n \in Ids(table')
    BY <1>1, <1>2, <2>2 DEF InOrder
  <2> QED  BY <2>1, <2>2
<1>7. Alive' \subseteq Alive
  BY <1>1, <1>2 DEF Alive
<1>8. \A x \in Alive \ Alive' : x.at < cutoff
  BY <1>0, <1>1, <1>2 DEF Alive, Range
<1> QED  BY <1>1, <1>3, <1>4, <1>6, <1>7, <1>8 DEF InOrder

(* A batch goes behind what is stored. *)
LEMMA StoreOrder ==
    ASSUME TypeOK, InOrder, Stores
    PROVE  InOrder' /\ Alive' = Alive /\ Range(Unstored') \subseteq Range(Unstored)
<1>0. /\ queue \in Seq(Event) /\ batch \in Seq(Event) /\ Len(batch) \in Nat
      /\ DOMAIN batch = 1..Len(batch) /\ rowid \in Nat /\ DOMAIN table \subseteq 1..rowid
  BY LenProperties DEF TypeOK
<1> DEFINE new == (rowid + 1)..(rowid + Len(batch))
<1>1. /\ table' = [i \in DOMAIN table \cup new |->
                     IF i \in DOMAIN table THEN table[i] ELSE batch[i - rowid]]
      /\ Unstored = batch \o queue /\ Unstored' = queue /\ received' = received /\ lost' = lost
  BY DEF Stores, InsertEvents
<1>2. /\ DOMAIN table' = DOMAIN table \cup new
      /\ \A i \in DOMAIN table : table'[i] = table[i]
      /\ \A i \in new : i - rowid \in DOMAIN batch /\ table'[i] = batch[i - rowid] /\ i \notin DOMAIN table
      /\ \A i \in DOMAIN batch : rowid + i \in new /\ table'[rowid + i] = batch[i]
  <2>1. \A i \in new : i \notin DOMAIN table /\ i - rowid \in DOMAIN batch
    BY <1>0
  <2>2. \A i \in DOMAIN batch : rowid + i \in new /\ (rowid + i) - rowid = i
    BY <1>0
  <2> QED  BY <1>1, <2>1, <2>2
<1>3. Range(table') = Range(table) \cup Range(batch)
  <2> HIDE DEF new
  <2>1. \A x \in Range(table') : x \in Range(table) \cup Range(batch)
    BY <1>2 DEF Range
  <2>2. \A x \in Range(table) : x \in Range(table')
    BY <1>2 DEF Range
  <2>3. \A x \in Range(batch) : x \in Range(table')
    BY <1>2 DEF Range
  <2> QED  BY <2>1, <2>2, <2>3
<1>4. Range(Unstored) = Range(batch) \cup Range(queue)
  BY <1>0, <1>1, Together
<1>5. /\ Ordered(batch) /\ Ordered(queue)
      /\ \A e \in Range(batch), f \in Range(queue) : Precedes(e, f)
  BY <1>0, <1>1, OrderedConcat DEF InOrder
<1>6. \A e \in Range(table'), f \in Range(Unstored') : Precedes(e, f)
  BY <1>1, <1>3, <1>4, <1>5 DEF InOrder
<1>7. Ordered(table')
  <2> SUFFICES ASSUME NEW i \in DOMAIN table', NEW j \in DOMAIN table', i < j
               PROVE  Precedes(table'[i], table'[j])
    BY DEF Ordered
  <2>1. CASE i \in DOMAIN table /\ j \in DOMAIN table
    BY <1>2, <2>1 DEF InOrder, Ordered
  <2>2. CASE i \in DOMAIN table /\ j \in new
    <3>1. table'[i] \in Range(table) /\ table'[j] \in Range(batch)
      BY <1>2, <2>2 DEF Range
    <3> QED  BY <1>4, <3>1 DEF InOrder
  <2>3. CASE i \in new /\ j \in new
    <3>1. i - rowid < j - rowid
      BY <1>0, <2>3
    <3> QED  BY <1>2, <1>5, <2>3, <3>1 DEF Ordered
  <2>4. CASE i \in new /\ j \in DOMAIN table
    BY <1>0, <2>4
  <2> QED  BY <1>2, <2>1, <2>2, <2>3, <2>4
<1>8. Alive' = Alive
  BY <1>1, <1>3, <1>4 DEF Alive
<1>9. Ids(table') \cup Ids(Unstored') = Ids(table) \cup Ids(Unstored)
  BY <1>1, <1>3, <1>4 DEF Ids
<1>10. \A n \in 1..received' : \/ n \in Ids(table') \cup Ids(Unstored') \cup lost'
                               \/ \A x \in Range(table') \cup Range(Unstored') : n < x.id
  BY <1>1, <1>8, <1>9 DEF InOrder, Alive
<1> QED  BY <1>1, <1>4, <1>5, <1>6, <1>7, <1>8, <1>10 DEF InOrder

(* What is dropped is named as lost. *)
LEMMA DropOrder ==
    ASSUME TypeOK, InOrder, NEW s, NEW t, Drops(s, t)
    PROVE  /\ InOrder' /\ Alive' \subseteq Alive /\ Range(Unstored') \subseteq Range(Unstored)
           /\ \A x \in Alive \ Alive' : x.id \in lost'
<1>1. /\ s \in Seq(Event) /\ t \in Seq(Event) /\ Unstored = s \o t /\ Unstored' = t
      /\ table' = table /\ received' = received /\ lost' = lost \cup Ids(s)
  BY DEF Drops
<1>2. Range(Unstored) = Range(s) \cup Range(t) /\ Ids(Unstored) = Ids(s) \cup Ids(t)
  BY <1>1, Together
<1>3. Ordered(t)
  BY <1>1, OrderedConcat DEF InOrder
<1>4. Alive' \subseteq Alive /\ \A x \in Alive \ Alive' : x \in Range(s)
  BY <1>1, <1>2 DEF Alive
<1>5. \A x \in Alive \ Alive' : x.id \in lost'
  BY <1>1, <1>4 DEF Ids
<1>6. \A n \in 1..received' : \/ n \in Ids(table') \cup Ids(Unstored') \cup lost'
                              \/ \A x \in Range(table') \cup Range(Unstored') : n < x.id
  BY <1>1, <1>2 DEF InOrder
<1> QED  BY <1>1, <1>2, <1>3, <1>4, <1>5, <1>6 DEF InOrder

(* A step that moves no event. *)
LEMMA StillOrder ==
    ASSUME InOrder, Still
    PROVE  InOrder' /\ Alive' = Alive /\ Range(Unstored') = Range(Unstored)
<1>1. table' = table /\ received' = received /\ lost' = lost /\ Unstored' = Unstored
  BY DEF Still
<1> QED  BY <1>1 DEF InOrder, Alive

(* Every step is one of these. *)
LEMMA Effect ==
    ASSUME TypeOK, Slots, Next
    PROVE  \/ Still \/ Purges \/ Stores \/ Drops(batch, queue) \/ Drops(Unstored, <<>>)
           \/ \E e : Arrives(e)
<1>1. CASE FlushInsert
  BY <1>1, FlushInsertEffect
<1>2. CASE Restart
  BY <1>2, RestartEffect
<1>3. ASSUME NEW s \in Sessions, NEW k \in Kinds, Receive(s, k)
      PROVE  \E e : Arrives(e)
  <2> DEFINE e == [id |-> received + 1, session |-> s, kind |-> k, at |-> now]
  <2>1. Arrives(e)
    BY <1>3, ReceiveEffect
  <2> QED  BY <2>1
<1>4. CASE StartCleanup \/ CleanupPass
  BY <1>4, PurgeEffect
<1>5. CASE \/ StreamEnds \/ Reconnect \/ Exit \/ seedSessionStatuses
           \/ Take \/ FlushTick \/ StartDrain \/ EndDrain \/ FlushMark
           \/ PollNewest \/ Poll \/ (\E s \in Sessions : MarkSessionRead(s)) \/ Tick \/ Cancel
  BY <1>5, StillEffect
<1> QED
  BY <1>1, <1>2, <1>3, <1>4, <1>5 DEF Next, CollectorNext, FlusherNext, ClientNext

(* Counters only grow, and nothing that was lost is found again. *)
LEMMA Onward ==
    ASSUME TypeOK, Next
    PROVE  /\ now \in Nat /\ received \in Nat /\ restarts \in Nat
           /\ now' \in Nat /\ received' \in Nat /\ restarts' \in Nat
           /\ now <= now' /\ received <= received' /\ restarts <= restarts' /\ lost \subseteq lost'
<1>0. now \in Nat /\ received \in Nat /\ restarts \in Nat
  BY DEF TypeOK
<1>1. /\ now' = now \/ now' = now + 1
      /\ received' = received \/ received' = received + 1
      /\ restarts' = restarts \/ restarts' = restarts + 1
  BY DEF Next, CollectorNext, FlusherNext, ClientNext, StartCleanup, CleanupPass,
    seedSessionStatuses, Receive, StreamEnds, Reconnect, Exit, Take, FlushTick, StartDrain, EndDrain,
    FlushInsert, FlushMark, PollNewest, Poll, Fetch, MarkSessionRead, Tick, Cancel, Restart, counters
<1>2. lost \subseteq lost'
  BY DEF Next, CollectorNext, FlusherNext, ClientNext, StartCleanup, CleanupPass,
    seedSessionStatuses, Receive, StreamEnds, Reconnect, Exit, Take, FlushTick, StartDrain, EndDrain,
    FlushInsert, FlushMark, PollNewest, Poll, Fetch, MarkSessionRead, Tick, Cancel, Restart, history
<1> QED  BY <1>0, <1>1, <1>2

(* The events stay in order, and only a new one appears. *)
LEMMA OrderStep ==
    ASSUME TypeOK, Slots, Known, InOrder, Next
    PROVE  InOrder' /\ Known' /\ Range(table') \subseteq Alive
<1>0. /\ now \in Nat /\ received \in Nat /\ now' \in Nat /\ received' \in Nat
      /\ now <= now' /\ received <= received'
  BY Onward
<1>1. \A x \in Alive : x.id \in Nat /\ x.at \in Nat
  BY AliveFacts DEF Alive
<1>2. ASSUME \A x \in Alive' : x \in Alive
      PROVE  Known'
  BY <1>0, <1>1, <1>2 DEF Known
<1>3. CASE Still \/ Purges \/ Stores \/ Drops(batch, queue) \/ Drops(Unstored, <<>>)
  <2>1. InOrder' /\ Alive' \subseteq Alive
    BY <1>3, StillOrder, PurgeOrder, StoreOrder, DropOrder
  <2> QED  BY <1>2, <2>1 DEF Alive
<1>4. ASSUME NEW e, Arrives(e)
      PROVE  InOrder' /\ Known' /\ Range(table') \subseteq Alive
  <2>1. InOrder' /\ \A x \in Alive' : x \in Alive \/ x = e
    BY <1>4, ArriveOrder
  <2>2. e.id = received' /\ e.at = now /\ table' = table
    BY <1>4 DEF Arrives
  <2>3. Known'
    BY <1>0, <1>1, <2>1, <2>2 DEF Known
  <2> QED  BY <2>1, <2>2, <2>3 DEF Alive
<1> QED  BY <1>3, <1>4, Effect

-----------------------------------------------------------------------------
(* Marks. *)

(* A session with news is flagged, or will be. *)
LEMMA UnreadStep ==
    ASSUME TypeOK, Slots, UnreadKept, Next
    PROVE  UnreadKept'
<1>0. queue \in Seq(Event) /\ batch \in Seq(Event)
  BY DEF TypeOK
<1>1. Triggers(batch \o queue) = Triggers(batch) \cup Triggers(queue)
  BY <1>0, Together
<1>2. Triggers(batch' \o queue') = Triggers(batch') \cup Triggers(queue')
  <2>1. queue' \in Seq(Event) /\ batch' \in Seq(Event)
    BY TypeStep DEF TypeOK
  <2> QED  BY <2>1, Together
<1>3. CASE UNCHANGED <<batch, queue, unread, fresh, unmarked>>
  BY <1>3 DEF UnreadKept
<1>4. CASE \/ StartCleanup \/ CleanupPass \/ seedSessionStatuses \/ StreamEnds \/ Reconnect \/ Exit
           \/ FlushTick \/ StartDrain \/ EndDrain \/ PollNewest \/ Poll \/ Tick \/ Cancel
  BY <1>3, <1>4 DEF StartCleanup, CleanupPass, seedSessionStatuses, StreamEnds, Reconnect, Exit,
    FlushTick, StartDrain, EndDrain, PollNewest, Poll, Fetch, Tick, Cancel, memory, history
<1>5. ASSUME NEW s \in Sessions, NEW k \in Kinds, Receive(s, k)
      PROVE  UnreadKept'
  <2> DEFINE e == [id |-> received + 1, session |-> s, kind |-> k, at |-> now]
  <2>1. /\ fresh' = fresh \cup Triggers(Just(e)) /\ UNCHANGED <<batch, unread>>
        /\ queue' = IF Full THEN queue ELSE Append(queue, e)
        /\ unmarked' = IF Full THEN unmarked \cup Triggers(Just(e)) ELSE unmarked
    BY <1>5 DEF Receive, Just
  <2>2. e \in Event
    BY <1>5, ReceiveEffect DEF Arrives
  <2> HIDE DEF e
  <2>3. Triggers(Append(queue, e)) = Triggers(queue) \cup Triggers(Just(e))
    BY <1>0, <2>2, OneMore
  <2> QED  BY <1>1, <1>2, <2>1, <2>3 DEF UnreadKept
<1>6. CASE Take
  <2>1. queue # <<>> /\ queue' = Tail(queue) /\ batch' = Append(batch, Head(queue))
    BY <1>6 DEF Take
  <2>2. batch' \o queue' = batch \o queue
    BY <1>0, <2>1, TakeMoves
  <2>3. UNCHANGED <<unread, fresh, unmarked>>
    BY <1>6 DEF Take, history
  <2> QED  BY <2>2, <2>3 DEF UnreadKept
<1>7. CASE FlushInsert
  <2>1. UNCHANGED <<queue, unread, fresh, unmarked>> /\ (batch' = batch \/ Triggers(batch) = {})
    BY <1>7 DEF FlushInsert, Flushed
  <2> QED  BY <1>1, <1>2, <2>1 DEF UnreadKept
<1>8. CASE FlushMark
  <2>1. UNCHANGED <<queue, fresh>> /\ unread' \cup unmarked' = unread \cup unmarked \cup Triggers(batch)
    BY <1>8 DEF FlushMark
  <2> QED  BY <1>1, <1>2, <2>1 DEF UnreadKept
<1>9. ASSUME NEW s \in Sessions, MarkSessionRead(s)
      PROVE  UnreadKept'
  BY <1>9 DEF MarkSessionRead, memory, UnreadKept
<1>10. CASE Restart
  BY <1>10 DEF Restart, UnreadKept
<1> QED
  BY <1>4, <1>5, <1>6, <1>7, <1>8, <1>9, <1>10 DEF Next, CollectorNext, FlusherNext, ClientNext

-----------------------------------------------------------------------------
(* Paging. *)

(* The ends of the client's cursors and ids after a step. *)
LEMMA NextCursorFacts ==
    ASSUME TypeOK'
    PROVE  /\ cursors' # {} => Max(cursors') \in cursors' /\ \A c \in cursors' : c <= Max(cursors')
           /\ seen' # {} => Min(seen') \in seen' /\ \A n \in seen' : Min(seen') <= n
<1>1. cursors' \in SUBSET (Beginning..MaxClock) /\ seen' \in SUBSET (1..MaxEvents)
  BY DEF TypeOK
<1> QED  BY <1>1, EndFacts

(* Row ids, event ids and times go together. *)
LEMMA RowOrder ==
    ASSUME TypeOK, InOrder, NEW i \in DOMAIN table, NEW j \in DOMAIN table
    PROVE  /\ table[i].at < table[j].at => table[i].id < table[j].id
           /\ table[i].id < table[j].id => Sooner(i, j)
           /\ table[i].id \in Nat /\ table[j].id \in Nat /\ table[i].at \in Nat /\ table[j].at \in Nat
<1>1. /\ i \in Nat /\ j \in Nat
      /\ table[i].id \in Nat /\ table[j].id \in Nat /\ table[i].at \in Nat /\ table[j].at \in Nat
  BY TableFacts
<1>2. /\ i < j => table[i].id < table[j].id /\ table[i].at <= table[j].at
      /\ j < i => table[j].id < table[i].id /\ table[j].at <= table[i].at
  BY DEF InOrder, Ordered, Precedes
<1>3. table[i].at < table[j].at => i < j
  BY <1>1, <1>2
<1>4. table[i].id < table[j].id => i < j
  BY <1>1, <1>2
<1> QED  BY <1>1, <1>2, <1>3, <1>4 DEF Sooner

(* A step that fetches nothing leaves the client where it was. *)
LEMMA NotPolled ==
    ASSUME TypeOK, Slots, Known, InOrder, Polled, CursorComplete, Next, UNCHANGED <<cursors, seen>>
    PROVE  Polled' /\ CursorComplete'
<1>0. /\ now \in Nat /\ received \in Nat /\ now' \in Nat /\ received' \in Nat
      /\ now <= now' /\ received <= received'
  BY Onward
<1>1. cursors \in SUBSET Int /\ seen \in SUBSET Int
  BY CursorFacts
<1>2. \A x \in Alive : x.id \in Nat /\ x.at \in Nat
  BY AliveFacts DEF Alive
<1>3. /\ \A x \in Alive' : x \in Alive \/ x.id = received + 1
      /\ \A x \in Range(Unstored') : x \in Range(Unstored) \/ x.at = now
  <2>1. CASE Still \/ Purges \/ Stores \/ Drops(batch, queue) \/ Drops(Unstored, <<>>)
    <3>1. Alive' \subseteq Alive
      BY <2>1, StillOrder, PurgeOrder, StoreOrder, DropOrder
    <3>2. Range(Unstored') \subseteq Range(Unstored)
      BY <2>1, StillOrder, StoreOrder, DropOrder DEF Purges
    <3> QED  BY <3>1, <3>2
  <2>2. ASSUME NEW e, Arrives(e)
        PROVE  /\ \A x \in Alive' : x \in Alive \/ x.id = received + 1
               /\ \A x \in Range(Unstored') : x \in Range(Unstored) \/ x.at = now
    <3>1. Unstored \in Seq(Event)
      BY UnstoredFacts
    <3>2. /\ e \in Event /\ e.id = received + 1 /\ e.at = now
          /\ Unstored' = Unstored \o Just(e) \/ Unstored' = Unstored
      BY <2>2 DEF Arrives
    <3>3. Range(Unstored') \subseteq Range(Unstored) \cup {e}
      BY <3>1, <3>2, OneMore
    <3>4. \A x \in Alive' : x \in Alive \/ x = e
      BY <2>2, ArriveOrder
    <3> QED  BY <3>2, <3>3, <3>4
  <2> QED  BY <2>1, <2>2, Effect
<1>4. Polled'
  <2>1. \A c \in cursors : c <= now' /\ \A e \in Range(Unstored') : c <= e.at
    BY <1>0, <1>1, <1>3 DEF Polled
  <2>2. \A n \in seen : n <= received' /\ \A e \in Alive' : (\A c \in cursors : c < e.at) => n < e.id
    BY <1>0, <1>1, <1>3 DEF Polled
  <2> QED  BY <2>1, <2>2 DEF Polled
<1>5. CursorComplete'
  <2> SUFFICES ASSUME seen # {}, NEW e \in Range(table'),
                      Beginning \in cursors \/ e.id > Min(seen)
               PROVE  e.id \in seen \/ e.at > Max(cursors) \/ e.at \in cursors
    BY DEF CursorComplete
  <2>1. cursors # {} /\ Max(cursors) \in cursors /\ Max(cursors) \in Int
    BY CursorFacts DEF Polled
  <2>2. e \in Range(table) \/ e \in Range(Unstored)
    BY OrderStep DEF Alive
  <2>3. CASE e \in Range(table)
    BY <2>3 DEF CursorComplete
  <2>4. CASE e \in Range(Unstored)
    <3>1. Max(cursors) <= e.at /\ e.at \in Nat
      BY <1>2, <2>1, <2>4 DEF Polled, Alive
    <3> QED  BY <2>1, <3>1
  <2> QED  BY <2>2, <2>3, <2>4
<1> QED  BY <1>4, <1>5

(* A page that starts behind all cursors keeps the client between what it   *)
(* was given and what is still to be stored.                               *)
LEMMA FetchPolled ==
    ASSUME TypeOK, Known, InOrder, Polled, NEW page \in SUBSET DOMAIN table,
           NEW since \in SUBSET Int, Fetch(page, since),
           \A c \in since : c < table[LastRow(page)].at
    PROVE  Polled'
<1> DEFINE top == table[LastRow(page)].at
<1>1. page # {} /\ cursors' = cursors \cup since \cup {top} /\ seen' = seen \cup {table[i].id : i \in page}
  BY DEF Fetch
<1>2. LastRow(page) \in page /\ \A i \in page : table[i].at <= top
  BY <1>1, LastRowFacts
<1>3. UNCHANGED <<now, received, table>> /\ Unstored' = Unstored
  BY DEF Fetch, memory, database, counters, Unstored
<1>4. now \in Nat /\ received \in Nat /\ cursors \in SUBSET Int /\ seen \in SUBSET Int
  <2>1. now \in Nat /\ received \in Nat
    BY DEF TypeOK
  <2> QED  BY <2>1, CursorFacts
<1>5. \A i \in page : table[i].id \in Nat /\ table[i].at \in Nat /\ table[i] \in Range(table)
  BY TableFacts
<1>6. \A x \in Alive : x.id \in Nat /\ x.at \in Nat
  BY AliveFacts DEF Alive
<1>7. top \in Nat /\ top <= now /\ \A e \in Range(Unstored) : top <= e.at
  BY <1>2, <1>5 DEF Known, Alive, InOrder, Precedes
<1>8. \A c \in since : c < top
  OBVIOUS
<1> HIDE DEF top
<1>9. \A c \in cursors' : c <= now' /\ \A e \in Range(Unstored') : c <= e.at
  <2>1. \A c \in since : c <= now /\ \A e \in Range(Unstored) : c <= e.at
    BY <1>4, <1>6, <1>7, <1>8 DEF Alive
  <2> QED  BY <1>1, <1>3, <1>7, <2>1 DEF Polled
<1>10. ASSUME NEW i \in page, NEW e \in Alive, top < e.at
       PROVE  table[i].id < e.id
  <2>1. CASE e \in Range(Unstored)
    BY <1>5, <2>1 DEF InOrder, Precedes
  <2>2. CASE e \in Range(table)
    <3>1. PICK j \in DOMAIN table : e = table[j]
      BY <2>2 DEF Range
    <3>2. table[i].at < table[j].at
      BY <1>2, <1>5, <1>6, <1>7, <1>10, <3>1
    <3> QED  BY <3>1, <3>2, RowOrder
  <2> QED  BY <2>1, <2>2 DEF Alive
<1>11. Alive' = Alive
  BY <1>3 DEF Alive
<1>12. ASSUME NEW n \in seen'
       PROVE  n <= received' /\ \A e \in Alive' : (\A c \in cursors' : c < e.at) => n < e.id
  <2>1. CASE n \in seen
    BY <1>1, <1>3, <1>11, <2>1 DEF Polled
  <2>2. CASE n \notin seen
    <3>1. PICK i \in page : n = table[i].id
      BY <1>1, <1>12, <2>2
    <3>2. n <= received
      BY <1>5, <3>1 DEF Known, Alive
    <3> QED  BY <1>1, <1>3, <1>10, <1>11, <3>1, <3>2
  <2> QED  BY <2>1, <2>2
<1>13. cursors' # {} /\ seen' # {}
  BY <1>1
<1> QED  BY <1>9, <1>12, <1>13 DEF Polled

(* The first page. *)
LEMMA PollNewestStep ==
    ASSUME TypeOK, TypeOK', Known, InOrder, Polled, PollNewest
    PROVE  Polled' /\ CursorComplete'
<1> DEFINE page == ListNewest(PageLimit)
           top == table[LastRow(page)].at
<1>1. page \in SUBSET DOMAIN table
  BY DEF ListNewest, Newest
<1>2. /\ cursors = {} /\ seen = {} /\ page # {} /\ UNCHANGED table
      /\ cursors' = {top} /\ seen' = {table[i].id : i \in page}
  BY DEF PollNewest, Fetch, Polled, database
<1>3. Polled'
  BY <1>1, FetchPolled DEF PollNewest
<1>4. \A i \in page, j \in DOMAIN table : Sooner(i, j) => j \in page
  BY NewestFacts DEF ListNewest
<1>5. top \in Nat
  BY <1>1, <1>2, LastRowFacts, TableFacts
<1> HIDE DEF page, top
<1>6. ASSUME NEW e \in Range(table), e.id > Min(seen')
      PROVE  e.id \in seen'
  <2>1. Min(seen') \in seen'
    BY <1>2, NextCursorFacts
  <2>2. PICK i \in page : Min(seen') = table[i].id
    BY <1>2, <2>1
  <2>3. PICK j \in DOMAIN table : e = table[j]
    BY DEF Range
  <2>4. table[i].id < table[j].id
    BY <1>1, <1>6, <2>2, <2>3, RowOrder
  <2>5. j \in page
    BY <1>1, <1>4, <2>4, RowOrder
  <2> QED  BY <1>2, <2>3, <2>5
<1>7. Beginning \notin cursors'
  BY <1>2, <1>5 DEF Beginning
<1>8. CursorComplete'
  BY <1>2, <1>6, <1>7 DEF CursorComplete
<1> QED  BY <1>3, <1>8

(* A next page. *)
LEMMA PollStep ==
    ASSUME TypeOK, TypeOK', Known, InOrder, Polled, CursorComplete, Poll
    PROVE  Polled' /\ CursorComplete'
<1> DEFINE since == IF cursors = {} THEN Beginning ELSE Max(cursors)
           page == ListEvents(since, PageLimit)
           top == table[LastRow(page)].at
<1>1. page \in SUBSET DOMAIN table /\ \A i \in page : table[i].at > since
  BY DEF ListEvents, Oldest, Since
<1>2. Fetch(page, {since})
  BY DEF Poll
<1>3. /\ page # {} /\ UNCHANGED table
      /\ cursors' = cursors \cup {since} \cup {top} /\ seen' = seen \cup {table[i].id : i \in page}
  BY <1>2 DEF Fetch, database
<1>4. LastRow(page) \in page /\ LastRow(page) \in DOMAIN table
  BY <1>1, <1>3, LastRowFacts
<1>5. \A i \in DOMAIN table : table[i].at \in Nat /\ table[i].id \in Nat
  BY TableFacts
<1>6. since \in Int /\ (since = Beginning \/ (cursors # {} /\ since = Max(cursors)))
      /\ \A c \in cursors : c \in Int /\ c <= since
  BY CursorFacts DEF Beginning
<1>7. top \in Nat /\ since < top
  BY <1>1, <1>4, <1>5, <1>6
<1>8. \A i \in page, j \in DOMAIN table : table[j].at > since /\ Sooner(j, i) => j \in page
  BY OldestFacts DEF ListEvents, Since
<1>9. Polled'
  <2>1. \A c \in {since} : c < table[LastRow(page)].at
    BY <1>7
  <2>2. {since} \in SUBSET Int
    BY <1>6
  <2> HIDE DEF since, page
  <2> QED  BY <1>1, <1>2, <2>1, <2>2, FetchPolled
<1> HIDE DEF page, since, top
<1>10. Max(cursors') = top
  <2>1. Max(cursors') \in cursors' /\ \A c \in cursors' : c <= Max(cursors')
    BY <1>3, NextCursorFacts
  <2>2. \A c \in cursors' : c \in Int /\ c <= top
    BY <1>3, <1>6, <1>7
  <2>3. top <= Max(cursors')
    BY <1>3, <2>1
  <2>4. Max(cursors') \in Int /\ Max(cursors') <= top
    BY <2>1, <2>2
  <2> QED  BY <1>7, <2>3, <2>4
<1>11. ASSUME NEW j \in DOMAIN table, table[j].at < since,
              Beginning \in cursors' \/ table[j].id > Min(seen')
       PROVE  table[j].id \in seen' \/ table[j].at \in cursors'
  <2>1. since # Beginning /\ cursors # {} /\ since = Max(cursors) /\ seen # {}
    BY <1>5, <1>6, <1>11 DEF Beginning, Polled
  <2>2. Beginning \in cursors \/ table[j].id > Min(seen)
    <3>1. CASE Beginning \in cursors'
      BY <1>3, <1>7, <2>1, <3>1 DEF Beginning
    <3>2. CASE table[j].id > Min(seen')
      <4>1. Min(seen') \in seen' /\ Min(seen) \in Int /\ \A n \in seen : n \in Int /\ Min(seen) <= n
        BY <1>3, <2>1, CursorFacts, NextCursorFacts
      <4>2. \A i \in page : ~(table[j].id > table[i].id)
        <5> SUFFICES ASSUME NEW i \in page
                     PROVE  ~(table[j].id > table[i].id)
          OBVIOUS
        <5>1. i \in DOMAIN table /\ table[j].at < table[i].at
          BY <1>1, <1>5, <1>6, <1>11
        <5> QED  BY <1>5, <5>1, RowOrder
      <4>3. Min(seen') \in seen
        BY <1>3, <3>2, <4>1, <4>2
      <4> QED  BY <1>5, <3>2, <4>1, <4>3
    <3> QED  BY <1>11, <3>1, <3>2
  <2>3. ~(table[j].at > Max(cursors))
    BY <1>5, <1>6, <1>11, <2>1
  <2> QED  BY <1>3, <2>1, <2>2, <2>3 DEF CursorComplete, Range
<1>12. ASSUME NEW j \in DOMAIN table, table[j].at > since, table[j].at < top
       PROVE  table[j].id \in seen'
  <2>1. Sooner(j, LastRow(page))
    BY <1>12 DEF Sooner, top
  <2> QED  BY <1>3, <1>4, <1>8, <1>12, <2>1
<1>13. CursorComplete'
  <2> SUFFICES ASSUME NEW j \in DOMAIN table, Beginning \in cursors' \/ table[j].id > Min(seen')
               PROVE  \/ table[j].id \in seen' \/ table[j].at > Max(cursors')
                      \/ table[j].at \in cursors'
    BY <1>3 DEF CursorComplete, Range
  <2>1. \/ table[j].at < since \/ table[j].at = since \/ table[j].at = top \/ table[j].at > top
        \/ table[j].at > since /\ table[j].at < top
    BY <1>5, <1>6, <1>7
  <2> QED  BY <1>3, <1>10, <1>11, <1>12, <2>1
<1> QED  BY <1>9, <1>13

(* A paging client misses nothing. *)
LEMMA CursorStep ==
    ASSUME TypeOK, Slots, Known, InOrder, Polled, CursorComplete, Next
    PROVE  Polled' /\ CursorComplete'
<1>1. CASE Poll \/ PollNewest
  BY <1>1, TypeStep, PollStep, PollNewestStep
<1>2. CASE ~(Poll \/ PollNewest)
  <2>1. UNCHANGED <<cursors, seen>>
    BY <1>2 DEF Next, CollectorNext, FlusherNext, ClientNext, StartCleanup, CleanupPass,
      seedSessionStatuses, Receive, StreamEnds, Reconnect, Exit, Take, FlushTick, StartDrain,
      EndDrain, FlushInsert, FlushMark, MarkSessionRead, Tick, Cancel, Restart, client
  <2> QED  BY <2>1, NotPolled
<1> QED  BY <1>1, <1>2

-----------------------------------------------------------------------------
(* Statuses. *)

Starting == {"cleanup", "seed"}

(* A step that changes no session's status and takes away only what is      *)
(* named as lost or out of date.                                           *)
LEMMA TruthStill ==
    ASSUME TypeOK, TruthKept, Next, truth' = truth,
           \A x \in Alive' : x \in Alive,
           \A x \in Alive \ Alive' : x.id \in lost' \/ x.at < now - Retention,
           pc' \in Starting => pc \in Starting \/ restarts' = restarts + 1
    PROVE  TruthKept'
<1>0. /\ now \in Nat /\ received \in Nat /\ restarts \in Nat /\ Retention \in Nat
      /\ now' \in Nat /\ received' \in Nat /\ restarts' \in Nat
      /\ now <= now' /\ received <= received' /\ restarts <= restarts' /\ lost \subseteq lost'
  BY Onward
<1> SUFFICES ASSUME NEW s \in Sessions
             PROVE  TruthKept!(s)'
  BY DEF TruthKept
<1>1. truth[s].id \in Nat /\ truth[s].at \in Nat /\ truth[s].life \in Nat
  BY DEF TypeOK
<1>2. truth[s].id <= received' /\ truth[s].life <= restarts'
  BY <1>0, <1>1 DEF TruthKept
<1>3. pc' \in Starting /\ truth[s].id > 0 => truth[s].life < restarts'
  BY <1>0, <1>1 DEF TruthKept, Starting
<1>4. \A e \in Alive' : Carries(e, s) => e.id <= truth[s].id
  BY DEF TruthKept
<1>5. ASSUME truth[s].id > 0
      PROVE  \/ \E e \in Alive' : /\ e.id = truth[s].id /\ e.at = truth[s].at
                                 /\ Carries(e, s) /\ e.kind = truth[s].status
             \/ truth[s].id \in lost'
             \/ truth[s].at < now' - Retention
  <2>1. CASE \/ truth[s].id \in lost
             \/ truth[s].at < now - Retention
    BY <1>0, <1>1, <2>1
  <2>2. ASSUME NEW e \in Alive, e.id = truth[s].id, e.at = truth[s].at,
               Carries(e, s), e.kind = truth[s].status, e \notin Alive'
        PROVE  \/ truth[s].id \in lost'
               \/ truth[s].at < now' - Retention
    BY <1>0, <1>1, <2>2
  <2> QED  BY <1>5, <2>1, <2>2 DEF TruthKept
<1> QED  BY <1>2, <1>3, <1>4, <1>5 DEF TruthKept, Starting

(* A new event. *)
LEMMA TruthReceive ==
    ASSUME TypeOK, Slots, Known, InOrder, TruthKept, Next,
           NEW s \in Sessions, NEW k \in Kinds, Receive(s, k)
    PROVE  TruthKept'
<1> DEFINE e == [id |-> received + 1, session |-> s, kind |-> k, at |-> now]
<1>0. /\ now \in Nat /\ received \in Nat /\ restarts \in Nat /\ received' = received + 1
      /\ pc' \notin Starting /\ restarts' = restarts /\ now' = now /\ lost \subseteq lost'
  BY Onward DEF Receive, Starting
<1>1. /\ e.id = received + 1 /\ e.at = now /\ e.session = s /\ e.kind = k
      /\ truth' = IF HasStatus(e)
                  THEN [truth EXCEPT ![s] = [status |-> k, id |-> e.id, at |-> now,
                                             life |-> restarts]]
                  ELSE truth
  BY DEF Receive
<1>2. Arrives(e)
  BY ReceiveEffect
<1> HIDE DEF e
<1>3. \A x \in Alive' : x \in Alive \/ x = e
  BY <1>2, ArriveOrder
<1>4. Alive \subseteq Alive' /\ (e \in Alive' \/ e.id \in lost')
  <2>1. Unstored \in Seq(Event) /\ e \in Event /\ table' = table
    BY <1>2, UnstoredFacts DEF Arrives
  <2>2. Range(Unstored \o Just(e)) = Range(Unstored) \cup {e}
    BY <2>1, OneMore
  <2>3. \/ Unstored' = Unstored \o Just(e)
        \/ Unstored' = Unstored /\ e.id \in lost'
    BY <1>2 DEF Arrives
  <2> QED  BY <2>1, <2>2, <2>3 DEF Alive
<1>5. \A x \in Alive : x.id \in Nat /\ x.id <= received
  BY AliveFacts DEF Alive, Known
<1>6. truth \in [Sessions -> [status : {NoStatus, "busy", "idle"}, id : 0..MaxEvents,
                              at : 0..MaxClock, life : Nat]]
  BY DEF TypeOK
<1>7. \A t \in Sessions : truth[t].id \in Nat /\ truth[t].life \in Nat
  BY <1>6
<1>8. ASSUME HasStatus(e)
      PROVE  TruthKept!(s)'
  <2>1. truth'[s] = [status |-> k, id |-> e.id, at |-> now, life |-> restarts]
    BY <1>1, <1>6, <1>8
  <2>2. /\ truth'[s].status = k /\ truth'[s].id = received + 1 /\ truth'[s].at = now
        /\ truth'[s].life = restarts
    BY <1>1, <2>1
  <2> QED
    BY <1>0, <1>1, <1>3, <1>4, <1>5, <1>8, <2>2 DEF Carries, Starting
<1>9. ASSUME NEW t \in Sessions, truth'[t] = truth[t], ~Carries(e, t)
      PROVE  TruthKept!(t)'
  BY <1>0, <1>3, <1>4, <1>7, <1>9 DEF TruthKept, Starting
<1>10. ASSUME NEW t \in Sessions, t # s \/ ~HasStatus(e)
       PROVE  truth'[t] = truth[t] /\ ~Carries(e, t)
  BY <1>1, <1>6, <1>10 DEF Carries
<1> QED  BY <1>8, <1>9, <1>10 DEF TruthKept

(* The last status event of a session is still to be found, or it is known  *)
(* why not.                                                                *)
LEMMA TruthStep ==
    ASSUME TypeOK, Slots, Known, InOrder, TruthKept, Next
    PROVE  TruthKept'
<1>1. CASE \E s \in Sessions, k \in Kinds : Receive(s, k)
  BY <1>1, TruthReceive
<1>2. CASE ~(\E s \in Sessions, k \in Kinds : Receive(s, k))
  <2>1. truth' = truth /\ (pc' \in Starting => pc \in Starting \/ restarts' = restarts + 1)
    BY <1>2 DEF Next, CollectorNext, FlusherNext, ClientNext, StartCleanup, CleanupPass,
      seedSessionStatuses, StreamEnds, Reconnect, Exit, Take, FlushTick, StartDrain, EndDrain,
      FlushInsert, FlushMark, PollNewest, Poll, Fetch, MarkSessionRead, Tick, Cancel, Restart,
      memory, history, Starting
  <2>2. \/ Still \/ Purges \/ Stores \/ Drops(batch, queue) \/ Drops(Unstored, <<>>)
    <3>1. CASE FlushInsert
      BY <3>1, FlushInsertEffect
    <3>2. CASE Restart
      BY <3>2, RestartEffect
    <3>3. CASE StartCleanup \/ CleanupPass
      BY <3>3, PurgeEffect
    <3>4. CASE \/ StreamEnds \/ Reconnect \/ Exit \/ seedSessionStatuses
               \/ Take \/ FlushTick \/ StartDrain \/ EndDrain \/ FlushMark
               \/ PollNewest \/ Poll \/ (\E s \in Sessions : MarkSessionRead(s)) \/ Tick \/ Cancel
      BY <3>4, StillEffect
    <3> QED
      BY <1>2, <3>1, <3>2, <3>3, <3>4 DEF Next, CollectorNext, FlusherNext, ClientNext
  <2>3. Alive' \subseteq Alive /\ \A x \in Alive \ Alive' : x.id \in lost' \/ x.at < now - Retention
    BY <2>2, StillOrder, PurgeOrder, StoreOrder, DropOrder
  <2> QED  BY <2>1, <2>3, TruthStill
<1> QED  BY <1>1, <1>2

(* What the seeding reads back. *)
LEMMA SeedReads ==
    ASSUME TypeOK, Slots, InOrder, TruthKept, fpc = "off", NEW s \in Sessions,
           truth[s].id > 0, truth[s].id \notin lost, truth[s].at > now - SeedWindow,
           NEW rows, rows = Since(now - SeedWindow)
    PROVE  Seeded(rows, s) = truth[s].status
<1>0. /\ now \in Int /\ SeedWindow \in Int /\ Retention \in Int /\ SeedWindow <= Retention
      /\ truth[s].at \in Int /\ truth[s].id \in Int
  BY DEF TypeOK
<1>1. Range(Unstored) = {}
  <2>1. Unstored = batch \o queue /\ queue = <<>> /\ batch = <<>>
    BY UnstoredFacts DEF Slots
  <2> QED  BY <2>1, NoEvent, Together
<1>2. ~(truth[s].at < now - Retention)
  BY <1>0
<1>3. PICK e \in Range(table) : /\ e.id = truth[s].id /\ e.at = truth[s].at
                                /\ Carries(e, s) /\ e.kind = truth[s].status
  BY <1>1, <1>2 DEF TruthKept, Alive
<1>4. PICK i \in DOMAIN table : e = table[i]
  BY DEF Range
<1> DEFINE hits == StatusHits(rows, s)
           last == LastRow(hits)
<1>5. hits \in SUBSET DOMAIN table /\ i \in hits /\ \A j \in hits : Carries(table[j], s)
  BY <1>3, <1>4 DEF StatusHits, Since, Carries
<1>6. last \in hits /\ ~Sooner(last, i)
  BY <1>5, LastRowFacts
<1>7. Seeded(rows, s) = table[last].kind
  BY <1>5 DEF Seeded
<1> HIDE DEF hits, last
<1>8. table[last].id <= table[i].id
  <2>1. table[last] \in Alive /\ Carries(table[last], s)
    BY <1>5, <1>6 DEF Alive, Range
  <2> QED  BY <1>3, <1>4, <2>1 DEF TruthKept
<1>9. last = i
  <2>1. last \in DOMAIN table /\ last \in Nat /\ i \in Nat
    BY <1>5, <1>6, TableFacts
  <2>2. ~(table[last].id < table[i].id)
    BY <1>6, <2>1, RowOrder
  <2>3. ~(last < i) /\ ~(i < last)
    BY <1>8, <2>1, <2>2, RowOrder DEF InOrder, Ordered, Precedes
  <2> QED  BY <2>1, <2>3
<1> QED  BY <1>3, <1>4, <1>7, <1>9

(* The statuses are those of the last status events. *)
LEMMA StatusStep ==
    ASSUME TypeOK, Slots, InOrder, TruthKept, StatusKept, Next
    PROVE  StatusKept'
<1>1. CASE /\ UNCHANGED <<statuses, truth, seed, restarts>> /\ lost \subseteq lost'
           /\ pc' \notin Starting => pc \notin Starting
  BY <1>1 DEF StatusKept, Recent, Restored, Starting
<1>2. CASE Restart
  BY <1>2 DEF Restart, StatusKept
<1>3. ASSUME NEW s \in Sessions, NEW k \in Kinds, Receive(s, k)
      PROVE  StatusKept'
  <2> DEFINE e == [id |-> received + 1, session |-> s, kind |-> k, at |-> now]
  <2>1. /\ pc = "stream" /\ UNCHANGED <<pc, seed, restarts>> /\ lost \subseteq lost'
        /\ statuses' = IF HasStatus(e) THEN [statuses EXCEPT ![s] = k] ELSE statuses
        /\ truth' = IF HasStatus(e)
                    THEN [truth EXCEPT ![s] = [status |-> k, id |-> e.id, at |-> now,
                                               life |-> restarts]]
                    ELSE truth
    BY <1>3, Onward DEF Receive
  <2> HIDE DEF e
  <2>2. DOMAIN truth = Sessions /\ DOMAIN statuses = Sessions
    BY DEF TypeOK
  <2>3. CASE ~HasStatus(e)
    BY <1>1, <2>1, <2>3 DEF Starting
  <2>4. CASE HasStatus(e)
    <3>1. truth'[s].status = k /\ statuses'[s] = k
      BY <2>1, <2>2, <2>4
    <3>2. \A t \in Sessions \ {s} : truth'[t] = truth[t] /\ statuses'[t] = statuses[t]
      BY <2>1, <2>2, <2>4
    <3> QED  BY <2>1, <3>1, <3>2 DEF StatusKept, Recent, Restored
  <2> QED  BY <2>3, <2>4
<1>4. CASE seedSessionStatuses
  <2> DEFINE rows == ListEvents(now - SeedWindow, SeedLimit)
  <2>1. pc \in Starting /\ fpc = "off" /\ UNCHANGED <<truth, lost, restarts>>
    BY <1>4 DEF seedSessionStatuses, Slots, Starting
  <2>2. \A s \in Sessions : truth[s].id > 0 => truth[s].life # restarts
    <3>1. restarts \in Nat /\ \A s \in Sessions : truth[s].life \in Nat
      BY DEF TypeOK
    <3> QED  BY <2>1, <3>1 DEF TruthKept, Starting
  <2>3. seed'.at = now /\ (seed'.whole => statuses' = [s \in Sessions |-> Seeded(rows, s)]
                                          /\ rows = Since(now - SeedWindow))
    <3> DEFINE all == rows = Since(now - SeedWindow)
    <3>1. \/ /\ statuses' = [s \in Sessions |-> Seeded(rows, s)]
             /\ seed' = [at |-> now, whole |-> all]
          \/ seed' = [at |-> now, whole |-> FALSE]
      BY <1>4 DEF seedSessionStatuses
    <3> HIDE DEF all, rows
    <3>2. CASE /\ statuses' = [s \in Sessions |-> Seeded(rows, s)]
               /\ seed' = [at |-> now, whole |-> all]
      <4>1. seed'.at = now
        BY <3>2
      <4>2. seed'.whole = all
        BY <3>2
      <4>3. seed'.whole => all
        BY <4>2, Zenon
      <4>4. all => rows = Since(now - SeedWindow)
        BY DEF all
      <4> QED  BY <3>2, <4>1, <4>3, <4>4
    <3>3. CASE seed' = [at |-> now, whole |-> FALSE]
      <4>1. seed'.at = now
        BY <3>3
      <4>2. ~seed'.whole
        BY <3>3
      <4> QED  BY <4>1, <4>2
    <3> QED  BY <3>1, <3>2, <3>3
  <2> HIDE DEF rows
  <2>4. ASSUME NEW s \in Sessions, truth[s].id > 0, truth[s].at > now - SeedWindow,
               truth[s].id \notin lost, seed'.whole
        PROVE  statuses'[s] = truth[s].status
    <3>1. Seeded(rows, s) = truth[s].status
      BY <2>1, <2>3, <2>4, SeedReads
    <3> QED  BY <2>3, <2>4, <3>1
  <2> QED  BY <2>1, <2>2, <2>3, <2>4 DEF StatusKept, Recent, Restored
<1>5. CASE \/ StartCleanup \/ CleanupPass \/ StreamEnds \/ Reconnect \/ Exit \/ FlusherNext
           \/ ClientNext \/ Tick \/ Cancel
  <2>1. UNCHANGED <<statuses, truth, seed, restarts>> /\ (pc' \notin Starting => pc \notin Starting)
    BY <1>5 DEF FlusherNext, ClientNext, StartCleanup, CleanupPass, StreamEnds, Reconnect, Exit,
      Take, FlushTick, StartDrain, EndDrain, FlushInsert, FlushMark, PollNewest, Poll, Fetch,
      MarkSessionRead, Tick, Cancel, memory, counters, history, Starting
  <2> QED  BY <1>1, <2>1, Onward
<1> QED  BY <1>2, <1>3, <1>4, <1>5 DEF Next, CollectorNext

-----------------------------------------------------------------------------
(* The theorems. *)

(* The empty table and the empty queue. *)
LEMMA InitHolds ==
    ASSUME Init
    PROVE  IInv
<1>0. /\ now = 0 /\ received = 0 /\ restarts = 0 /\ pc = "cleanup" /\ fpc = "off" /\ back = "select"
      /\ queue = <<>> /\ batch = <<>> /\ table = <<>> /\ rowid = 0
      /\ statuses = [s \in Sessions |-> NoStatus] /\ seed.at = 0
      /\ cursors = {} /\ seen = {} /\ fresh = {}
      /\ truth = [s \in Sessions |-> [status |-> NoStatus, id |-> 0, at |-> 0, life |-> 0]]
  BY DEF Init
<1>1. TypeOK
  <2>1. DOMAIN table = {} /\ table \in [DOMAIN table -> Event]
    BY <1>0
  <2>2. truth \in [Sessions -> [status : {NoStatus, "busy", "idle"}, id : 0..MaxEvents,
                                at : 0..MaxClock, life : Nat]]
    BY <1>0
  <2>3. statuses \in [Sessions -> {NoStatus, "busy", "idle"}]
    BY <1>0
  <2>4. queue \in Seq(Event) /\ batch \in Seq(Event)
    BY <1>0
  <2> QED  BY <1>0, <2>1, <2>2, <2>3, <2>4 DEF TypeOK
<1>2. Slots
  BY <1>0 DEF Slots
<1>3. Range(table) = {} /\ Ordered(table)
  BY <1>0, NoEvent
<1>4. Range(Unstored) = {} /\ Ordered(Unstored)
  <2>1. Unstored = <<>> \o <<>>
    BY <1>0 DEF Unstored
  <2>2. Unstored = <<>>
    BY <2>1, NoEvent, ConcatEmptySeq
  <2> QED  BY <2>2, NoEvent
<1>5. Known /\ InOrder
  BY <1>0, <1>3, <1>4 DEF Known, InOrder, Alive
<1>6. UnreadKept /\ Polled /\ CursorComplete
  BY <1>0, <1>3, <1>4 DEF UnreadKept, Polled, CursorComplete, Alive
<1>7. TruthKept
  <2>1. \A s \in Sessions : truth[s].id = 0 /\ truth[s].life = 0
    BY <1>0
  <2> QED  BY <1>0, <1>3, <1>4, <2>1 DEF TruthKept, Alive
<1>8. StatusKept
  BY <1>0 DEF StatusKept
<1> QED  BY <1>1, <1>2, <1>5, <1>6, <1>7, <1>8 DEF IInv

(* Stuttering. *)
LEMMA StutterHolds ==
    ASSUME IInv, UNCHANGED vars
    PROVE  IInv'
<1>1. UNCHANGED <<now, received, pc, canceled, fpc, back, queue, batch, statuses, table, rowid,
                  unread, restarts, cursors, seen, lost, fresh, unmarked, truth, seed>>
  BY DEF vars, memory, database, counters, client, history
<1>2. Unstored' = Unstored
  BY <1>1 DEF Unstored
<1>3. TypeOK' /\ Slots'
  BY <1>1 DEF IInv, TypeOK, Slots
<1>4. Known' /\ InOrder' /\ Polled' /\ CursorComplete' /\ UnreadKept'
  BY <1>1, <1>2 DEF IInv, Known, InOrder, Polled, CursorComplete, UnreadKept, Alive
<1>5. TruthKept' /\ StatusKept'
  BY <1>1, <1>2 DEF IInv, TruthKept, StatusKept, Recent, Restored, Alive
<1> QED  BY <1>3, <1>4, <1>5 DEF IInv

(* The inductive invariant: the types, the sizes of the queue and the       *)
(* flusher's slice, the order of the events, and what the clients and the   *)
(* statuses know of them, whatever fails and whenever the process restarts.*)
THEOREM Invariant == Spec => []IInv
<1>1. Init => IInv
  BY InitHolds
<1>2. IInv /\ [Next]_vars => IInv'
  <2>1. ASSUME IInv, Next
        PROVE  IInv'
    <3>1. TypeOK' /\ Slots'
      BY <2>1, TypeStep, SlotsStep DEF IInv
    <3>2. Known' /\ InOrder'
      BY <2>1, OrderStep DEF IInv
    <3>3. UnreadKept'
      BY <2>1, UnreadStep DEF IInv
    <3>4. Polled' /\ CursorComplete'
      BY <2>1, CursorStep DEF IInv
    <3>5. TruthKept' /\ StatusKept'
      BY <2>1, TruthStep, StatusStep DEF IInv
    <3> QED  BY <3>1, <3>2, <3>3, <3>4, <3>5 DEF IInv
  <2> QED  BY <2>1, StutterHolds
<1> QED  BY <1>1, <1>2, PTL DEF Spec

(* Between the callback and the table no event is stored twice or out of    *)
(* the order of its arrival, and none disappears but at a full queue, by a  *)
(* failed INSERT, by a restart or by retention.                            *)
THEOREM EventsKeepTheirOrder == Spec => []InOrder
<1>1. IInv => InOrder
  BY DEF IInv
<1> QED  BY <1>1, Invariant, PTL

(* A client of GET /api/events that goes on from the last row it received   *)
(* misses no row but one with the timestamp of a cursor.                   *)
THEOREM PagesMissNothing == Spec => []CursorComplete
<1>1. IInv => CursorComplete
  BY DEF IInv
<1> QED  BY <1>1, Invariant, PTL

(* A session with news is flagged as unread or on the way to it, unless the *)
(* mark was dropped with a full queue, a failed statement or a restart.    *)
THEOREM NewsIsFlagged == Spec => []UnreadKept
<1>1. IInv => UnreadKept
  BY DEF IInv
<1> QED  BY <1>1, Invariant, PTL

(* The status held of a session is that of its last status event, and after *)
(* a restart the seeding finds it in the table.                            *)
THEOREM StatusIsTheLast == Spec => []StatusKept
<1>1. IInv => StatusKept
  BY DEF IInv
<1> QED  BY <1>1, Invariant, PTL

(* The collector's memory is bounded: the queue by eventQueueSize, the      *)
(* flusher's slice by eventFlushBatch.                                     *)
THEOREM MemoryIsBounded == Spec => [](Len(queue) <= QueueSize /\ Len(batch) <= FlushBatch)
<1>1. IInv => Len(queue) <= QueueSize /\ Len(batch) <= FlushBatch
  BY DEF IInv, Slots
<1> QED  BY <1>1, Invariant, PTL

=============================================================================
