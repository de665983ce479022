--------------------------- MODULE ReportsProofs ---------------------------
(***************************************************************************)
(* What those who read the events of a session can rely on, for every      *)
(* number of events, every clock of their sender and every limit, while    *)
(* rows are stored between and inside their reads: a list that is read     *)
(* page by page, a replay, a verification of hashes, a compliance report   *)
(* and the evaluation of policies.                                         *)
(***************************************************************************)
EXTENDS Reports, SequenceTheorems, FiniteSetTheorems, TLAPS

----------------------------------------------------------------------------
(***************************************************************************)
(* Finite sets and sequences.                                              *)
(***************************************************************************)

LEMMA CountUpTo ==
    ASSUME NEW n \in Nat
    PROVE  IsFiniteSet(1 .. n) /\ Cardinality(1 .. n) = n
BY FS_Interval

LEMMA MinOfTwo ==
    ASSUME NEW m \in Int, NEW n \in Int
    PROVE  Min({m, n}) = IF m <= n THEN m ELSE n
BY DEF Min

\* As many elements as places: each element has its place.
LEMMA EveryElementPlaced ==
    ASSUME NEW S, IsFiniteSet(S), NEW n \in Nat, Cardinality(S) = n,
           NEW q \in [1 .. n -> S],
           \A i, j \in 1 .. n : i # j => q[i] # q[j]
    PROVE  \A x \in S : \E i \in 1 .. n : q[i] = x
<1>1. IsFiniteSet(1 .. n) /\ Cardinality(1 .. n) = n
  BY CountUpTo
<1>2. q \in Injection(1 .. n, S)
  BY DEF Injection, IsInjective
<1>3. (Cardinality(1 .. n) = Cardinality(S)) <=> q \in Surjection(1 .. n, S)
  BY <1>2, FS_Injection
<1>4. q \in Surjection(1 .. n, S)
  BY <1>1, <1>3
<1>5. QED  BY <1>4 DEF Surjection

\* The elements at different places of a part of a list are as many as places.
LEMMA CountPlaces ==
    ASSUME NEW n \in Nat, NEW q, NEW S,
           \A i \in 1 .. n : q[i] \in S,
           \A i, j \in 1 .. n : i # j => q[i] # q[j]
    PROVE  LET T == {q[i] : i \in 1 .. n}
           IN  IsFiniteSet(T) /\ Cardinality(T) = n
<1> DEFINE T == {q[i] : i \in 1 .. n}
           f == [i \in 1 .. n |-> q[i]]
<1>1. f \in Bijection(1 .. n, T)
  BY DEF Bijection, Injection, Surjection, IsInjective
<1>2. ExistsBijection(1 .. n, T)
  BY <1>1, Zenon DEF ExistsBijection
<1>3. IsFiniteSet(1 .. n) /\ Cardinality(1 .. n) = n
  BY CountUpTo
<1> HIDE DEF T
<1>4. IsFiniteSet(T) /\ Cardinality(T) = Cardinality(1 .. n)
  BY <1>2, <1>3, FS_Bijection
<1>5. QED  BY <1>3, <1>4 DEF T

\* A strict total order R of the places 1 .. n, and the rank it gives to each.
Ranks(n, R, below, rank) ==
    /\ R \in SUBSET ((1 .. n) \X (1 .. n))
    /\ \A i \in 1 .. n : <<i, i>> \notin R
    /\ \A i, j, k \in 1 .. n : <<i, j>> \in R /\ <<j, k>> \in R => <<i, k>> \in R
    /\ \A i, j \in 1 .. n : i # j => <<i, j>> \in R \/ <<j, i>> \in R
    /\ below \in [1 .. n -> SUBSET (1 .. n)]
    /\ \A i, j \in 1 .. n : j \in below[i] <=> <<j, i>> \in R
    /\ \A i \in 1 .. n : rank[i] = 1 + Cardinality(below[i])

EveryRank(n, rank) == \A k \in 1 .. n : \E i \in 1 .. n : rank[i] = k

\* One place has each rank.
LEMMA RanksAreAll ==
    ASSUME NEW n \in Nat, NEW R, NEW below, NEW rank, Ranks(n, R, below, rank)
    PROVE  /\ \A i \in 1 .. n : rank[i] \in 1 .. n
           /\ \A i, j \in 1 .. n : <<i, j>> \in R => rank[i] < rank[j]
           /\ EveryRank(n, rank)
<1> USE DEF Ranks
<1>1. IsFiniteSet(1 .. n) /\ Cardinality(1 .. n) = n
  BY CountUpTo
<1>2. ASSUME NEW i \in 1 .. n
      PROVE  /\ IsFiniteSet(below[i]) /\ Cardinality(below[i]) \in Nat
             /\ Cardinality(below[i]) < n
  <2>1. below[i] \in SUBSET (1 .. n) /\ i \notin below[i]
    OBVIOUS
  <2>2. /\ IsFiniteSet(below[i]) /\ Cardinality(below[i]) <= n
        /\ n = Cardinality(below[i]) => 1 .. n = below[i]
    BY <1>1, <2>1, FS_Subset
  <2>3. Cardinality(below[i]) \in Nat
    BY <2>2, FS_CardinalityType
  <2>4. QED  BY <2>1, <2>2, <2>3
<1>3. ASSUME NEW i \in 1 .. n, NEW j \in 1 .. n, <<i, j>> \in R
      PROVE  Cardinality(below[i]) < Cardinality(below[j])
  <2>1. below[i] \subseteq below[j] /\ i \in below[j] /\ i \notin below[i]
    BY <1>3
  <2>2. /\ Cardinality(below[i]) <= Cardinality(below[j])
        /\ Cardinality(below[i]) # Cardinality(below[j])
    BY <1>2, <2>1, FS_Subset
  <2>3. Cardinality(below[i]) \in Nat /\ Cardinality(below[j]) \in Nat
    BY <1>2
  <2>4. QED  BY <2>2, <2>3
<1>5. \A i \in 1 .. n : rank[i] \in 1 .. n
  <2> TAKE i \in 1 .. n
  <2>1. Cardinality(below[i]) \in Nat /\ Cardinality(below[i]) < n
    BY <1>2
  <2>2. rank[i] = 1 + Cardinality(below[i])
    OBVIOUS
  <2>3. QED  BY <2>1, <2>2
<1>6. ASSUME NEW i \in 1 .. n, NEW j \in 1 .. n, <<i, j>> \in R
      PROVE  rank[i] < rank[j]
  BY <1>2, <1>3, <1>6
<1>7. \A k \in 1 .. n : \E i \in 1 .. n : rank[i] = k
  <2> DEFINE f == [i \in 1 .. n |-> rank[i]]
  <2>1. f \in [1 .. n -> 1 .. n]
    BY <1>1, <1>5
  <2>2. ASSUME NEW i \in 1 .. n, NEW j \in 1 .. n, i # j PROVE f[i] # f[j]
    <3>1. rank[i] < rank[j] \/ rank[j] < rank[i]
      BY <1>6, <2>2
    <3>2. rank[i] \in Int /\ rank[j] \in Int
      BY <1>5
    <3>3. QED  BY <3>1, <3>2
  <2> HIDE DEF f
  <2>3. \A i, j \in 1 .. n : i # j => f[i] # f[j]
    BY <2>2
  <2> DEFINE S == 1 .. n
  <2>4. IsFiniteSet(S) /\ Cardinality(S) = n /\ f \in [1 .. n -> S]
    BY <1>1, <2>1
  <2> HIDE DEF S
  <2>5. \A k \in S : \E i \in 1 .. n : f[i] = k
    BY <2>3, <2>4, EveryElementPlaced
  <2>6. QED  BY <2>5 DEF f, S
<1>8. QED  BY <1>5, <1>6, <1>7 DEF EveryRank

----------------------------------------------------------------------------
(***************************************************************************)
(* The store: what is read.                                                *)
(***************************************************************************)

Sources == {"events", "audit"}

\* Rows are written once, and an event as it was built but for its hash.
StoreOK ==
    /\ built \in Seq(Event)
    /\ charged \subseteq DOMAIN built /\ Stored \subseteq charged
    /\ \A n \in Stored : events[n] = RecordOf(built[n])
    /\ entries \in Seq(Times)
    /\ rows \in 0 .. MaxRows

LEMMA RecordFacts ==
    ASSUME NEW e \in Event
    PROVE  /\ RecordOf(e).timestamp = e.timestamp /\ e.timestamp \in Int
           /\ RecordOf(e).event_type = e.event_type
           /\ RecordOf(e).payload_hash # "absent"
BY TimesAssumption DEF RecordOf, Event

LEMMA RowFacts ==
    ASSUME StoreOK
    PROVE  /\ \A n \in Stored : /\ n \in DOMAIN built /\ n \in Nat
                                /\ events[n].timestamp = built[n].timestamp
                                /\ events[n].event_type = built[n].event_type
                                /\ events[n].timestamp \in Int
                                /\ events[n].payload_hash # "absent"
           /\ \A n \in DOMAIN entries : entries[n] \in Int /\ n \in Nat
<1>1. ASSUME NEW n \in Stored
      PROVE  /\ n \in DOMAIN built /\ n \in Nat
             /\ events[n].timestamp = built[n].timestamp
             /\ events[n].event_type = built[n].event_type
             /\ events[n].timestamp \in Int
             /\ events[n].payload_hash # "absent"
  <2>1. /\ n \in DOMAIN built /\ built[n] \in Event /\ n \in Nat
        /\ events[n] = RecordOf(built[n])
    BY DEF StoreOK
  <2>2. QED  BY <2>1, RecordFacts
<1>2. ASSUME NEW n \in DOMAIN entries PROVE entries[n] \in Int /\ n \in Nat
  <2>1. entries \in Seq(Times)
    BY DEF StoreOK
  <2>2. entries \in [1 .. Len(entries) -> Times] /\ Len(entries) \in Nat
    BY <2>1, LenProperties
  <2>3. n \in 1 .. Len(entries)
    BY <2>2
  <2>4. entries[n] \in Times
    BY <2>2, <2>3
  <2>5. n \in Nat
    BY <2>2, <2>3
  <2>6. QED  BY <2>4, <2>5, TimesAssumption, Zenon
<1>3. QED  BY <1>1, <1>2

LEMMA PlacesFinite ==
    ASSUME NEW S, NEW s \in Seq(S), NEW T \in SUBSET DOMAIN s
    PROVE  IsFiniteSet(T) /\ Cardinality(T) \in Nat
<1>1. Len(s) \in Nat /\ DOMAIN s = 1 .. Len(s)
  OBVIOUS
<1>2. IsFiniteSet(DOMAIN s)
  BY <1>1, CountUpTo
<1>3. QED  BY <1>2, FS_Subset, FS_CardinalityType

LEMMA RowsFinite ==
    ASSUME StoreOK, NEW source \in Sources
    PROVE  /\ IsFiniteSet(RowsIn(source)) /\ Cardinality(RowsIn(source)) \in Nat
           /\ RowsIn(source) \subseteq Nat
           /\ \A n \in RowsIn(source) : TimeOf(source, n) \in Int
           /\ IsFiniteSet(charged) /\ Cardinality(charged) \in Nat
           /\ IsFiniteSet(Stored) /\ Cardinality(Stored) <= Cardinality(charged)
<1>1. /\ Len(built) \in Nat /\ DOMAIN built = 1 .. Len(built)
      /\ Len(entries) \in Nat /\ DOMAIN entries = 1 .. Len(entries)
  BY DEF StoreOK
<1>2. IsFiniteSet(DOMAIN built) /\ IsFiniteSet(DOMAIN entries)
  BY <1>1, CountUpTo
<1>3. charged \in SUBSET DOMAIN built /\ Stored \in SUBSET charged
  BY DEF StoreOK
<1>4. IsFiniteSet(charged)
  BY <1>2, <1>3, FS_Subset
<1>5. IsFiniteSet(Stored) /\ Cardinality(Stored) <= Cardinality(charged)
  BY <1>3, <1>4, FS_Subset
<1>6. RowsIn(source) \in {Stored, DOMAIN entries}
  BY DEF RowsIn, Sources
<1>7. IsFiniteSet(RowsIn(source))
  BY <1>2, <1>5, <1>6
<1>8. \A n \in RowsIn(source) : TimeOf(source, n) \in Int /\ n \in Nat
  BY RowFacts DEF RowsIn, TimeOf, Sources
<1>9. QED  BY <1>4, <1>5, <1>7, <1>8, FS_CardinalityType

\* A list of rows, each once.
IsList(q, S, n) ==
    /\ n \in Nat /\ n = Cardinality(S)
    /\ q \in [1 .. n -> S] /\ q \in Seq(S) /\ Len(q) = n
    /\ \A i, j \in 1 .. n : i # j => q[i] # q[j]
    /\ \A x \in S : \E i \in 1 .. n : q[i] = x

\* What ORDER BY returns.
LEMMA NewestFacts ==
    ASSUME StoreOK, NEW source \in Sources, NEW q \in NewestFirst(source)
    PROVE  /\ IsList(q, RowsIn(source), Cardinality(RowsIn(source)))
           /\ \A i, j \in 1 .. Cardinality(RowsIn(source)) :
                  i < j => TimeOf(source, q[i]) >= TimeOf(source, q[j])
<1> DEFINE S == RowsIn(source)
           n == Cardinality(S)
<1>1. IsFiniteSet(S) /\ n \in Nat
  BY RowsFinite
<1>2. q \in SetToSeqs(S)
  BY DEF NewestFirst
<1>3. /\ \A i, j \in DOMAIN q : i < j => TimeOf(source, q[i]) >= TimeOf(source, q[j])
  BY DEF NewestFirst
<1> HIDE DEF S
<1>4. q \in [1 .. n -> S] /\ \A i, j \in 1 .. n : i # j => q[i] # q[j]
  BY <1>2 DEF SetToSeqs
<1> HIDE DEF n
<1>5. \A x \in S : \E i \in 1 .. n : q[i] = x
  BY <1>1, <1>4, EveryElementPlaced DEF n
<1>6. q \in Seq(S) /\ Len(q) = n
  <2>1. q \in Seq(S)
    BY <1>1, <1>4, SeqDef
  <2>2. DOMAIN q = 1 .. Len(q) /\ Len(q) \in Nat /\ DOMAIN q = 1 .. n /\ n \in Nat
    BY <1>1, <1>4, <2>1 DEF n
  <2>3. Cardinality(1 .. Len(q)) = Len(q) /\ Cardinality(1 .. n) = n
    BY <2>2, CountUpTo
  <2>4. QED  BY <2>1, <2>2, <2>3
<1>7. DOMAIN q = 1 .. n
  BY <1>4
<1>8. IsList(q, S, n)
  BY <1>1, <1>4, <1>5, <1>6 DEF IsList, n
<1>9. QED  BY <1>3, <1>7, <1>8 DEF S, n

\* What LIMIT and OFFSET leave of it.
LEMMA PageFacts ==
    ASSUME NEW S, NEW n, NEW q, IsList(q, S, n), NEW limit \in Nat, NEW offset \in Nat
    PROVE  LET p == Page(q, limit, offset)
           IN  /\ p \in Seq(S)
               /\ Len(p) <= limit
               /\ offset + limit <= n => Len(p) = limit
               /\ n <= offset + limit => Len(p) = IF offset < n THEN n - offset ELSE 0
               /\ \A i \in 1 .. Len(p) : i + offset \in 1 .. n /\ p[i] = q[i + offset]
<1> DEFINE h == Min({offset + limit, Len(q)})
           p == SubSeq(q, offset + 1, h)
<1>1. /\ n \in Nat /\ q \in [1 .. n -> S] /\ Len(q) = n
  BY DEF IsList
<1>2. h = IF offset + limit <= n THEN offset + limit ELSE n
  BY <1>1, MinOfTwo
<1> HIDE DEF h
<1>3. h \in Int /\ h <= n /\ offset + 1 \in Int
  BY <1>1, <1>2
<1>4. \A i \in (offset + 1) .. h : q[i] \in S
  BY <1>1, <1>3
<1>5. /\ p \in Seq(S)
      /\ Len(p) = IF offset + 1 <= h THEN h - (offset + 1) + 1 ELSE 0
      /\ \A i \in 1 .. h - (offset + 1) + 1 : p[i] = q[offset + 1 + i - 1]
  BY <1>3, <1>4, SubSeqProperties
<1>6. p = Page(q, limit, offset)
  BY DEF Page, h
<1> HIDE DEF p
<1>7. /\ Len(p) <= limit
      /\ offset + limit <= n => Len(p) = limit
      /\ n <= offset + limit => Len(p) = IF offset < n THEN n - offset ELSE 0
  BY <1>1, <1>2, <1>5
<1>8. ASSUME NEW i \in 1 .. Len(p)
      PROVE  i + offset \in 1 .. n /\ p[i] = q[i + offset]
  <2>1. i \in 1 .. h - (offset + 1) + 1 /\ offset + 1 + i - 1 = i + offset
    BY <1>3, <1>5
  <2>2. i + offset \in 1 .. n
    BY <1>1, <1>3, <2>1
  <2>3. QED  BY <1>5, <2>1, <2>2
<1>9. QED  BY <1>5, <1>6, <1>7, <1>8

\* The rows of a page are those at its places.
LEMMA PageRows ==
    ASSUME NEW S, NEW n, NEW q, IsList(q, S, n), NEW limit \in Nat, NEW offset \in Nat,
           NEW i \in 1 .. n
    PROVE  q[i] \in Range(Page(q, limit, offset)) <=> offset < i /\ i <= offset + limit
<1> DEFINE p == Page(q, limit, offset)
<1>1. /\ p \in Seq(S) /\ Len(p) <= limit
      /\ offset + limit <= n => Len(p) = limit
      /\ n <= offset + limit => Len(p) = IF offset < n THEN n - offset ELSE 0
      /\ \A k \in 1 .. Len(p) : k + offset \in 1 .. n /\ p[k] = q[k + offset]
  BY PageFacts
<1>2. n \in Nat /\ \A j, k \in 1 .. n : j # k => q[j] # q[k]
  BY DEF IsList
<1> HIDE DEF p
<1>0. PICK len \in Nat : len = Len(p) /\ DOMAIN p = 1 .. len
  BY <1>1
<1>3. /\ len <= limit
      /\ offset + limit <= n => len = limit
      /\ n <= offset + limit => (offset < n => len = n - offset)
      /\ \A k \in 1 .. len : k + offset \in 1 .. n /\ p[k] = q[k + offset]
  BY <1>0, <1>1
<1>4. ASSUME q[i] \in Range(p) PROVE offset < i /\ i <= offset + limit
  <2>1. PICK k \in 1 .. len : p[k] = q[i]
    BY <1>0, <1>4 DEF Range
  <2>2. k + offset = i
    BY <1>2, <1>3, <2>1
  <2>3. QED  BY <1>3, <2>1, <2>2
<1>5. ASSUME offset < i, i <= offset + limit PROVE q[i] \in Range(p)
  <2>1. i - offset \in 1 .. len
    BY <1>2, <1>3, <1>5
  <2>2. p[i - offset] = q[i]
    <3>1. p[i - offset] = q[(i - offset) + offset]
      BY <1>3, <2>1
    <3>2. (i - offset) + offset = i
      BY <1>2
    <3>3. QED  BY <3>1, <3>2
  <2>3. QED  BY <1>0, <2>1, <2>2 DEF Range
<1>6. QED  BY <1>4, <1>5 DEF p

\* The other order is a list, too.
LEMMA OldestFacts ==
    ASSUME StoreOK, NEW source \in Sources, NEW q \in OldestFirst(source)
    PROVE  /\ IsList(q, RowsIn(source), Cardinality(RowsIn(source)))
           /\ \A i, j \in 1 .. Cardinality(RowsIn(source)) :
                  i < j => TimeOf(source, q[i]) <= TimeOf(source, q[j])
<1> DEFINE S == RowsIn(source)
           n == Cardinality(S)
<1>1. PICK p \in NewestFirst(source) : q = Reverse(p)
  BY DEF OldestFirst
<1>2. /\ IsList(p, S, n)
      /\ \A i, j \in 1 .. n : i < j => TimeOf(source, p[i]) >= TimeOf(source, p[j])
  BY NewestFacts
<1>3. \A x \in S : TimeOf(source, x) \in Int
  BY RowsFinite
<1> HIDE DEF S, n
<1>4. /\ n \in Nat /\ n = Cardinality(S) /\ Len(p) = n /\ p \in [1 .. n -> S]
      /\ \A i, j \in 1 .. n : i # j => p[i] # p[j]
      /\ \A x \in S : \E i \in 1 .. n : p[i] = x
  BY <1>2 DEF IsList
<1>5. q = [i \in 1 .. n |-> p[(n - i) + 1]]
  BY <1>1, <1>4 DEF Reverse
<1>6. \A i \in 1 .. n : (n - i) + 1 \in 1 .. n /\ q[i] = p[(n - i) + 1]
  BY <1>4, <1>5
<1>7. q \in [1 .. n -> S]
  BY <1>4, <1>5, <1>6
<1>8. q \in Seq(S) /\ Len(q) = n
  <2>1. q \in Seq(S)
    BY <1>4, <1>7, SeqDef
  <2>2. DOMAIN q = 1 .. Len(q) /\ Len(q) \in Nat /\ DOMAIN q = 1 .. n
    BY <1>7, <2>1
  <2>3. Cardinality(1 .. Len(q)) = Len(q) /\ Cardinality(1 .. n) = n
    BY <1>4, <2>2, CountUpTo
  <2>4. QED  BY <2>1, <2>2, <2>3
<1>9. ASSUME NEW i \in 1 .. n, NEW j \in 1 .. n, i < j
      PROVE  q[i] # q[j] /\ TimeOf(source, q[i]) <= TimeOf(source, q[j])
  <2>1. PICK a \in 1 .. n, b \in 1 .. n : a = (n - i) + 1 /\ b = (n - j) + 1
    BY <1>6
  <2>2. b < a /\ b # a
    BY <1>4, <1>9, <2>1
  <2>3. q[i] = p[a] /\ q[j] = p[b]
    BY <1>6, <2>1
  <2>4. p[a] # p[b] /\ TimeOf(source, p[b]) >= TimeOf(source, p[a])
    BY <1>2, <1>4, <2>2
  <2>5. TimeOf(source, p[a]) \in Int /\ TimeOf(source, p[b]) \in Int
    BY <1>3, <1>4
  <2>6. QED  BY <2>3, <2>4, <2>5
<1>10. ASSUME NEW i \in 1 .. n, NEW j \in 1 .. n, i # j
       PROVE  q[i] # q[j]
  <2>1. i < j \/ j < i
    BY <1>4, <1>10
  <2>2. QED  BY <1>9, <2>1
<1>11. ASSUME NEW x \in S PROVE \E i \in 1 .. n : q[i] = x
  <2>1. PICK k \in 1 .. n : p[k] = x
    BY <1>4
  <2>2. (n - k) + 1 \in 1 .. n /\ (n - ((n - k) + 1)) + 1 = k
    BY <1>4
  <2>3. QED  BY <1>6, <2>1, <2>2
<1>12. IsList(q, S, n)
  BY <1>4, <1>7, <1>8, <1>10, <1>11 DEF IsList
<1>13. QED  BY <1>9, <1>12 DEF S, n

\* The places by a time, and by their order where it is equal: the place that
\* sorted() gives to each.
PlaceBefore(time, i, j) == time[i] < time[j] \/ (time[i] = time[j] /\ i < j)
SortedPlace(time, n, i) == 1 + Cardinality({j \in 1 .. n : PlaceBefore(time, j, i)})

LEMMA SortedPlaces ==
    ASSUME NEW n \in Nat, NEW time \in [1 .. n -> Int]
    PROVE  /\ \A i \in 1 .. n : SortedPlace(time, n, i) \in 1 .. n
           /\ \A i, j \in 1 .. n :
                  PlaceBefore(time, i, j) => SortedPlace(time, n, i) < SortedPlace(time, n, j)
           /\ \A k \in 1 .. n : \E i \in 1 .. n : SortedPlace(time, n, i) = k
           /\ \A i, j \in 1 .. n :
                  i # j => PlaceBefore(time, i, j) \/ PlaceBefore(time, j, i)
<1> DEFINE R == {x \in (1 .. n) \X (1 .. n) : PlaceBefore(time, x[1], x[2])}
           below == [i \in 1 .. n |-> {j \in 1 .. n : PlaceBefore(time, j, i)}]
           rank == [i \in 1 .. n |-> SortedPlace(time, n, i)]
<1>1. \A i, j \in 1 .. n : <<i, j>> \in R <=> PlaceBefore(time, i, j)
  OBVIOUS
<1>2. R \in SUBSET ((1 .. n) \X (1 .. n))
  OBVIOUS
<1> HIDE DEF R
<1>3. \A i \in 1 .. n : <<i, i>> \notin R
  BY <1>1 DEF PlaceBefore
<1>4. \A i, j, k \in 1 .. n : <<i, j>> \in R /\ <<j, k>> \in R => <<i, k>> \in R
  <2> TAKE i, j, k \in 1 .. n
  <2>1. PlaceBefore(time, i, j) /\ PlaceBefore(time, j, k) => PlaceBefore(time, i, k)
    BY DEF PlaceBefore
  <2>2. QED  BY <1>1, <2>1
<1>5. \A i, j \in 1 .. n : i # j => PlaceBefore(time, i, j) \/ PlaceBefore(time, j, i)
  BY DEF PlaceBefore
<1>6. below \in [1 .. n -> SUBSET (1 .. n)]
  OBVIOUS
<1>7. \A i, j \in 1 .. n : j \in below[i] <=> <<j, i>> \in R
  BY <1>1
<1>8. \A i \in 1 .. n : rank[i] = SortedPlace(time, n, i)
                        /\ rank[i] = 1 + Cardinality(below[i])
  BY DEF SortedPlace
<1> HIDE DEF below, rank
<1>9. Ranks(n, R, below, rank)
  BY <1>1, <1>2, <1>3, <1>4, <1>5, <1>6, <1>7, <1>8 DEF Ranks
<1>10. /\ \A i \in 1 .. n : rank[i] \in 1 .. n
       /\ \A i, j \in 1 .. n : <<i, j>> \in R => rank[i] < rank[j]
       /\ \A k \in 1 .. n : \E i \in 1 .. n : rank[i] = k
  <2>1. PICK R0, below0, rank0 : R0 = R /\ below0 = below /\ rank0 = rank
    OBVIOUS
  <2>2. Ranks(n, R0, below0, rank0)
    BY <1>9, <2>1
  <2>3. \A i \in 1 .. n : rank0[i] \in 1 .. n
    BY <2>2, RanksAreAll
  <2>4. \A i, j \in 1 .. n : <<i, j>> \in R0 => rank0[i] < rank0[j]
    BY <2>2, RanksAreAll
  <2>5. EveryRank(n, rank0)
    BY <2>2, RanksAreAll
  <2>6. QED  BY <2>1, <2>3, <2>4, <2>5 DEF EveryRank
<1>11. QED  BY <1>1, <1>5, <1>8, <1>10

\* sorted() returns the same rows by their times.
LEMMA SortedFacts ==
    ASSUME NEW n \in Nat, NEW q \in [1 .. n -> Stored],
           \A i, j \in 1 .. n : i # j => q[i] # q[j],
           \A x \in Stored : events[x].timestamp \in Int
    PROVE  LET s == Sorted(q)
           IN  /\ s \in [1 .. n -> Stored] /\ Range(s) = Range(q)
               /\ \A i, j \in 1 .. n : i < j =>
                      s[i] # s[j] /\ events[s[i]].timestamp <= events[s[j]].timestamp
<1>1. DOMAIN q = 1 .. n
  OBVIOUS
<1>2. PICK time \in [1 .. n -> Int] : \A i \in 1 .. n : time[i] = events[q[i]].timestamp
  <2> DEFINE f == [i \in 1 .. n |-> events[q[i]].timestamp]
  <2>1. f \in [1 .. n -> Int] /\ \A i \in 1 .. n : f[i] = events[q[i]].timestamp
    OBVIOUS
  <2>2. QED  BY <2>1
<1> DEFINE rank(i) == SortedPlace(time, n, i)
           At(k) == CHOOSE i \in 1 .. n : rank(i) = k
           s == [k \in 1 .. n |-> q[At(k)]]
<1>3. Sorted(q) = s
  <2> DEFINE Before(i, j) ==
                 \/ events[q[i]].timestamp < events[q[j]].timestamp
                 \/ events[q[i]].timestamp = events[q[j]].timestamp /\ i < j
             Place(i) == 1 + Cardinality({j \in DOMAIN q : Before(j, i)})
  <2>1. Sorted(q) = [k \in DOMAIN q |-> q[CHOOSE i \in DOMAIN q : Place(i) = k]]
    BY Zenon DEF Sorted
  <2>2. \A i \in 1 .. n : Place(i) = rank(i)
    <3> TAKE i \in 1 .. n
    <3>1. {j \in DOMAIN q : Before(j, i)} = {j \in 1 .. n : PlaceBefore(time, j, i)}
      BY <1>1, <1>2 DEF PlaceBefore
    <3>2. QED  BY <3>1 DEF SortedPlace
  <2> HIDE DEF Place, rank
  <2>3. ASSUME NEW k \in 1 .. n
        PROVE  q[CHOOSE i \in 1 .. n : Place(i) = k] = q[CHOOSE i \in 1 .. n : rank(i) = k]
    BY <2>2
  <2>4. Sorted(q) = [k \in 1 .. n |-> q[CHOOSE i \in 1 .. n : Place(i) = k]]
    BY <1>1, <2>1
  <2>5. QED  BY <2>3, <2>4
<1>4. /\ \A i \in 1 .. n : rank(i) \in 1 .. n
      /\ \A i, j \in 1 .. n : PlaceBefore(time, i, j) => rank(i) < rank(j)
      /\ \A k \in 1 .. n : \E i \in 1 .. n : rank(i) = k
      /\ \A i, j \in 1 .. n : i # j => PlaceBefore(time, i, j) \/ PlaceBefore(time, j, i)
  BY SortedPlaces
<1> HIDE DEF rank
<1>5. ASSUME NEW k \in 1 .. n PROVE At(k) \in 1 .. n /\ rank(At(k)) = k
  BY <1>4
<1>6. ASSUME NEW i \in 1 .. n PROVE At(rank(i)) = i
  <2>1. rank(i) \in 1 .. n
    BY <1>4
  <2>2. At(rank(i)) \in 1 .. n /\ rank(At(rank(i))) = rank(i)
    BY <1>5, <2>1
  <2> HIDE DEF At
  <2>3. CASE At(rank(i)) # i
    <3>1. rank(i) < rank(At(rank(i))) \/ rank(At(rank(i))) < rank(i)
      BY <1>4, <2>2, <2>3
    <3>2. rank(i) \in Int
      BY <2>1
    <3>3. QED  BY <2>2, <3>1, <3>2
  <2>4. QED  BY <2>3
<1> HIDE DEF At
<1>7. \A k \in 1 .. n : At(k) \in 1 .. n
  BY <1>5
<1>8. s \in [1 .. n -> Stored]
  BY <1>7
<1>9. Range(s) = Range(q)
  <2>1. ASSUME NEW x \in Range(s) PROVE x \in Range(q)
    BY <1>1, <1>7, <2>1 DEF Range
  <2>2. ASSUME NEW x \in Range(q) PROVE x \in Range(s)
    <3>1. PICK i \in 1 .. n : q[i] = x
      BY <1>1, <2>2 DEF Range
    <3>2. rank(i) \in 1 .. n /\ At(rank(i)) = i
      BY <1>4, <1>6, <3>1
    <3>3. s[rank(i)] = x
      BY <3>1, <3>2
    <3>4. QED  BY <3>2, <3>3 DEF Range
  <2>3. QED  BY <2>1, <2>2
<1>10. ASSUME NEW i \in 1 .. n, NEW j \in 1 .. n, i < j
       PROVE  s[i] # s[j] /\ events[s[i]].timestamp <= events[s[j]].timestamp
  <2>1. PICK a \in 1 .. n : rank(a) = i /\ s[i] = q[a]
    BY <1>5
  <2>2. PICK b \in 1 .. n : rank(b) = j /\ s[j] = q[b]
    BY <1>5
  <2>3. a # b
    BY <1>10, <2>1, <2>2
  <2>4. ~PlaceBefore(time, b, a)
    <3>1. PlaceBefore(time, b, a) => j < i
      BY <1>4, <2>1, <2>2
    <3>2. ~(j < i)
      BY <1>10
    <3>3. QED  BY <3>1, <3>2
  <2>5. PlaceBefore(time, a, b)
    BY <1>4, <2>3, <2>4
  <2>6. time[a] <= time[b]
    BY <2>5 DEF PlaceBefore
  <2>7. s[i] # s[j]
    BY <2>1, <2>2, <2>3
  <2>8. QED  BY <1>2, <2>1, <2>2, <2>6, <2>7
<1>11. QED  BY <1>3, <1>8, <1>9, <1>10


----------------------------------------------------------------------------
(***************************************************************************)
(* The inductive invariant.                                                *)
(***************************************************************************)

Task == [ op : {"none", "scan", "replay", "verify", "report"},
          stage : {"done", "list", "count", "answered", "load", "replay", "summarize",
                   "verify", "events", "alerts", "quota", "policies"},
          source : Sources, offset : Nat, total : Nat, seen : SUBSET Nat,
          list : Seq(Nat), present : SUBSET Nat,
          started : BOOLEAN, completed : BOOLEAN, error : BOOLEAN ]

StagesOf(op) ==
    CASE op = "none"   -> {"done"}
      [] op = "scan"   -> {"list", "count", "answered", "done"}
      [] op = "replay" -> {"load", "replay", "summarize", "done"}
      [] op = "verify" -> {"verify", "done"}
      [] op = "report" -> {"events", "alerts", "quota", "policies", "done"}

TaskOK ==
    /\ task \in Task
    /\ task.stage \in StagesOf(task.op)
    /\ task.op # "scan" => task.source = "events"
    /\ task.seen \subseteq RowsIn(task.source)
    /\ task.present \subseteq RowsIn(task.source)

DirtyOK == \A n \in dirty : n \in Stored /\ Altered(n)

RestOK ==
    /\ open \subseteq Stored /\ resolved \subseteq Stored /\ open \cap resolved = {}
    /\ policies \in Seq(Policy)

NewerThan(source, n) == {m \in RowsIn(source) : TimeOf(source, m) > TimeOf(source, n)}

\* A row that has been on no page yet comes after the pages that were read:
\* what is stored later can only move it further back.
ScanInv ==
    task.op = "scan" /\ ~task.error =>
        \A n \in task.present \cap Untied(task.source) :
            LET newer == Cardinality(NewerThan(task.source, n))
                next == task.offset + PageLimit
            IN  \/ n \in task.seen
                \/ task.stage = "list" /\ newer >= task.offset
                \/ task.stage = "count" /\ newer >= next
                \/ task.stage = "answered" /\ newer >= next /\ task.total > next

\* What a replay has loaded.
Loaded ==
    LET At(n) == events[n].timestamp
        list == task.list
        left == task.present \ Range(list)
    IN  /\ Range(list) \subseteq task.present
        /\ \A i, j \in DOMAIN list : i < j => list[i] # list[j] /\ At(list[i]) <= At(list[j])
        /\ left # {} => Cardinality(Range(list)) = ReplayLimit
        /\ \A m \in left, n \in Range(list) : At(m) <= At(n)

Flagged ==
    LET Shows(type) == \E n \in Range(task.list) : events[n].event_type = type
    IN  /\ task.started = Shows("agent_started")
        /\ task.completed = (Shows("agent_completed") \/ Shows("agent_failed"))

ReplayInv ==
    task.op = "replay" /\ ~task.error =>
        /\ task.stage = "load" => ~task.started /\ ~task.completed
        /\ task.stage # "load" => Loaded
        /\ task.stage \in {"summarize", "done"} => Flagged

\* The events whose checks lost no count, and lost none to a reset.
Clean == charged \ doubtful

\* Every clean event is in the count, and in what a check under way will write
\* back: while two are under way neither of their events is clean.
QuotaOK ==
    /\ daily_limit \in DailyLimits /\ counted \in Nat
    /\ Checking \subseteq DOMAIN built /\ \A n \in Checking : held[n] \in Nat
    /\ doubtful \subseteq DOMAIN built
    /\ Cardinality(Clean) <= counted
    /\ \A n \in Checking : Cardinality(Clean \ {n}) <= held[n]
    /\ \A n, k \in Checking : n # k => k \in doubtful

\* A report shows events that the quota has let pass; from its read of the quota
\* on, it shows what it promises.
Counted == "counted_events" \in DOMAIN report /\ report.counted_events \subseteq charged

Room ==
    /\ {"daily_limit", "daily_remaining"} \subseteq DOMAIN report
    /\ report.daily_limit \in Nat /\ report.daily_remaining \in Nat
    /\ \/ report.daily_remaining = 0
       \/ Cardinality(report.counted_events \ doubtful) + report.daily_remaining
              <= report.daily_limit

Balanced == Counted /\ Room

ReportInv ==
    /\ report # NoReport => task.op = "report"
    /\ task.op = "report" =>
           IF task.error THEN task.stage = "done" /\ report = NoReport
           ELSE /\ task.stage \in {"events", "alerts", "quota"} =>
                       "daily_remaining" \notin DOMAIN report
                /\ task.stage \in {"alerts", "quota"} => Counted
                /\ task.stage \in {"policies", "done"} => Balanced

ReadersOK ==
    TaskOK /\ DirtyOK /\ ScanInv /\ ReplayInv /\ DirtStaysVisible /\ ReportInv

IInv == StoreOK /\ RestOK /\ QuotaOK /\ ReadersOK

----------------------------------------------------------------------------
(***************************************************************************)
(* What is stored stays as it is: the store only grows.                    *)
(***************************************************************************)

Grow ==
    /\ Stored \subseteq Stored' /\ \A n \in Stored : events'[n] = events[n]
    /\ DOMAIN entries \subseteq DOMAIN entries'
    /\ \A n \in DOMAIN entries : entries'[n] = entries[n]
    /\ charged \subseteq charged'

LEMMA Appended ==
    ASSUME NEW S, NEW s \in Seq(S), NEW e \in S
    PROVE  /\ Append(s, e) \in Seq(S) /\ DOMAIN s \subseteq DOMAIN Append(s, e)
           /\ \A i \in DOMAIN s : Append(s, e)[i] = s[i]
OBVIOUS

LEMMA BuildGrows ==
    ASSUME StoreOK, NEW e \in Event, Build(e)
    PROVE  StoreOK' /\ Grow
<1>1. /\ built \in Seq(Event) /\ charged \subseteq DOMAIN built /\ Stored \subseteq charged
      /\ \A n \in Stored : events[n] = RecordOf(built[n])
      /\ entries \in Seq(Times) /\ rows \in 0 .. MaxRows
  BY DEF StoreOK
<1>2. /\ built' = Append(built, e) /\ rows < MaxRows /\ rows' = rows + 1
      /\ charged' = charged /\ events' = events /\ entries' = entries
  BY DEF Build, AddRow
<1>3. /\ built' \in Seq(Event) /\ DOMAIN built \subseteq DOMAIN built'
      /\ \A i \in DOMAIN built : built'[i] = built[i]
  BY <1>1, <1>2, Appended
<1>4. rows' \in 0 .. MaxRows
  BY <1>1, <1>2, BoundsAssumption
<1>5. \A n \in Stored : events[n] = RecordOf(built'[n])
  BY <1>1, <1>3
<1>6. StoreOK'
  BY <1>1, <1>2, <1>3, <1>4, <1>5 DEF StoreOK, Stored, RecordOf
<1>7. Grow
  BY <1>2 DEF Grow, Stored
<1>8. QED  BY <1>6, <1>7

LEMMA PassGrows ==
    ASSUME StoreOK, NEW n \in DOMAIN built, Pass(n)
    PROVE  StoreOK' /\ Grow
<1>1. /\ charged' = charged \cup {n}
      /\ built' = built /\ events' = events /\ entries' = entries /\ rows' = rows
  BY DEF Pass
<1>2. StoreOK'
  BY <1>1 DEF StoreOK, Stored, RecordOf
<1>3. Grow
  BY <1>1 DEF Grow, Stored
<1>4. QED  BY <1>2, <1>3

LEMMA StoreGrows ==
    ASSUME StoreOK, NEW n \in DOMAIN built, Store(n)
    PROVE  StoreOK' /\ Grow
<1>1. /\ n \in charged /\ n \notin Stored
      /\ events' = [m \in Stored \cup {n} |->
                       IF m = n THEN RecordOf(built[n]) ELSE events[m]]
      /\ built' = built /\ charged' = charged /\ entries' = entries /\ rows' = rows
  BY DEF Store
<1>2. /\ Stored' = Stored \cup {n}
      /\ \A m \in Stored : events'[m] = events[m]
      /\ events'[n] = RecordOf(built[n])
  <2>1. Stored' = DOMAIN events'
    BY DEF Stored
  <2>2. QED  BY <1>1, <2>1
<1>3. \A m \in Stored' : events'[m] = RecordOf(built[m])
  BY <1>2 DEF StoreOK
<1>4. StoreOK'
  BY <1>1, <1>2, <1>3 DEF StoreOK, RecordOf
<1>5. Grow
  BY <1>1, <1>2 DEF Grow
<1>6. QED  BY <1>4, <1>5

LEMMA EntryGrows ==
    ASSUME StoreOK, NEW time \in Times, RecordEntry(time)
    PROVE  StoreOK' /\ Grow
<1>1. /\ entries \in Seq(Times) /\ rows \in 0 .. MaxRows
  BY DEF StoreOK
<1>2. /\ entries' = Append(entries, time) /\ rows < MaxRows /\ rows' = rows + 1
      /\ charged' = charged /\ events' = events /\ built' = built
  BY DEF RecordEntry, AddRow
<1>3. /\ entries' \in Seq(Times) /\ DOMAIN entries \subseteq DOMAIN entries'
      /\ \A i \in DOMAIN entries : entries'[i] = entries[i]
  BY <1>1, <1>2, Appended
<1>4. rows' \in 0 .. MaxRows
  BY <1>1, <1>2, BoundsAssumption
<1>5. StoreOK'
  BY <1>2, <1>3, <1>4 DEF StoreOK, Stored, RecordOf
<1>6. Grow
  BY <1>2, <1>3 DEF Grow, Stored
<1>7. QED  BY <1>5, <1>6

\* The same rows, and perhaps one of another table.
LEMMA RestGrows ==
    ASSUME StoreOK, UNCHANGED <<built, charged, events, entries>>, AddRow \/ UNCHANGED rows
    PROVE  StoreOK' /\ Grow
<1>1. rows \in 0 .. MaxRows
  BY DEF StoreOK
<1>2. rows' \in 0 .. MaxRows
  <2>1. CASE AddRow
    BY <1>1, <2>1, BoundsAssumption DEF AddRow
  <2>2. QED  BY <1>1, <2>1
<1>3. StoreOK'
  BY <1>2 DEF StoreOK, Stored, RecordOf
<1>4. Grow
  BY DEF Grow, Stored
<1>5. QED  BY <1>3, <1>4

\* No row loses its place among the older ones, and none gets a time of its own.
LEMMA GrowRows ==
    ASSUME StoreOK, StoreOK', Grow, NEW source \in Sources
    PROVE  /\ RowsIn(source) \subseteq RowsIn(source)'
           /\ \A n \in RowsIn(source) : TimeOf(source, n)' = TimeOf(source, n)
           /\ RowsIn(source) \cap Untied(source)' \subseteq Untied(source)
           /\ \A n \in RowsIn(source) :
                  /\ Cardinality(NewerThan(source, n)) \in Nat
                  /\ Cardinality(NewerThan(source, n)') \in Nat
                  /\ Cardinality(NewerThan(source, n)) <= Cardinality(NewerThan(source, n)')
<1>1. /\ RowsIn(source) \subseteq RowsIn(source)'
      /\ \A n \in RowsIn(source) : TimeOf(source, n)' = TimeOf(source, n)
  BY DEF RowsIn, TimeOf, Grow, Sources
<1>2. RowsIn(source) \cap Untied(source)' \subseteq Untied(source)
  BY <1>1 DEF Untied
<1>3. IsFiniteSet(RowsIn(source)')
  <2>1. /\ built' \in Seq(Event) /\ entries' \in Seq(Times)
        /\ Stored' \in SUBSET DOMAIN built'
    BY DEF StoreOK
  <2>2. IsFiniteSet(Stored') /\ IsFiniteSet(DOMAIN entries')
    BY <2>1, PlacesFinite
  <2>3. RowsIn(source)' \in {Stored', DOMAIN entries'}
    BY DEF RowsIn, Sources
  <2>4. QED  BY <2>2, <2>3
<1>4. ASSUME NEW n \in RowsIn(source)
      PROVE  /\ Cardinality(NewerThan(source, n)) \in Nat
             /\ Cardinality(NewerThan(source, n)') \in Nat
             /\ Cardinality(NewerThan(source, n)) <= Cardinality(NewerThan(source, n)')
  <2>1. PICK A, B, R : /\ A = NewerThan(source, n) /\ B = NewerThan(source, n)'
                       /\ R = RowsIn(source)'
    OBVIOUS
  <2>2. A \subseteq B /\ B \subseteq R /\ IsFiniteSet(R)
    BY <1>1, <1>3, <2>1 DEF NewerThan
  <2>3. IsFiniteSet(B)
    BY <2>2, FS_Subset
  <2>4. IsFiniteSet(A) /\ Cardinality(A) <= Cardinality(B)
    BY <2>2, <2>3, FS_Subset
  <2>5. Cardinality(A) \in Nat /\ Cardinality(B) \in Nat
    BY <2>3, <2>4, FS_CardinalityType
  <2>6. QED  BY <2>1, <2>4, <2>5
<1>5. QED  BY <1>1, <1>2, <1>4

----------------------------------------------------------------------------
(***************************************************************************)
(* The count of the quota.                                                 *)
(***************************************************************************)

LEMMA CleanFinite ==
    ASSUME StoreOK
    PROVE  /\ IsFiniteSet(Clean) /\ Cardinality(Clean) \in Nat
           /\ \A n : /\ Cardinality(Clean \ {n}) \in Nat
                     /\ Cardinality(Clean \ {n}) <= Cardinality(Clean)
                     /\ Cardinality(Clean) <= Cardinality(Clean \ {n}) + 1
<1>1. Clean \in SUBSET charged /\ IsFiniteSet(charged)
  BY RowsFinite DEF Clean, Sources
<1>2. IsFiniteSet(Clean) /\ Cardinality(Clean) \in Nat
  BY <1>1, FS_Subset, FS_CardinalityType
<1>3. ASSUME NEW n
      PROVE  /\ Cardinality(Clean \ {n}) \in Nat
             /\ Cardinality(Clean \ {n}) <= Cardinality(Clean)
             /\ Cardinality(Clean) <= Cardinality(Clean \ {n}) + 1
  <2>1. /\ IsFiniteSet(Clean \ {n})
        /\ Cardinality(Clean \ {n}) =
               IF n \in Clean THEN Cardinality(Clean) - 1 ELSE Cardinality(Clean)
    BY <1>2, FS_RemoveElement
  <2>2. Cardinality(Clean \ {n}) \in Nat
    BY <2>1, FS_CardinalityType
  <2>3. QED  BY <1>2, <2>1, <2>2
<1>4. QED  BY <1>2, <1>3

\* Who does not count does not change what the count covers.
LEMMA QuotaStays ==
    ASSUME QuotaOK, charged' = charged, UNCHANGED quotaVars, DOMAIN built \subseteq DOMAIN built'
    PROVE  QuotaOK'
<1>1. Checking' = Checking /\ Clean' = Clean
  BY DEF Checking, Clean, quotaVars
<1>2. QED  BY <1>1 DEF QuotaOK, quotaVars

LEMMA ReadCountKeeps ==
    ASSUME StoreOK, QuotaOK, NEW n \in DOMAIN built, ReadCount(n)
    PROVE  QuotaOK'
<1>1. /\ n \notin Checking /\ UNCHANGED <<charged, built, daily_limit, counted>>
      /\ held' = [m \in Checking \cup {n} |-> IF m = n THEN counted ELSE held[m]]
      /\ doubtful' = doubtful \cup (IF Checking = {} THEN {} ELSE Checking \cup {n})
  BY DEF ReadCount, storeVars
<1>2. /\ Checking' = Checking \cup {n} /\ held'[n] = counted
      /\ \A k \in Checking : held'[k] = held[k]
  <2>1. Checking' = DOMAIN held'
    BY DEF Checking
  <2>2. QED  BY <1>1, <2>1
<1>3. Clean' \in SUBSET Clean /\ IsFiniteSet(Clean)
  BY <1>1, CleanFinite DEF Clean
<1>4. IsFiniteSet(Clean') /\ Cardinality(Clean') <= Cardinality(Clean)
  BY <1>3, FS_Subset
<1>5. /\ Cardinality(Clean') \in Nat /\ Cardinality(Clean) \in Nat
      /\ Cardinality(Clean) <= counted /\ counted \in Nat
  BY <1>4, CleanFinite, FS_CardinalityType DEF QuotaOK
<1>6. Cardinality(Clean') <= counted
  BY <1>4, <1>5
<1>7. ASSUME NEW k \in Checking' PROVE Cardinality(Clean' \ {k}) <= held'[k]
  <2>1. PICK A, B : A = Clean' \ {k} /\ B = Clean \ {k}
    OBVIOUS
  <2>2. A \in SUBSET B /\ A \in SUBSET Clean' /\ B \in SUBSET Clean
    BY <1>3, <2>1
  <2>3. /\ IsFiniteSet(B) /\ Cardinality(A) <= Cardinality(Clean')
    BY <1>3, <1>4, <2>2, FS_Subset
  <2>4. IsFiniteSet(A) /\ Cardinality(A) <= Cardinality(B)
    BY <2>2, <2>3, FS_Subset
  <2>5. Cardinality(A) \in Nat /\ Cardinality(B) \in Nat
    BY <2>3, <2>4, FS_CardinalityType
  <2>6. CASE k = n
    BY <1>1, <1>2, <1>5, <1>6, <2>1, <2>3, <2>5, <2>6
  <2>7. CASE k \in Checking
    <3>1. Cardinality(B) <= held[k] /\ held[k] \in Nat /\ held'[k] = held[k]
      BY <1>2, <2>1, <2>7 DEF QuotaOK
    <3>2. QED  BY <2>1, <2>4, <2>5, <3>1
  <2>8. QED  BY <1>2, <2>6, <2>7
<1>8. \A m, k \in Checking' : m # k => k \in doubtful'
  BY <1>1, <1>2 DEF QuotaOK
<1>9. /\ Checking' \subseteq DOMAIN built' /\ \A k \in Checking' : held'[k] \in Nat
      /\ doubtful' \subseteq DOMAIN built'
  BY <1>1, <1>2, <1>5 DEF QuotaOK
<1>10. QED  BY <1>1, <1>5, <1>6, <1>7, <1>8, <1>9 DEF QuotaOK

\* A check writes its own event to the count; while another one is under way, its
\* event is not clean.
LEMMA CommitCountKeeps ==
    ASSUME StoreOK, QuotaOK, NEW n \in DOMAIN built, CommitCount(n)
    PROVE  QuotaOK'
<1>1. /\ n \in Checking /\ counted' = held[n] + 1
      /\ UNCHANGED <<built, daily_limit, doubtful>>
      /\ charged' = charged \cup {n} \/ charged' = charged
      /\ held' = [m \in Checking \ {n} |-> held[m]]
  BY DEF CommitCount, Pass, storeVars, Restrict
<1>2. Checking' = Checking \ {n} /\ \A k \in Checking' : held'[k] = held[k]
  <2>1. Checking' = DOMAIN held'
    BY DEF Checking
  <2>2. QED  BY <1>1, <2>1
<1>3. held[n] \in Nat /\ Cardinality(Clean \ {n}) <= held[n]
  BY <1>1 DEF QuotaOK
<1>4. Cardinality(Clean') <= counted' /\ counted' \in Nat
  <2>1. PICK A, B : A = Clean' /\ B = Clean \ {n}
    OBVIOUS
  <2>2. A \in SUBSET (B \cup {n})
    BY <1>1, <2>1 DEF Clean
  <2>3. B \in SUBSET Clean /\ IsFiniteSet(Clean) /\ Cardinality(B) \in Nat
    BY <2>1, CleanFinite
  <2>4. IsFiniteSet(B)
    BY <2>3, FS_Subset
  <2>5. IsFiniteSet(B \cup {n}) /\ Cardinality(B \cup {n}) <= Cardinality(B) + 1
    BY <2>3, <2>4, FS_AddElement
  <2>6. IsFiniteSet(A) /\ Cardinality(A) <= Cardinality(B \cup {n})
    BY <2>2, <2>5, FS_Subset
  <2>7. Cardinality(A) \in Nat /\ Cardinality(B \cup {n}) \in Nat
    BY <2>5, <2>6, FS_CardinalityType
  <2>8. Cardinality(B) <= held[n]
    BY <1>3, <2>1
  <2>9. Cardinality(A) <= held[n] + 1
    BY <1>3, <2>3, <2>5, <2>6, <2>7, <2>8
  <2>10. QED  BY <1>1, <1>3, <2>1, <2>9
<1>5. ASSUME NEW k \in Checking' PROVE Cardinality(Clean' \ {k}) <= held'[k]
  <2>1. k \in Checking /\ k # n /\ held'[k] = held[k]
    BY <1>2
  <2>2. n \in doubtful
    BY <1>1, <2>1 DEF QuotaOK
  <2>3. Clean' = Clean
    BY <1>1, <2>2 DEF Clean
  <2>4. QED  BY <2>1, <2>3 DEF QuotaOK
<1>6. /\ Checking' \subseteq DOMAIN built' /\ \A k \in Checking' : held'[k] \in Nat
      /\ doubtful' \subseteq DOMAIN built'
      /\ \A m, k \in Checking' : m # k => k \in doubtful'
  BY <1>1, <1>2 DEF QuotaOK
<1>7. daily_limit' \in DailyLimits
  BY <1>1 DEF QuotaOK
<1>8. QED  BY <1>4, <1>5, <1>6, <1>7 DEF QuotaOK

LEMMA DropCheckKeeps ==
    ASSUME QuotaOK, NEW n, DropCheck(n)
    PROVE  QuotaOK'
<1>1. /\ UNCHANGED <<built, charged, daily_limit, counted, doubtful>>
      /\ held' = [m \in Checking \ {n} |-> held[m]]
  BY DEF DropCheck, storeVars, Restrict
<1>2. Checking' = Checking \ {n} /\ \A k \in Checking' : held'[k] = held[k]
  <2>1. Checking' = DOMAIN held'
    BY DEF Checking
  <2>2. QED  BY <1>1, <2>1
<1>3. Clean' = Clean
  BY <1>1 DEF Clean
<1>4. QED  BY <1>1, <1>2, <1>3 DEF QuotaOK

\* Nothing is clean any more.
LEMMA ResetCountKeeps ==
    ASSUME StoreOK, QuotaOK, ResetCount
    PROVE  QuotaOK'
<1>1. /\ UNCHANGED <<built, charged, daily_limit, held>>
      /\ counted' = 0 /\ doubtful' = doubtful \cup charged
  BY DEF ResetCount, storeVars
<1>2. Checking' = Checking
  BY <1>1 DEF Checking
<1>3. Clean' = {} /\ \A n : Clean' \ {n} = {}
  BY <1>1 DEF Clean
<1>4. Cardinality({}) = 0
  BY FS_EmptySet
<1>5. charged \subseteq DOMAIN built
  BY DEF StoreOK
<1>6. QED  BY <1>1, <1>2, <1>3, <1>4, <1>5 DEF QuotaOK

LEMMA ProvisionKeeps ==
    ASSUME QuotaOK, NEW new \in DailyLimits, Provision(new)
    PROVE  QuotaOK'
<1>1. /\ UNCHANGED <<built, charged, counted, held, doubtful>> /\ daily_limit' = new
  BY DEF Provision, storeVars
<1>2. Checking' = Checking /\ Clean' = Clean
  BY <1>1 DEF Checking, Clean
<1>3. QED  BY <1>1, <1>2 DEF QuotaOK

----------------------------------------------------------------------------
(***************************************************************************)
(* The readers while the store grows.                                      *)
(***************************************************************************)

LEMMA NoTaskOK == NoTask \in Task
<1>1. <<>> \in Seq(Nat) /\ {} \in SUBSET Nat
  OBVIOUS
<1>2. QED  BY <1>1 DEF NoTask, Task, Sources

\* Altered rows stay as they are.
LEMMA DirtyStays ==
    ASSUME DirtyOK, Grow, dirty' = dirty
    PROVE  DirtyOK'
BY DEF DirtyOK, Grow, Altered

\* A reader that has done its work, and its answer, are forgotten.
LEMMA Forgotten ==
    ASSUME DirtyOK, Grow, dirty' = dirty, task' = NoTask, report' = NoReport
    PROVE  ReadersOK'
<1>1. /\ task'.op = "none" /\ task'.stage = "done" /\ task'.source = "events"
      /\ task'.seen = {} /\ task'.present = {} /\ task' \in Task
  BY NoTaskOK DEF NoTask
<1>2. TaskOK'
  BY <1>1 DEF TaskOK, StagesOf
<1>3. ScanInv' /\ ReplayInv' /\ DirtStaysVisible' /\ ReportInv'
  BY <1>1 DEF ScanInv, ReplayInv, DirtStaysVisible, ReportInv
<1>4. QED  BY <1>2, <1>3, DirtyStays DEF ReadersOK

\* What a replay has loaded stays what it is.
LEMMA LoadedStays ==
    ASSUME StoreOK, TaskOK, Grow, task.op = "replay", Loaded,
           task'.list = task.list, task'.present = task.present
    PROVE  /\ Loaded'
           /\ \A n \in Range(task.list) : events'[n] = events[n]
<1>1. task.present \subseteq Stored
  BY DEF TaskOK, RowsIn
<1>2. Range(task.list) \subseteq task.present
  BY DEF Loaded
<1>3. \A n \in task.present : events'[n] = events[n]
  BY <1>1 DEF Grow
<1>4. \A i \in DOMAIN task.list : task.list[i] \in task.present
  BY <1>2 DEF Range
<1>5. Loaded'
  BY <1>2, <1>3, <1>4 DEF Loaded
<1>6. QED  BY <1>2, <1>3, <1>5

LEMMA ScanStays ==
    ASSUME StoreOK, StoreOK', TaskOK, ScanInv, Grow, task' = task
    PROVE  ScanInv'
<1> SUFFICES ASSUME task.op = "scan", ~task.error,
                    NEW n \in task.present, n \in Untied(task.source)'
             PROVE  LET newer == Cardinality(NewerThan(task.source, n)')
                        next == task.offset + PageLimit
                    IN  \/ n \in task.seen
                        \/ task.stage = "list" /\ newer >= task.offset
                        \/ task.stage = "count" /\ newer >= next
                        \/ task.stage = "answered" /\ newer >= next /\ task.total > next
  BY DEF ScanInv
<1>1. task.source \in Sources /\ task.offset \in Nat /\ PageLimit \in Nat
  BY LimitsAssumption DEF TaskOK, Task
<1>2. n \in RowsIn(task.source)
  BY DEF TaskOK
<1>3. PICK source \in Sources : source = task.source
  BY <1>1
<1>4. n \in Untied(task.source)
  BY <1>2, <1>3, GrowRows
<1>5. /\ Cardinality(NewerThan(source, n)) \in Nat
      /\ Cardinality(NewerThan(source, n)') \in Nat
      /\ Cardinality(NewerThan(source, n)) <= Cardinality(NewerThan(source, n)')
  BY <1>2, <1>3, GrowRows
<1>6. PICK older \in Nat, newer \in Nat :
          /\ older = Cardinality(NewerThan(task.source, n))
          /\ newer = Cardinality(NewerThan(task.source, n)') /\ older <= newer
  BY <1>3, <1>5
<1>7. \/ n \in task.seen
      \/ task.stage = "list" /\ older >= task.offset
      \/ task.stage = "count" /\ older >= task.offset + PageLimit
      \/ /\ task.stage = "answered" /\ older >= task.offset + PageLimit
         /\ task.total > task.offset + PageLimit
  BY <1>4, <1>6 DEF ScanInv
<1>8. QED  BY <1>1, <1>6, <1>7

\* What is in doubt stays in doubt.
LEMMA ReportStays ==
    ASSUME StoreOK, ReportInv, Grow, doubtful \subseteq doubtful',
           task' = task, report' = report
    PROVE  ReportInv'
<1>1. Counted => Counted'
  BY DEF Counted, Grow
<1>2. ASSUME Balanced PROVE Balanced'
  <2>1. PICK A, B : /\ A = report.counted_events \ doubtful
                    /\ B = (report.counted_events \ doubtful)'
    OBVIOUS
  <2>2. /\ report.counted_events \in SUBSET charged /\ B \in SUBSET A
        /\ A \in SUBSET charged
    BY <1>2, <2>1 DEF Balanced, Counted
  <2>3. IsFiniteSet(charged)
    BY RowsFinite DEF Sources
  <2>4. IsFiniteSet(A)
    BY <2>2, <2>3, FS_Subset
  <2>5. IsFiniteSet(B) /\ Cardinality(B) <= Cardinality(A)
    BY <2>2, <2>4, FS_Subset
  <2>6. Cardinality(A) \in Nat /\ Cardinality(B) \in Nat
    BY <2>4, <2>5, FS_CardinalityType
  <2>7. Room'
    BY <1>2, <2>1, <2>5, <2>6 DEF Balanced, Room
  <2>8. QED  BY <1>1, <1>2, <2>7 DEF Balanced
<1>3. QED  BY <1>1, <1>2 DEF ReportInv

\* Nothing that a reader has found so far is lost by what is stored meanwhile.
LEMMA Kept ==
    ASSUME StoreOK, StoreOK', ReadersOK, Grow, doubtful \subseteq doubtful',
           dirty' = dirty, task' = task, report' = report, ~AtRest
    PROVE  ReadersOK'
<1> USE DEF ReadersOK
<1>1. TaskOK'
  <2>1. PICK source \in Sources : source = task.source
    BY DEF TaskOK, Task
  <2>2. RowsIn(source) \subseteq RowsIn(source)'
    BY GrowRows
  <2>3. QED  BY <2>1, <2>2 DEF TaskOK
<1>2. ReplayInv'
  <2>1. ASSUME task.op = "replay", Loaded PROVE Loaded'
    BY <2>1, LoadedStays
  <2>2. ASSUME task.op = "replay", Loaded, Flagged PROVE Flagged'
    <3>1. \A n \in Range(task.list) : events'[n] = events[n]
      BY <2>2, LoadedStays
    <3>2. QED  BY <2>2, <3>1 DEF Flagged
  <2>3. QED  BY <2>1, <2>2 DEF ReplayInv
<1>3. DirtStaysVisible'
  BY DEF DirtStaysVisible, AtRest
<1>4. QED  BY <1>1, <1>2, <1>3, DirtyStays, ScanStays, ReportStays

\* A step that changes the store: a reader that is at work goes on.
LEMMA StoreStep ==
    ASSUME StoreOK, StoreOK', ReadersOK, Grow, doubtful \subseteq doubtful', Forget,
           report' = IF AtRest THEN NoReport ELSE report
    PROVE  ReadersOK'
<1>1. CASE AtRest
  BY <1>1, Forgotten DEF Forget, ReadersOK
<1>2. CASE ~AtRest
  BY <1>2, Kept DEF Forget
<1>3. QED  BY <1>1, <1>2

----------------------------------------------------------------------------
(***************************************************************************)
(* A list that is read page by page.                                       *)
(***************************************************************************)

\* What is left to show of a step of a reader that makes no report.
LEMMA ReaderStep ==
    ASSUME ReadersOK, UNCHANGED <<storeVars, dirty>>, report' = NoReport,
           task'.op # "report", TaskOK',
           task'.op = "scan" => ScanInv', task'.op = "replay" => ReplayInv',
           task'.op = "verify" => task'.stage # "done"
    PROVE  ReadersOK'
<1>1. DirtyOK'
  BY DEF ReadersOK, DirtyOK, Stored, Altered, storeVars
<1>2. ScanInv' /\ ReplayInv' /\ DirtStaysVisible' /\ ReportInv'
  BY DEF ScanInv, ReplayInv, DirtStaysVisible, ReportInv
<1>3. QED  BY <1>1, <1>2 DEF ReadersOK

LEMMA SameRows ==
    ASSUME UNCHANGED storeVars, NEW source
    PROVE  /\ RowsIn(source)' = RowsIn(source) /\ Untied(source)' = Untied(source)
           /\ \A n : NewerThan(source, n)' = NewerThan(source, n)
           /\ Stored' = Stored
BY DEF storeVars, RowsIn, Untied, NewerThan, TimeOf, Stored

LEMMA NewerFinite ==
    ASSUME StoreOK, NEW source \in Sources, NEW n
    PROVE  Cardinality(NewerThan(source, n)) \in Nat
<1>1. NewerThan(source, n) \in SUBSET RowsIn(source) /\ IsFiniteSet(RowsIn(source))
  BY RowsFinite DEF NewerThan
<1>2. IsFiniteSet(NewerThan(source, n))
  BY <1>1, FS_Subset
<1>3. QED  BY <1>2, FS_CardinalityType

\* The place of a row with a time of its own is told by the rows that are newer.
LEMMA PlaceOfUntied ==
    ASSUME StoreOK, NEW source \in Sources, NEW q \in NewestFirst(source),
           NEW i \in 1 .. Cardinality(RowsIn(source)), q[i] \in Untied(source)
    PROVE  Cardinality(NewerThan(source, q[i])) = i - 1
<1> DEFINE S == RowsIn(source)
           n == Cardinality(S)
           T == {q[j] : j \in 1 .. i - 1}
<1>1. /\ IsList(q, S, n)
      /\ \A j, k \in 1 .. n : j < k => TimeOf(source, q[j]) >= TimeOf(source, q[k])
  BY NewestFacts
<1>2. /\ n \in Nat
      /\ \A j \in 1 .. n : q[j] \in S /\ TimeOf(source, q[j]) \in Int
      /\ \A j, k \in 1 .. n : j # k => q[j] # q[k]
      /\ \A x \in S : \E j \in 1 .. n : q[j] = x
  BY <1>1, RowsFinite DEF IsList
<1>3. \A x \in S \ {q[i]} : TimeOf(source, x) # TimeOf(source, q[i])
  BY DEF Untied
<1>4. i - 1 \in Nat /\ i \in 1 .. n /\ \A j \in 1 .. i - 1 : j \in 1 .. n /\ j < i
  BY <1>2
<1> HIDE DEF S, n
<1>5. NewerThan(source, q[i]) = {x \in S : TimeOf(source, x) > TimeOf(source, q[i])}
  BY DEF NewerThan, S
<1>6. ASSUME NEW j \in 1 .. i - 1
      PROVE  TimeOf(source, q[j]) > TimeOf(source, q[i])
  <2>1. q[j] \in S /\ q[j] # q[i]
    BY <1>2, <1>4
  <2>2. /\ TimeOf(source, q[j]) >= TimeOf(source, q[i])
        /\ TimeOf(source, q[j]) # TimeOf(source, q[i])
    BY <1>1, <1>3, <1>4, <2>1
  <2>3. TimeOf(source, q[j]) \in Int /\ TimeOf(source, q[i]) \in Int
    BY <1>2, <1>4
  <2>4. QED  BY <2>2, <2>3
<1>7. ASSUME NEW x \in S, TimeOf(source, x) > TimeOf(source, q[i])
      PROVE  x \in T
  <2>1. PICK j \in 1 .. n : q[j] = x
    BY <1>2
  <2>2. TimeOf(source, q[j]) \in Int /\ TimeOf(source, q[i]) \in Int
    BY <1>2, <1>4
  <2>3. j # i
    BY <1>7, <2>1, <2>2
  <2>4. ~(i < j)
    <3>1. i < j => TimeOf(source, q[i]) >= TimeOf(source, q[j])
      BY <1>1, <1>4
    <3>2. QED  BY <1>7, <2>1, <2>2, <3>1
  <2>5. j \in 1 .. i - 1
    BY <1>2, <1>4, <2>3, <2>4
  <2>6. QED  BY <2>1, <2>5
<1>8. NewerThan(source, q[i]) = T
  <2>1. \A j \in 1 .. i - 1 : q[j] \in S
    BY <1>2, <1>4
  <2>2. QED  BY <1>5, <1>6, <1>7, <2>1
<1>9. Cardinality(T) = i - 1
  <2>1. PICK m \in Nat : m = i - 1
    BY <1>4
  <2>2. /\ \A j \in 1 .. m : q[j] \in S
        /\ \A j, k \in 1 .. m : j # k => q[j] # q[k]
    BY <1>2, <1>4, <2>1
  <2>3. Cardinality({q[j] : j \in 1 .. m}) = m
    BY <2>2, CountPlaces
  <2>4. QED  BY <2>1, <2>3
<1>10. QED  BY <1>8, <1>9

LEMMA BeginIsFresh ==
    ASSUME StoreOK, NEW op \in {"scan", "replay", "verify", "report"},
           NEW source \in Sources, NEW stage \in StagesOf(op),
           op # "scan" => source = "events", Begin(op, source, stage)
    PROVE  /\ TaskOK' /\ AtRest /\ UNCHANGED <<storeVars, dirty>>
           /\ task'.op = op /\ task'.source = source /\ task'.stage = stage
           /\ task'.offset = 0 /\ ~task'.started /\ ~task'.completed /\ ~task'.error
           /\ op = "scan" => task'.present = RowsIn(source)
<1> DEFINE present == IF op = "scan" THEN RowsIn(source) ELSE {}
<1>1. /\ task' = [NoTask EXCEPT !.op = op, !.source = source, !.stage = stage,
                                !.present = present]
      /\ AtRest /\ UNCHANGED <<storeVars, dirty>>
  BY DEF Begin
<1>2. present \in SUBSET Nat /\ present \subseteq RowsIn(source)
  BY RowsFinite
<1>3. stage \in {"done", "list", "count", "answered", "load", "replay", "summarize",
                 "verify", "events", "alerts", "quota", "policies"}
  BY DEF StagesOf
<1>4. (op = "scan") => present = RowsIn(source)
  OBVIOUS
<1> HIDE DEF present
<1>5. /\ task' \in Task
      /\ task'.op = op /\ task'.source = source /\ task'.stage = stage
      /\ task'.offset = 0 /\ task'.seen = {} /\ task'.present = present
      /\ ~task'.started /\ ~task'.completed /\ ~task'.error
  <2>1. \A j \in Task :
            /\ [j EXCEPT !.op = op, !.source = source, !.stage = stage,
                         !.present = present] \in Task
            /\ [j EXCEPT !.op = op, !.source = source, !.stage = stage,
                         !.present = present].op = op
            /\ [j EXCEPT !.op = op, !.source = source, !.stage = stage,
                         !.present = present].source = source
            /\ [j EXCEPT !.op = op, !.source = source, !.stage = stage,
                         !.present = present].stage = stage
            /\ [j EXCEPT !.op = op, !.source = source, !.stage = stage,
                         !.present = present].present = present
    BY <1>2, <1>3 DEF Task
  <2>2. /\ task' \in Task /\ task'.op = op /\ task'.source = source
        /\ task'.stage = stage /\ task'.present = present
    BY <1>1, <2>1, NoTaskOK
  <2>3. /\ task'.offset = NoTask.offset /\ task'.seen = NoTask.seen
        /\ task'.started = NoTask.started /\ task'.completed = NoTask.completed
        /\ task'.error = NoTask.error
    BY <1>1 DEF NoTask
  <2>4. QED  BY <2>2, <2>3 DEF NoTask
<1>6. RowsIn(source)' = RowsIn(source)
  BY <1>1, SameRows
<1>7. TaskOK'
  BY <1>2, <1>5, <1>6 DEF TaskOK
<1>8. QED  BY <1>1, <1>4, <1>5, <1>7

LEMMA BeginScanOK ==
    ASSUME StoreOK, ReadersOK, NEW source \in Sources, BeginScan(source),
           report' = NoReport
    PROVE  ReadersOK'
<1>1. "list" \in StagesOf("scan")
  BY DEF StagesOf
<1>2. /\ TaskOK' /\ UNCHANGED <<storeVars, dirty>>
      /\ task'.op = "scan" /\ task'.source = source /\ task'.stage = "list"
      /\ task'.offset = 0
  BY <1>1, BeginIsFresh DEF BeginScan
<1>3. \A n : Cardinality(NewerThan(source, n)') \in Nat
  BY <1>2, NewerFinite, SameRows
<1>4. ScanInv'
  BY <1>2, <1>3 DEF ScanInv
<1>5. QED  BY <1>2, <1>4, ReaderStep

\* A row that the page misses comes after it.
LEMMA ListPageOK ==
    ASSUME StoreOK, ReadersOK, ListPage, report' = NoReport
    PROVE  ReadersOK'
<1> DEFINE j == task
<1>1. task.op = "scan" /\ task.stage = "list"
  BY DEF ListPage
<1>2. PICK q \in NewestFirst(task.source) :
          /\ task' = [task EXCEPT !.stage = "count",
                                  !.seen = @ \cup Range(Page(q, PageLimit, task.offset))]
          /\ UNCHANGED <<storeVars, dirty>>
  BY DEF ListPage, Goto
<1>3. task \in Task /\ task.seen \subseteq RowsIn(task.source)
      /\ task.present \subseteq RowsIn(task.source)
  BY DEF ReadersOK, TaskOK
<1>4. PICK source \in Sources, offset \in Nat : source = task.source /\ offset = task.offset
  BY <1>3 DEF Task
<1>5. PICK seen : seen = task.seen \cup Range(Page(q, PageLimit, offset))
  OBVIOUS
<1>6. PICK n \in Nat : n = Cardinality(RowsIn(source))
  BY RowsFinite
<1>7. /\ q \in NewestFirst(source) /\ IsList(q, RowsIn(source), n) /\ PageLimit \in Nat
  BY <1>2, <1>4, <1>6, NewestFacts, LimitsAssumption
<1>8. Range(Page(q, PageLimit, offset)) \subseteq RowsIn(source)
  <2>1. Page(q, PageLimit, offset) \in Seq(RowsIn(source))
    BY <1>7, PageFacts
  <2>2. QED  BY <2>1 DEF Range
<1>9. /\ task' \in Task /\ task'.op = "scan" /\ task'.stage = "count"
      /\ task'.source = source /\ task'.offset = offset /\ task'.present = task.present
      /\ task'.seen = seen /\ task'.error = task.error
  <2>1. seen \in SUBSET Nat
    BY <1>3, <1>4, <1>5, <1>8, RowsFinite
  <2>2. j \in Task /\ j.op = "scan" /\ j.source = source /\ j.offset = offset
        /\ task' = [j EXCEPT !.stage = "count", !.seen = seen]
    BY <1>1, <1>2, <1>3, <1>4, <1>5
  <2> HIDE DEF j
  <2>3. /\ task' \in Task /\ task'.op = "scan" /\ task'.stage = "count"
        /\ task'.source = source /\ task'.offset = offset /\ task'.present = j.present
        /\ task'.seen = seen /\ task'.error = j.error
    BY <2>1, <2>2 DEF Task
  <2>4. QED  BY <2>3 DEF j
<1>10. TaskOK'
  <2>1. RowsIn(source)' = RowsIn(source)
    BY <1>2, SameRows
  <2>2. seen \subseteq RowsIn(source)
    BY <1>3, <1>4, <1>5, <1>8
  <2>3. "count" \in StagesOf("scan")
    BY DEF StagesOf
  <2>4. QED  BY <1>3, <1>4, <1>9, <2>1, <2>2, <2>3 DEF TaskOK
<1>11. ScanInv'
  <2> SUFFICES ASSUME ~task.error, NEW x \in task.present, x \in Untied(source)
               PROVE  \/ x \in seen
                      \/ Cardinality(NewerThan(source, x)) >= offset + PageLimit
    BY <1>2, <1>9, SameRows DEF ScanInv
  <2>1. x \in task.seen \/ Cardinality(NewerThan(source, x)) >= offset
    BY <1>1, <1>4 DEF ReadersOK, ScanInv
  <2>2. x \in RowsIn(source)
    BY <1>3, <1>4
  <2>3. PICK i \in 1 .. n : q[i] = x
    BY <1>7, <2>2 DEF IsList
  <2>4. Cardinality(NewerThan(source, x)) = i - 1
    BY <1>6, <1>7, <2>3, PlaceOfUntied
  <2>5. CASE x \in task.seen
    BY <1>5, <2>5
  <2>6. CASE x \notin task.seen /\ i <= offset + PageLimit
    <3>1. offset < i
      BY <2>1, <2>4, <2>6
    <3>2. q[i] \in Range(Page(q, PageLimit, offset))
      BY <1>7, <2>6, <3>1, PageRows
    <3>3. QED  BY <1>5, <2>3, <3>2
  <2>7. CASE ~(i <= offset + PageLimit)
    BY <1>7, <2>4, <2>7
  <2>8. QED  BY <2>5, <2>6, <2>7
<1>12. QED  BY <1>2, <1>9, <1>10, <1>11, ReaderStep

\* The total is beyond what was read while there is such a row.
LEMMA CountTotalOK ==
    ASSUME StoreOK, ReadersOK, CountTotal, report' = NoReport
    PROVE  ReadersOK'
<1> DEFINE j == task
<1>1. /\ task.op = "scan" /\ task.stage = "count" /\ UNCHANGED <<storeVars, dirty>>
      /\ task' = [task EXCEPT !.stage = "answered",
                              !.total = Cardinality(RowsIn(task.source))]
  BY DEF CountTotal, Goto
<1>2. /\ task \in Task /\ task.seen \subseteq RowsIn(task.source)
      /\ task.present \subseteq RowsIn(task.source)
  BY DEF ReadersOK, TaskOK
<1>3. PICK source \in Sources, offset \in Nat : source = task.source /\ offset = task.offset
  BY <1>2 DEF Task
<1>4. PICK n \in Nat : n = Cardinality(RowsIn(source))
  BY RowsFinite
<1>5. /\ task' \in Task /\ task'.op = "scan" /\ task'.stage = "answered"
      /\ task'.source = source /\ task'.offset = offset /\ task'.present = task.present
      /\ task'.seen = task.seen /\ task'.error = task.error /\ task'.total = n
  <2>1. j \in Task /\ j.op = "scan" /\ j.source = source /\ j.offset = offset
        /\ task' = [j EXCEPT !.stage = "answered", !.total = n]
    BY <1>1, <1>2, <1>3, <1>4
  <2> HIDE DEF j
  <2>2. /\ task' \in Task /\ task'.op = "scan" /\ task'.stage = "answered"
        /\ task'.source = source /\ task'.offset = offset /\ task'.present = j.present
        /\ task'.seen = j.seen /\ task'.error = j.error /\ task'.total = n
    BY <2>1 DEF Task
  <2>3. QED  BY <2>2 DEF j
<1>6. TaskOK'
  <2>1. RowsIn(source)' = RowsIn(source)
    BY <1>1, SameRows
  <2>2. "answered" \in StagesOf("scan")
    BY DEF StagesOf
  <2>3. QED  BY <1>2, <1>3, <1>5, <2>1, <2>2 DEF TaskOK
<1>7. ScanInv'
  <2> SUFFICES ASSUME ~task.error, NEW x \in task.present, x \in Untied(source)
               PROVE  \/ x \in task.seen
                      \/ /\ Cardinality(NewerThan(source, x)) >= offset + PageLimit
                         /\ n > offset + PageLimit
    BY <1>1, <1>5, SameRows DEF ScanInv
  <2>1. x \in task.seen \/ Cardinality(NewerThan(source, x)) >= offset + PageLimit
    BY <1>1, <1>3 DEF ReadersOK, ScanInv
  <2>2. Cardinality(NewerThan(source, x)) < n
    <3>1. PICK A, R : A = NewerThan(source, x) /\ R = RowsIn(source)
      OBVIOUS
    <3>2. x \in R /\ A \subseteq R /\ x \notin A
      <4>1. x \in RowsIn(source)
        BY <1>2, <1>3
      <4>2. TimeOf(source, x) \in Int
        BY <4>1, RowsFinite
      <4>3. QED  BY <3>1, <4>1, <4>2 DEF NewerThan
    <3>3. IsFiniteSet(R)
      BY <3>1, RowsFinite
    <3>4. /\ Cardinality(A) <= Cardinality(R)
          /\ Cardinality(R) = Cardinality(A) => R = A
      BY <3>2, <3>3, FS_Subset
    <3>5. Cardinality(A) \in Nat
      BY <3>1, NewerFinite
    <3>6. QED  BY <1>4, <3>1, <3>2, <3>4, <3>5
  <2>3. Cardinality(NewerThan(source, x)) \in Nat /\ PageLimit \in Nat
    BY NewerFinite, LimitsAssumption
  <2>4. QED  BY <2>1, <2>2, <2>3
<1>8. QED  BY <1>1, <1>5, <1>6, <1>7, ReaderStep

LEMMA NextPageOK ==
    ASSUME StoreOK, ReadersOK, NextPage, report' = NoReport
    PROVE  ReadersOK'
<1> DEFINE j == task
<1>1. /\ task.op = "scan" /\ task.stage = "answered" /\ UNCHANGED <<storeVars, dirty>>
      /\ \/ /\ task.offset + PageLimit < task.total
            /\ task' = [task EXCEPT !.stage = "list", !.offset = @ + PageLimit]
         \/ /\ ~(task.offset + PageLimit < task.total)
            /\ task' = [task EXCEPT !.stage = "done"]
  BY DEF NextPage, Goto
<1>2. /\ task \in Task /\ task.seen \subseteq RowsIn(task.source)
      /\ task.present \subseteq RowsIn(task.source)
  BY DEF ReadersOK, TaskOK
<1>3. PICK source \in Sources, offset \in Nat, total \in Nat, next \in Nat :
          /\ source = task.source /\ offset = task.offset /\ total = task.total
          /\ next = offset + PageLimit
  BY <1>2, LimitsAssumption DEF Task
<1>4. /\ task' \in Task /\ task'.op = "scan"
      /\ task'.source = source /\ task'.present = task.present
      /\ task'.seen = task.seen /\ task'.error = task.error
      /\ \/ next < total /\ task'.stage = "list" /\ task'.offset = next
         \/ ~(next < total) /\ task'.stage = "done"
  <2>1. /\ j \in Task /\ j.op = "scan" /\ j.source = source /\ j.offset = offset
        /\ \/ next < total /\ task' = [j EXCEPT !.stage = "list", !.offset = next]
           \/ ~(next < total) /\ task' = [j EXCEPT !.stage = "done"]
    BY <1>1, <1>2, <1>3
  <2> HIDE DEF j
  <2>2. /\ task' \in Task /\ task'.op = "scan"
        /\ task'.source = source /\ task'.present = j.present
        /\ task'.seen = j.seen /\ task'.error = j.error
        /\ \/ next < total /\ task'.stage = "list" /\ task'.offset = next
           \/ ~(next < total) /\ task'.stage = "done"
    <3>1. CASE next < total /\ task' = [j EXCEPT !.stage = "list", !.offset = next]
      BY <2>1, <3>1 DEF Task
    <3>2. CASE ~(next < total) /\ task' = [j EXCEPT !.stage = "done"]
      BY <2>1, <3>2 DEF Task
    <3>3. QED  BY <2>1, <3>1, <3>2
  <2>3. QED  BY <2>2 DEF j
<1>5. TaskOK'
  <2>1. RowsIn(source)' = RowsIn(source)
    BY <1>1, SameRows
  <2>2. {"list", "done"} \subseteq StagesOf("scan")
    BY DEF StagesOf
  <2>3. QED  BY <1>2, <1>3, <1>4, <2>1, <2>2 DEF TaskOK
<1>6. ScanInv'
  <2>1. ASSUME ~task.error, NEW x \in task.present, x \in Untied(source)
        PROVE  \/ x \in task.seen
               \/ Cardinality(NewerThan(source, x)) >= next /\ total > next
    BY <1>1, <1>3, <2>1 DEF ReadersOK, ScanInv
  <2>2. CASE next < total /\ task'.stage = "list" /\ task'.offset = next
    BY <1>1, <1>4, <2>1, <2>2, SameRows DEF ScanInv
  <2>3. CASE ~(next < total) /\ task'.stage = "done"
    <3>1. \A x \in task.present : ~task.error /\ x \in Untied(source) => x \in task.seen
      BY <1>3, <2>1, <2>3
    <3>2. QED  BY <1>1, <1>4, <3>1, SameRows DEF ScanInv
  <2>4. QED  BY <1>4, <2>2, <2>3
<1>7. QED  BY <1>1, <1>4, <1>5, <1>6, ReaderStep

LEMMA ScanFailsOK ==
    ASSUME StoreOK, ReadersOK, ScanFails, report' = NoReport
    PROVE  ReadersOK'
<1> DEFINE j == task
<1>1. /\ task.op = "scan" /\ UNCHANGED <<storeVars, dirty>>
      /\ task' = [task EXCEPT !.stage = "done", !.error = TRUE]
  BY DEF ScanFails, Goto
<1>2. /\ task \in Task /\ task.seen \subseteq RowsIn(task.source)
      /\ task.present \subseteq RowsIn(task.source)
  BY DEF ReadersOK, TaskOK
<1>3. /\ task' \in Task /\ task'.op = "scan" /\ task'.stage = "done" /\ task'.error
      /\ task'.source = task.source /\ task'.seen = task.seen
      /\ task'.present = task.present
  <2>1. j \in Task /\ j.op = "scan" /\ task' = [j EXCEPT !.stage = "done", !.error = TRUE]
    BY <1>1, <1>2
  <2> HIDE DEF j
  <2>2. /\ task' \in Task /\ task'.op = "scan" /\ task'.stage = "done" /\ task'.error
        /\ task'.source = j.source /\ task'.seen = j.seen /\ task'.present = j.present
    BY <2>1 DEF Task
  <2>3. QED  BY <2>2 DEF j
<1>4. TaskOK'
  <2>1. PICK source : source = task.source
    OBVIOUS
  <2>2. RowsIn(source)' = RowsIn(source)
    BY <1>1, SameRows
  <2>3. "done" \in StagesOf("scan")
    BY DEF StagesOf
  <2>4. QED  BY <1>2, <1>3, <2>1, <2>2, <2>3 DEF TaskOK
<1>5. ScanInv'
  BY <1>3 DEF ScanInv
<1>6. QED  BY <1>1, <1>3, <1>4, <1>5, ReaderStep

----------------------------------------------------------------------------
(***************************************************************************)
(* A replay.                                                               *)
(***************************************************************************)

LEMMA BeginReplayOK ==
    ASSUME StoreOK, ReadersOK, BeginReplay, report' = NoReport
    PROVE  ReadersOK'
<1>1. "load" \in StagesOf("replay") /\ "events" \in Sources
  BY DEF StagesOf, Sources
<1>2. /\ TaskOK' /\ UNCHANGED <<storeVars, dirty>>
      /\ task'.op = "replay" /\ task'.stage = "load"
      /\ ~task'.started /\ ~task'.completed
  BY <1>1, BeginIsFresh DEF BeginReplay
<1>3. ReplayInv'
  BY <1>2 DEF ReplayInv
<1>4. QED  BY <1>2, <1>3, ReaderStep

\* The first page of the newest events, sorted: all there is, or the newest
\* ReplayLimit.
LEMMA LoadedPage ==
    ASSUME StoreOK, NEW q \in NewestFirst("events")
    PROVE  LET list == Sorted(Page(q, ReplayLimit, 0))
           IN  /\ list \in Seq(Stored) /\ Range(list) \subseteq Stored
               /\ \A i, j \in DOMAIN list : i < j =>
                      /\ list[i] # list[j]
                      /\ events[list[i]].timestamp <= events[list[j]].timestamp
               /\ Stored \ Range(list) # {} => Cardinality(Range(list)) = ReplayLimit
               /\ \A m \in Stored \ Range(list), k \in Range(list) :
                      events[m].timestamp <= events[k].timestamp
<1> DEFINE p == Page(q, ReplayLimit, 0)
           list == Sorted(p)
           At(k) == events[k].timestamp
<1>1. "events" \in Sources /\ RowsIn("events") = Stored
      /\ \A k : TimeOf("events", k) = At(k)
  BY DEF Sources, RowsIn, TimeOf
<1>2. PICK n \in Nat : n = Cardinality(Stored)
  BY <1>1, RowsFinite
<1>3. /\ IsList(q, Stored, n)
      /\ \A i, j \in 1 .. n : i < j => At(q[i]) >= At(q[j])
  BY <1>1, <1>2, NewestFacts
<1>4. \A x \in Stored : At(x) \in Int
  BY RowFacts
<1> HIDE DEF At
<1>5. ReplayLimit \in Nat
  BY LimitsAssumption
<1>6. /\ p \in Seq(Stored) /\ Len(p) <= ReplayLimit
      /\ 0 + ReplayLimit <= n => Len(p) = ReplayLimit
      /\ \A i \in 1 .. Len(p) : i + 0 \in 1 .. n /\ p[i] = q[i + 0]
  BY <1>3, <1>5, PageFacts
<1>7. \A i \in 1 .. n : q[i] \in Range(p) <=> 0 < i /\ i <= 0 + ReplayLimit
  BY <1>3, <1>5, PageRows
<1> HIDE DEF p
<1>8. PICK len \in Nat : len = Len(p)
  BY <1>6
<1>9. /\ p \in [1 .. len -> Stored]
      /\ \A i \in 1 .. len : i \in 1 .. n /\ p[i] = q[i]
  BY <1>6, <1>8
<1>10. \A i, j \in 1 .. len : i # j => p[i] # p[j]
  BY <1>3, <1>9 DEF IsList
<1>11. /\ list \in [1 .. len -> Stored] /\ Range(list) = Range(p)
       /\ \A i, j \in 1 .. len : i < j => list[i] # list[j] /\ At(list[i]) <= At(list[j])
  BY <1>4, <1>9, <1>10, SortedFacts DEF At
<1> HIDE DEF list
<1>12. list \in Seq(Stored) /\ DOMAIN list = 1 .. len /\ Range(list) \subseteq Stored
  <2>1. list \in Seq(Stored)
    BY <1>11, SeqDef
  <2>2. QED  BY <1>11, <2>1 DEF Range
<1>13. \A k \in Range(list) : \E i \in 1 .. n : q[i] = k /\ i <= ReplayLimit
  <2> TAKE k \in Range(list)
  <2>1. PICK i \in 1 .. len : p[i] = k
    BY <1>9, <1>11 DEF Range
  <2>2. i \in 1 .. n /\ q[i] = k
    BY <1>9, <2>1
  <2>3. len <= ReplayLimit
    BY <1>6, <1>8
  <2>4. i <= ReplayLimit
    BY <1>5, <2>3
  <2>5. QED  BY <2>2, <2>4
<1>14. \A m \in Stored \ Range(list) : \E i \in 1 .. n : q[i] = m /\ i > ReplayLimit
  <2> TAKE m \in Stored \ Range(list)
  <2>1. PICK i \in 1 .. n : q[i] = m
    BY <1>3 DEF IsList
  <2>2. ~(i <= ReplayLimit)
    <3>1. q[i] \notin Range(p)
      BY <1>11, <2>1
    <3>2. ~(0 < i /\ i <= 0 + ReplayLimit)
      BY <1>7, <3>1
    <3>3. QED  BY <1>5, <3>2
  <2>3. QED  BY <1>5, <2>1, <2>2
<1>15. ASSUME NEW m \in Stored \ Range(list), NEW k \in Range(list)
       PROVE  At(m) <= At(k)
  <2>1. PICK i \in 1 .. n : q[i] = k /\ i <= ReplayLimit
    BY <1>13
  <2>2. PICK j \in 1 .. n : q[j] = m /\ j > ReplayLimit
    BY <1>14
  <2>3. At(k) >= At(m)
    BY <1>3, <1>5, <2>1, <2>2
  <2>4. At(k) \in Int /\ At(m) \in Int
    BY <1>4, <1>12
  <2>5. QED  BY <2>3, <2>4
<1>16. ASSUME Stored \ Range(list) # {} PROVE Cardinality(Range(list)) = ReplayLimit
  <2>1. PICK m : m \in Stored \ Range(list)
    BY <1>16
  <2>2. PICK i \in 1 .. n : i > ReplayLimit
    BY <1>14, <2>1
  <2>3. len = ReplayLimit
    BY <1>5, <1>6, <1>8, <2>2
  <2>4. Range(list) = {p[k] : k \in 1 .. len}
    BY <1>9, <1>11 DEF Range
  <2>5. Cardinality({p[k] : k \in 1 .. len}) = len
    BY <1>9, <1>10, CountPlaces
  <2>6. QED  BY <2>3, <2>4, <2>5
<1>17. QED  BY <1>11, <1>12, <1>15, <1>16 DEF At, list, p

LEMMA LoadEventsOK ==
    ASSUME StoreOK, ReadersOK, LoadEvents, report' = NoReport
    PROVE  ReadersOK'
<1> DEFINE j == task
<1>1. task.op = "replay" /\ task.stage = "load"
  BY DEF LoadEvents
<1>2. PICK q \in NewestFirst("events") :
          /\ task' = [task EXCEPT !.list = Sorted(Page(q, ReplayLimit, 0)),
                                  !.present = Stored,
                                  !.stage = IF Stored = {} THEN "done" ELSE "replay"]
          /\ UNCHANGED <<storeVars, dirty>>
  BY DEF LoadEvents, Goto
<1>3. PICK list : list = Sorted(Page(q, ReplayLimit, 0))
  OBVIOUS
<1>4. /\ list \in Seq(Stored) /\ Range(list) \subseteq Stored
      /\ \A i, k \in DOMAIN list : i < k =>
             /\ list[i] # list[k]
             /\ events[list[i]].timestamp <= events[list[k]].timestamp
      /\ Stored \ Range(list) # {} => Cardinality(Range(list)) = ReplayLimit
      /\ \A m \in Stored \ Range(list), k \in Range(list) :
             events[m].timestamp <= events[k].timestamp
  BY <1>3, LoadedPage
<1>5. PICK stage, present : /\ stage = IF Stored = {} THEN "done" ELSE "replay"
                            /\ present = Stored
  OBVIOUS
<1>6. Stored \subseteq Nat
  BY RowFacts
<1>7. /\ task \in Task /\ task.source = "events"
      /\ task.seen \subseteq RowsIn(task.source) /\ RowsIn("events") = Stored
  BY <1>1 DEF ReadersOK, TaskOK, RowsIn
<1>8. /\ task' \in Task /\ task'.op = "replay" /\ task'.source = "events"
      /\ task'.list = list /\ task'.present = present /\ task'.stage = stage
      /\ task'.seen = task.seen /\ task'.error = task.error
      /\ task'.started = task.started /\ task'.completed = task.completed
  <2>1. list \in Seq(Nat) /\ present \in SUBSET Nat /\ stage \in {"done", "replay"}
    <3>1. /\ list \in [1 .. Len(list) -> Stored] /\ Len(list) \in Nat
      BY <1>4, LenProperties
    <3>2. list \in [1 .. Len(list) -> Nat]
      BY <1>6, <3>1
    <3>3. list \in Seq(Nat)
      BY <3>1, <3>2, SeqDef
    <3>4. QED  BY <1>5, <1>6, <3>3
  <2>2. /\ j \in Task /\ j.op = "replay" /\ j.source = "events"
        /\ task' = [j EXCEPT !.list = list, !.present = present, !.stage = stage]
    BY <1>1, <1>2, <1>3, <1>5, <1>7
  <2> HIDE DEF j
  <2>3. /\ task' \in Task /\ task'.op = "replay" /\ task'.source = "events"
        /\ task'.list = list /\ task'.present = present /\ task'.stage = stage
        /\ task'.seen = j.seen /\ task'.error = j.error
        /\ task'.started = j.started /\ task'.completed = j.completed
    BY <2>1, <2>2 DEF Task
  <2>4. QED  BY <2>3 DEF j
<1>9. TaskOK'
  <2>1. RowsIn("events")' = RowsIn("events")
    BY <1>2, SameRows
  <2>2. {"done", "replay"} \subseteq StagesOf("replay")
    BY DEF StagesOf
  <2>3. QED  BY <1>5, <1>7, <1>8, <2>1, <2>2 DEF TaskOK
<1>10. events' = events
  BY <1>2 DEF storeVars
<1>11. Loaded'
  BY <1>4, <1>5, <1>8, <1>10 DEF Loaded
<1>12. stage = "done" /\ ~task.error => Flagged'
  <2> SUFFICES ASSUME stage = "done", ~task.error PROVE Flagged'
    OBVIOUS
  <2>1. ~task.started /\ ~task.completed
    BY <1>1 DEF ReadersOK, ReplayInv
  <2>2. Range(list) = {}
    BY <1>4, <1>5
  <2>3. task.started \in BOOLEAN /\ task.completed \in BOOLEAN
    BY <1>7 DEF Task
  <2>4. QED  BY <1>8, <2>1, <2>2, <2>3 DEF Flagged
<1>13. ReplayInv'
  BY <1>5, <1>8, <1>11, <1>12 DEF ReplayInv
<1>14. QED  BY <1>2, <1>8, <1>9, <1>13, ReaderStep

LEMMA LoadFailsOK ==
    ASSUME StoreOK, ReadersOK, LoadFails, report' = NoReport
    PROVE  ReadersOK'
<1> DEFINE j == task
<1>1. /\ task.op = "replay" /\ UNCHANGED <<storeVars, dirty>>
      /\ task' = [task EXCEPT !.stage = "done", !.error = TRUE]
  BY DEF LoadFails, Goto
<1>2. /\ task \in Task /\ task.source = "events" /\ task.seen \subseteq RowsIn("events")
      /\ task.present \subseteq RowsIn("events")
  BY <1>1 DEF ReadersOK, TaskOK
<1>3. /\ task' \in Task /\ task'.op = "replay" /\ task'.stage = "done" /\ task'.error
      /\ task'.source = "events" /\ task'.seen = task.seen
      /\ task'.present = task.present
  <2>1. /\ j \in Task /\ j.op = "replay" /\ j.source = "events"
        /\ task' = [j EXCEPT !.stage = "done", !.error = TRUE]
    BY <1>1, <1>2
  <2> HIDE DEF j
  <2>2. /\ task' \in Task /\ task'.op = "replay" /\ task'.stage = "done" /\ task'.error
        /\ task'.source = "events" /\ task'.seen = j.seen /\ task'.present = j.present
    BY <2>1 DEF Task
  <2>3. QED  BY <2>2 DEF j
<1>4. TaskOK'
  <2>1. RowsIn("events")' = RowsIn("events") /\ "done" \in StagesOf("replay")
    BY <1>1, SameRows DEF StagesOf
  <2>2. QED  BY <1>2, <1>3, <2>1 DEF TaskOK
<1>5. ReplayInv'
  BY <1>3 DEF ReplayInv
<1>6. QED  BY <1>1, <1>3, <1>4, <1>5, ReaderStep

LEMMA ReplayEventsOK ==
    ASSUME StoreOK, ReadersOK, ReplayEvents, report' = NoReport
    PROVE  ReadersOK'
<1> DEFINE j == task
           types == {events[n].event_type : n \in Range(task.list)}
<1>1. /\ task.op = "replay" /\ task.stage = "replay" /\ UNCHANGED <<storeVars, dirty>>
      /\ task' = [task EXCEPT !.stage = "summarize",
                              !.started = "agent_started" \in types,
                              !.completed = types \cap {"agent_completed",
                                                        "agent_failed"} # {}]
  BY DEF ReplayEvents, Goto
<1>2. /\ task \in Task /\ task.source = "events" /\ task.seen \subseteq RowsIn("events")
      /\ task.present \subseteq RowsIn("events")
  BY <1>1 DEF ReadersOK, TaskOK
<1>3. PICK started, completed :
          /\ started \in BOOLEAN /\ completed \in BOOLEAN
          /\ started = ("agent_started" \in types)
          /\ completed = (types \cap {"agent_completed", "agent_failed"} # {})
  <2>1. /\ ("agent_started" \in types) \in BOOLEAN
        /\ (types \cap {"agent_completed", "agent_failed"} # {}) \in BOOLEAN
    OBVIOUS
  <2> HIDE DEF types
  <2>2. QED  BY <2>1, Zenon
<1>4. /\ started = (\E n \in Range(task.list) : events[n].event_type = "agent_started")
      /\ completed = (\/ \E n \in Range(task.list) : events[n].event_type = "agent_completed"
                      \/ \E n \in Range(task.list) : events[n].event_type = "agent_failed")
  BY <1>3
<1> HIDE DEF types
<1>5. /\ task' \in Task /\ task'.op = "replay" /\ task'.stage = "summarize"
      /\ task'.source = "events" /\ task'.seen = task.seen /\ task'.list = task.list
      /\ task'.present = task.present /\ task'.error = task.error
      /\ task'.started = started /\ task'.completed = completed
  <2>1. /\ j \in Task /\ j.op = "replay" /\ j.source = "events"
        /\ started \in BOOLEAN /\ completed \in BOOLEAN
        /\ task' = [j EXCEPT !.stage = "summarize", !.started = started,
                             !.completed = completed]
    BY <1>1, <1>2, <1>3
  <2> HIDE DEF j
  <2>2. /\ task' \in Task /\ task'.op = "replay" /\ task'.stage = "summarize"
        /\ task'.source = "events" /\ task'.seen = j.seen /\ task'.list = j.list
        /\ task'.present = j.present /\ task'.error = j.error
        /\ task'.started = started /\ task'.completed = completed
    BY <2>1 DEF Task
  <2>3. QED  BY <2>2 DEF j
<1>6. TaskOK'
  <2>1. RowsIn("events")' = RowsIn("events") /\ "summarize" \in StagesOf("replay")
    BY <1>1, SameRows DEF StagesOf
  <2>2. QED  BY <1>2, <1>5, <2>1 DEF TaskOK
<1>7. events' = events
  BY <1>1 DEF storeVars
<1>8. Loaded => Loaded'
  BY <1>5, <1>7 DEF Loaded
<1>9. Flagged'
  BY <1>4, <1>5, <1>7 DEF Flagged
<1>10. ReplayInv'
  BY <1>1, <1>5, <1>8, <1>9 DEF ReadersOK, ReplayInv
<1>11. QED  BY <1>1, <1>5, <1>6, <1>10, ReaderStep

\* The entry that a replay leaves in the audit log is a row that is stored.
LEMMA SummarizeOK ==
    ASSUME StoreOK, ReadersOK, Summarize, report' = NoReport
    PROVE  StoreOK' /\ ReadersOK'
<1> DEFINE j == task
<1>1. /\ task.op = "replay" /\ task.stage = "summarize" /\ dirty' = dirty
      /\ task' = [task EXCEPT !.stage = "done"]
  BY DEF Summarize
<1>2. StoreOK' /\ Grow
  <2>1. CASE \E time \in Times : RecordEntry(time)
    BY <2>1, EntryGrows
  <2>2. CASE UNCHANGED storeVars
    BY <2>2, RestGrows DEF storeVars
  <2>3. QED  BY <2>1, <2>2 DEF Summarize
<1>3. /\ task \in Task /\ task.source = "events" /\ task.seen \subseteq Stored
      /\ task.present \subseteq Stored
  BY <1>1 DEF ReadersOK, TaskOK, RowsIn
<1>4. /\ task' \in Task /\ task'.op = "replay" /\ task'.stage = "done"
      /\ task'.source = "events" /\ task'.seen = task.seen /\ task'.list = task.list
      /\ task'.present = task.present /\ task'.error = task.error
      /\ task'.started = task.started /\ task'.completed = task.completed
  <2>1. /\ j \in Task /\ j.op = "replay" /\ j.source = "events"
        /\ task' = [j EXCEPT !.stage = "done"]
    BY <1>1, <1>3
  <2> HIDE DEF j
  <2>2. /\ task' \in Task /\ task'.op = "replay" /\ task'.stage = "done"
        /\ task'.source = "events" /\ task'.seen = j.seen /\ task'.list = j.list
        /\ task'.present = j.present /\ task'.error = j.error
        /\ task'.started = j.started /\ task'.completed = j.completed
    BY <2>1 DEF Task
  <2>3. QED  BY <2>2 DEF j
<1>5. TaskOK'
  <2>1. Stored \subseteq Stored' /\ RowsIn("events")' = Stored'
    BY <1>2 DEF Grow, RowsIn
  <2>2. "done" \in StagesOf("replay")
    BY DEF StagesOf
  <2>3. QED  BY <1>3, <1>4, <2>1, <2>2 DEF TaskOK
<1>6. ReplayInv'
  <2> SUFFICES ASSUME ~task.error PROVE Loaded' /\ Flagged'
    BY <1>4 DEF ReplayInv
  <2>1. Loaded /\ Flagged /\ TaskOK
    BY <1>1 DEF ReadersOK, ReplayInv
  <2>2. /\ Loaded'
        /\ \A n \in Range(task.list) : events'[n] = events[n]
    BY <1>1, <1>2, <1>4, <2>1, LoadedStays
  <2>3. Flagged'
    BY <1>4, <2>1, <2>2 DEF Flagged
  <2>4. QED  BY <2>2, <2>3
<1>7. DirtyOK'
  BY <1>1, <1>2, DirtyStays DEF ReadersOK
<1>8. ScanInv' /\ DirtStaysVisible' /\ ReportInv'
  BY <1>4 DEF ScanInv, DirtStaysVisible, ReportInv
<1>9. QED  BY <1>2, <1>5, <1>6, <1>7, <1>8 DEF ReadersOK

----------------------------------------------------------------------------
(***************************************************************************)
(* A verification.                                                         *)
(***************************************************************************)

LEMMA BeginVerifyOK ==
    ASSUME StoreOK, ReadersOK, BeginVerify, report' = NoReport
    PROVE  ReadersOK'
<1>1. "verify" \in StagesOf("verify") /\ "events" \in Sources
  BY DEF StagesOf, Sources
<1>2. /\ TaskOK' /\ UNCHANGED <<storeVars, dirty>>
      /\ task'.op = "verify" /\ task'.stage = "verify"
  BY <1>1, BeginIsFresh DEF BeginVerify
<1>3. QED  BY <1>2, ReaderStep

\* An altered event that is not checked comes after those that are.
LEMMA VerifyOK ==
    ASSUME StoreOK, ReadersOK, Verify, report' = NoReport
    PROVE  ReadersOK'
<1> DEFINE j == task
<1>1. task.op = "verify" /\ UNCHANGED storeVars
  BY DEF Verify
<1>0. PICK q \in OldestFirst("events") :
          \E failed : /\ failed = {n \in Range(Page(q, VerifyLimit, 0)) : Altered(n)}
                      /\ task' = [task EXCEPT !.seen = failed, !.stage = "done"]
                      /\ dirty' = dirty \cup failed
  BY DEF Verify, VerifyOrder
<1>2. PICK failed : /\ failed = {n \in Range(Page(q, VerifyLimit, 0)) : Altered(n)}
                    /\ task' = [task EXCEPT !.seen = failed, !.stage = "done"]
                    /\ dirty' = dirty \cup failed
  BY <1>0
<1>3. "events" \in Sources /\ RowsIn("events") = Stored
      /\ \A k : TimeOf("events", k) = events[k].timestamp
  BY DEF Sources, RowsIn, TimeOf
<1>4. PICK n \in Nat : n = Cardinality(Stored)
  BY <1>3, RowsFinite
<1>5. /\ IsList(q, Stored, n) /\ VerifyLimit \in Nat
      /\ \A i, k \in 1 .. n : i < k => events[q[i]].timestamp <= events[q[k]].timestamp
  BY <1>3, <1>4, OldestFacts, LimitsAssumption
<1>6. Page(q, VerifyLimit, 0) \in Seq(Stored)
  BY <1>5, PageFacts
<1>7. failed \subseteq Stored /\ \A k \in failed : Altered(k)
  BY <1>2, <1>6 DEF Range
<1>8. /\ task \in Task /\ task.source = "events" /\ task.present \subseteq Stored
  BY <1>1, <1>3 DEF ReadersOK, TaskOK
<1>9. /\ task' \in Task /\ task'.op = "verify" /\ task'.stage = "done"
      /\ task'.source = "events" /\ task'.seen = failed
      /\ task'.present = task.present
  <2>1. failed \in SUBSET Nat
    BY <1>7, RowFacts
  <2>2. /\ j \in Task /\ j.op = "verify" /\ j.source = "events"
        /\ task' = [j EXCEPT !.seen = failed, !.stage = "done"]
    BY <1>1, <1>2, <1>8
  <2> HIDE DEF j
  <2>3. /\ task' \in Task /\ task'.op = "verify" /\ task'.stage = "done"
        /\ task'.source = "events" /\ task'.seen = failed
        /\ task'.present = j.present
    BY <2>1, <2>2 DEF Task
  <2>4. QED  BY <2>3 DEF j
<1>10. events' = events /\ Stored' = Stored /\ RowsIn("events")' = Stored
  BY <1>1, <1>3, SameRows DEF storeVars
<1>11. TaskOK'
  <2>1. "done" \in StagesOf("verify")
    BY DEF StagesOf
  <2>2. QED  BY <1>7, <1>8, <1>9, <1>10, <2>1 DEF TaskOK
<1>12. DirtyOK'
  <2>1. \A k : Altered(k)' <=> Altered(k)
    BY <1>10 DEF Altered
  <2>2. \A k \in dirty : k \in Stored /\ Altered(k)
    BY DEF ReadersOK, DirtyOK
  <2>3. QED  BY <1>2, <1>7, <1>10, <2>1, <2>2 DEF DirtyOK
<1>13. DirtStaysVisible'
  <2> SUFFICES ASSUME NEW x \in Stored, Altered(x), x \notin failed
               PROVE  Cardinality({m \in Stored \ {x} :
                                      events[m].timestamp <= events[x].timestamp})
                          >= VerifyLimit
    <3>1. \A x \in dirty' \ failed : x \in Stored /\ Altered(x)
      BY <1>2, <1>7 DEF ReadersOK, DirtyOK
    <3>2. QED  BY <1>9, <1>10, <3>1 DEF DirtStaysVisible
  <2> DEFINE Older == {m \in Stored \ {x} : events[m].timestamp <= events[x].timestamp}
             T == {q[k] : k \in 1 .. VerifyLimit}
  <2>1. PICK i \in 1 .. n : q[i] = x
    BY <1>5 DEF IsList
  <2>2. q[i] \notin Range(Page(q, VerifyLimit, 0))
    BY <1>2, <2>1
  <2>3. ~(0 < i /\ i <= 0 + VerifyLimit)
    BY <1>5, <2>2, PageRows
  <2>4. i > VerifyLimit
    BY <1>5, <2>3
  <2>5. /\ \A k \in 1 .. n : q[k] \in Stored
        /\ \A k, m \in 1 .. n : k # m => q[k] # q[m]
    BY <1>5 DEF IsList
  <2>6. ASSUME NEW k \in 1 .. VerifyLimit PROVE q[k] \in Older
    <3>1. k \in 1 .. n /\ k < i /\ k # i
      BY <1>5, <2>4
    <3>2. q[k] \in Stored /\ q[k] # x
      BY <2>1, <2>5, <3>1
    <3>3. events[q[k]].timestamp <= events[x].timestamp
      BY <1>5, <2>1, <3>1
    <3>4. QED  BY <3>2, <3>3
  <2>7. IsFiniteSet(Older)
    <3>1. IsFiniteSet(Stored) /\ Older \in SUBSET Stored
      BY <1>3, RowsFinite
    <3>2. QED  BY <3>1, FS_Subset
  <2>8. Cardinality(T) = VerifyLimit
    <3>1. \A k \in 1 .. VerifyLimit : k \in 1 .. n
      BY <1>5, <2>4
    <3>2. /\ \A k \in 1 .. VerifyLimit : q[k] \in Stored
          /\ \A k, m \in 1 .. VerifyLimit : k # m => q[k] # q[m]
      BY <2>5, <3>1
    <3>3. QED  BY <1>5, <3>2, CountPlaces
  <2> HIDE DEF Older
  <2>9. T \in SUBSET Older
    BY <2>6
  <2> HIDE DEF T
  <2>10. Cardinality(T) <= Cardinality(Older) /\ Cardinality(Older) \in Nat
    BY <2>7, <2>9, FS_Subset, FS_CardinalityType
  <2>11. Cardinality(Older) >= VerifyLimit
    BY <1>5, <2>8, <2>10
  <2>12. QED  BY <2>11 DEF Older
<1>14. ScanInv' /\ ReplayInv' /\ ReportInv'
  BY <1>9 DEF ScanInv, ReplayInv, ReportInv
<1>15. QED  BY <1>11, <1>12, <1>13, <1>14 DEF ReadersOK

----------------------------------------------------------------------------
(***************************************************************************)
(* A report.                                                               *)
(***************************************************************************)

LEMMA ReportStep ==
    ASSUME ReadersOK, UNCHANGED <<storeVars, dirty>>, TaskOK', task'.op = "report", ReportInv'
    PROVE  ReadersOK'
<1>1. DirtyOK'
  BY DEF ReadersOK, DirtyOK, Stored, Altered, storeVars
<1>2. ScanInv' /\ ReplayInv' /\ DirtStaysVisible'
  BY DEF ScanInv, ReplayInv, DirtStaysVisible
<1>3. QED  BY <1>1, <1>2 DEF ReadersOK

LEMMA BeginReportOK ==
    ASSUME StoreOK, ReadersOK, NEW since \in Times, BeginReport(since)
    PROVE  ReadersOK'
<1>1. "events" \in StagesOf("report") /\ "events" \in Sources
  BY DEF StagesOf, Sources
<1>2. /\ TaskOK' /\ UNCHANGED <<storeVars, dirty>>
      /\ task'.op = "report" /\ task'.stage = "events" /\ ~task'.error
  BY <1>1, BeginIsFresh DEF BeginReport
<1>3. report' = [since |-> since]
  BY DEF BeginReport
<1>4. "daily_remaining" \notin DOMAIN report'
  BY <1>3
<1>5. ReportInv'
  BY <1>2, <1>4 DEF ReportInv
<1>6. QED  BY <1>2, <1>5, ReportStep

\* The stages of a report.
LEMMA ReadFacts ==
    ASSUME ReadersOK, NEW stage, NEW next \in StagesOf("report"), NEW part,
           stage # "done", Read(stage, next, part)
    PROVE  /\ UNCHANGED <<storeVars, dirty>> /\ TaskOK'
           /\ task.op = "report" /\ task.stage = stage /\ ~task.error
           /\ task'.op = "report" /\ task'.stage = next /\ ~task'.error
           /\ report' = With(report, part)
<1> DEFINE j == task
<1>1. /\ task.op = "report" /\ task.stage = stage /\ UNCHANGED <<storeVars, dirty>>
      /\ task' = [task EXCEPT !.stage = next] /\ report' = With(report, part)
  BY DEF Read
<1>2. ~task.error
  BY <1>1 DEF ReadersOK, ReportInv
<1>3. /\ task \in Task /\ task.source = "events" /\ task.seen \subseteq RowsIn("events")
      /\ task.present \subseteq RowsIn("events")
  BY <1>1 DEF ReadersOK, TaskOK
<1>4. /\ task' \in Task /\ task'.op = "report" /\ task'.stage = next
      /\ task'.source = "events" /\ task'.seen = task.seen
      /\ task'.present = task.present /\ task'.error = task.error
  <2>1. /\ j \in Task /\ j.op = "report" /\ j.source = "events"
        /\ task' = [j EXCEPT !.stage = next]
    BY <1>1, <1>3
  <2>2. next \in {"events", "alerts", "quota", "policies", "done"}
    BY DEF StagesOf
  <2> HIDE DEF j
  <2>3. /\ task' \in Task /\ task'.op = "report" /\ task'.stage = next
        /\ task'.source = "events" /\ task'.seen = j.seen
        /\ task'.present = j.present /\ task'.error = j.error
    BY <2>1, <2>2 DEF Task
  <2>4. QED  BY <2>3 DEF j
<1>5. RowsIn("events")' = RowsIn("events")
  BY <1>1, SameRows
<1>6. TaskOK'
  BY <1>3, <1>4, <1>5 DEF TaskOK
<1>7. QED  BY <1>1, <1>2, <1>4, <1>6

\* What is stored has been let pass.
LEMMA SummarizeEventsOK ==
    ASSUME StoreOK, ReadersOK, SummarizeEvents
    PROVE  ReadersOK'
<1> DEFINE T == {n \in Stored : events[n].timestamp >= report.since}
           part == [counted_events |-> T]
<1>1. Read("events", "alerts", part) /\ "alerts" \in StagesOf("report")
  BY DEF SummarizeEvents, StagesOf
<1>2. T \subseteq charged
  BY DEF StoreOK
<1> HIDE DEF T
<1>3. /\ UNCHANGED <<storeVars, dirty>> /\ TaskOK'
      /\ task.op = "report" /\ task.stage = "events" /\ ~task.error
      /\ task'.op = "report" /\ task'.stage = "alerts" /\ ~task'.error
      /\ report' = With(report, part)
  BY <1>1, ReadFacts
<1>4. /\ DOMAIN report' = DOMAIN report \cup {"counted_events"}
      /\ report'["counted_events"] = T
  <2>1. DOMAIN part = {"counted_events"} /\ part["counted_events"] = T
    OBVIOUS
  <2> HIDE DEF part
  <2>2. QED  BY <1>3, <2>1 DEF With
<1>5. "daily_remaining" \notin DOMAIN report
  BY <1>3 DEF ReadersOK, ReportInv
<1>6. charged' = charged
  BY <1>3 DEF storeVars
<1>7. Counted' /\ "daily_remaining" \notin DOMAIN report'
  BY <1>2, <1>4, <1>5, <1>6 DEF Counted
<1>8. ReportInv'
  BY <1>3, <1>7 DEF ReportInv
<1>9. QED  BY <1>3, <1>8, ReportStep

LEMMA SummarizeAlertsOK ==
    ASSUME StoreOK, ReadersOK, SummarizeAlerts
    PROVE  ReadersOK'
<1> DEFINE part == [ unresolved_count |-> Cardinality(open),
                     alert_count |-> Cardinality(open \cup resolved) ]
<1>1. Read("alerts", "quota", part) /\ "quota" \in StagesOf("report")
  BY DEF SummarizeAlerts, StagesOf
<1>2. DOMAIN part = {"unresolved_count", "alert_count"}
  OBVIOUS
<1> HIDE DEF part
<1>3. /\ UNCHANGED <<storeVars, dirty>> /\ TaskOK'
      /\ task.op = "report" /\ task.stage = "alerts" /\ ~task.error
      /\ task'.op = "report" /\ task'.stage = "quota" /\ ~task'.error
      /\ report' = With(report, part)
  BY <1>1, ReadFacts
<1>4. Counted /\ "daily_remaining" \notin DOMAIN report
  BY <1>3 DEF ReadersOK, ReportInv
<1>5. /\ DOMAIN report' = DOMAIN report \cup {"unresolved_count", "alert_count"}
      /\ report'["counted_events"] = report["counted_events"]
  BY <1>2, <1>3, <1>4 DEF With, Counted
<1>6. charged' = charged
  BY <1>3 DEF storeVars
<1>7. Counted' /\ "daily_remaining" \notin DOMAIN report'
  BY <1>4, <1>5, <1>6 DEF Counted
<1>8. ReportInv'
  BY <1>3, <1>7 DEF ReportInv
<1>9. QED  BY <1>3, <1>8, ReportStep

\* What is left of the quota is told after the events that it must cover.
LEMMA SummarizeQuotaOK ==
    ASSUME StoreOK, QuotaOK, ReadersOK, SummarizeQuota
    PROVE  ReadersOK'
<1> DEFINE remaining == IF counted < daily_limit THEN daily_limit - counted ELSE 0
           part == [daily_limit |-> daily_limit, daily_remaining |-> remaining]
<1>1. Read("quota", "policies", part) /\ "policies" \in StagesOf("report")
  BY DEF SummarizeQuota, StagesOf
<1>2. /\ DOMAIN part = {"daily_limit", "daily_remaining"}
      /\ part["daily_limit"] = daily_limit /\ part["daily_remaining"] = remaining
  OBVIOUS
<1>3. /\ daily_limit \in Nat /\ counted \in Nat /\ remaining \in Nat
      /\ remaining = 0 \/ counted + remaining = daily_limit
  BY QuotaAssumption DEF QuotaOK
<1> HIDE DEF part, remaining
<1>4. /\ UNCHANGED <<storeVars, dirty>> /\ TaskOK'
      /\ task.op = "report" /\ task.stage = "quota" /\ ~task.error
      /\ task'.op = "report" /\ task'.stage = "policies" /\ ~task'.error
      /\ report' = With(report, part)
  BY <1>1, ReadFacts
<1>5. Counted
  BY <1>4 DEF ReadersOK, ReportInv
<1>6. /\ DOMAIN report' = DOMAIN report \cup {"daily_limit", "daily_remaining"}
      /\ report'["counted_events"] = report["counted_events"]
      /\ report'["daily_limit"] = daily_limit /\ report'["daily_remaining"] = remaining
  BY <1>2, <1>4, <1>5 DEF With, Counted
<1>7. charged' = charged /\ doubtful' = doubtful
  BY <1>1, <1>4 DEF storeVars, Read, quotaVars
<1>8. Counted'
  BY <1>5, <1>6, <1>7 DEF Counted
<1>9. Room'
  <2>1. PICK A : A = report["counted_events"] \ doubtful
    OBVIOUS
  <2>2. A \in SUBSET Clean /\ IsFiniteSet(Clean) /\ Cardinality(Clean) \in Nat
    BY <1>5, <2>1, CleanFinite DEF Counted, Clean
  <2>3. Cardinality(A) \in Nat /\ Cardinality(A) <= Cardinality(Clean)
    BY <2>2, FS_Subset, FS_CardinalityType
  <2>4. Cardinality(A) <= counted
    BY <1>3, <2>2, <2>3 DEF QuotaOK
  <2>5. remaining = 0 \/ Cardinality(A) + remaining <= daily_limit
    BY <1>3, <2>3, <2>4
  <2>6. A = (report.counted_events \ doubtful)'
    BY <1>6, <1>7, <2>1
  <2>7. QED  BY <1>3, <1>6, <2>5, <2>6 DEF Room
<1>10. ReportInv'
  BY <1>4, <1>8, <1>9 DEF ReportInv, Balanced
<1>11. QED  BY <1>4, <1>10, ReportStep

LEMMA SummarizePoliciesOK ==
    ASSUME StoreOK, ReadersOK, SummarizePolicies
    PROVE  ReadersOK'
<1> DEFINE part == [active_count |-> Cardinality(Active)]
<1>1. Read("policies", "done", part) /\ "done" \in StagesOf("report")
  BY DEF SummarizePolicies, StagesOf
<1>2. DOMAIN part = {"active_count"}
  OBVIOUS
<1> HIDE DEF part
<1>3. /\ UNCHANGED <<storeVars, dirty>> /\ TaskOK'
      /\ task.op = "report" /\ task.stage = "policies" /\ ~task.error
      /\ task'.op = "report" /\ task'.stage = "done" /\ ~task'.error
      /\ report' = With(report, part)
  BY <1>1, ReadFacts
<1>4. Balanced
  BY <1>3 DEF ReadersOK, ReportInv
<1>5. /\ DOMAIN report' = DOMAIN report \cup {"active_count"}
      /\ report'["counted_events"] = report["counted_events"]
      /\ report'["daily_limit"] = report["daily_limit"]
      /\ report'["daily_remaining"] = report["daily_remaining"]
  BY <1>2, <1>3, <1>4 DEF With, Balanced, Counted, Room
<1>6. charged' = charged /\ doubtful' = doubtful
  BY <1>1, <1>3 DEF storeVars, Read, quotaVars
<1>7. Balanced'
  BY <1>4, <1>5, <1>6 DEF Balanced, Counted, Room
<1>8. ReportInv'
  BY <1>3, <1>7 DEF ReportInv
<1>9. QED  BY <1>3, <1>8, ReportStep

LEMMA ReportFailsOK ==
    ASSUME StoreOK, ReadersOK, ReportFails
    PROVE  ReadersOK'
<1> DEFINE j == task
<1>1. /\ task.op = "report" /\ UNCHANGED <<storeVars, dirty>> /\ report' = NoReport
      /\ task' = [task EXCEPT !.stage = "done", !.error = TRUE]
  BY DEF ReportFails
<1>2. /\ task \in Task /\ task.source = "events" /\ task.seen \subseteq RowsIn("events")
      /\ task.present \subseteq RowsIn("events")
  BY <1>1 DEF ReadersOK, TaskOK
<1>3. /\ task' \in Task /\ task'.op = "report" /\ task'.stage = "done" /\ task'.error
      /\ task'.source = "events" /\ task'.seen = task.seen
      /\ task'.present = task.present
  <2>1. /\ j \in Task /\ j.op = "report" /\ j.source = "events"
        /\ task' = [j EXCEPT !.stage = "done", !.error = TRUE]
    BY <1>1, <1>2
  <2> HIDE DEF j
  <2>2. /\ task' \in Task /\ task'.op = "report" /\ task'.stage = "done" /\ task'.error
        /\ task'.source = "events" /\ task'.seen = j.seen /\ task'.present = j.present
    BY <2>1 DEF Task
  <2>3. QED  BY <2>2 DEF j
<1>4. TaskOK'
  <2>1. RowsIn("events")' = RowsIn("events") /\ "done" \in StagesOf("report")
    BY <1>1, SameRows DEF StagesOf
  <2>2. QED  BY <1>2, <1>3, <2>1 DEF TaskOK
<1>5. ReportInv'
  BY <1>1, <1>3 DEF ReportInv
<1>6. QED  BY <1>1, <1>3, <1>4, <1>5, ReportStep

----------------------------------------------------------------------------
(***************************************************************************)
(* The invariant.                                                          *)
(***************************************************************************)

LEMMA RestStays ==
    ASSUME RestOK, Grow, UNCHANGED <<open, resolved, policies>>
    PROVE  RestOK'
BY DEF RestOK, Grow

LEMMA SameStore ==
    ASSUME StoreOK, UNCHANGED storeVars
    PROVE  StoreOK' /\ Grow
BY RestGrows DEF storeVars

\* A step of the session, its senders and its readers.
LEMMA EventsStep ==
    ASSUME IInv, EventsNext, UNCHANGED <<quotaVars, open, resolved, policies>>,
           report' = IF AtRest THEN NoReport ELSE report
    PROVE  IInv'
<1>1. StoreOK /\ RestOK /\ QuotaOK /\ ReadersOK /\ doubtful' = doubtful
  BY DEF IInv, quotaVars
<1>2. QuotaOK'
  <2>1. charged' = charged /\ (built' = built \/ \E e \in Event : built' = Append(built, e))
    BY DEF EventsNext, Build, Store, RecordEntry, BeginScan, ListPage, CountTotal,
           NextPage, ScanFails, BeginReplay, LoadEvents, LoadFails, ReplayEvents,
           Summarize, BeginVerify, Verify, Begin, Goto, storeVars
  <2>2. DOMAIN built \subseteq DOMAIN built'
    BY <1>1, <2>1 DEF StoreOK
  <2>3. QED  BY <1>1, <2>1, <2>2, QuotaStays
<1>3. AtRest \/ task.op # "report" => report' = NoReport
  BY <1>1 DEF ReadersOK, ReportInv
<1>4. ASSUME NEW e \in Event, Build(e) PROVE IInv'
  <2>1. StoreOK' /\ Grow /\ Forget
    BY <1>1, <1>4, BuildGrows DEF Build
  <2>2. QED  BY <1>1, <2>1, StoreStep, RestStays, <1>2 DEF IInv
<1>5. ASSUME NEW n \in DOMAIN built, Store(n) PROVE IInv'
  <2>1. StoreOK' /\ Grow /\ Forget
    BY <1>1, <1>5, StoreGrows DEF Store
  <2>2. QED  BY <1>1, <2>1, StoreStep, RestStays, <1>2 DEF IInv
<1>6. ASSUME NEW time \in Times, RecordEntry(time), Forget PROVE IInv'
  <2>1. StoreOK' /\ Grow
    BY <1>1, <1>6, EntryGrows
  <2>2. QED  BY <1>1, <1>6, <2>1, StoreStep, RestStays, <1>2 DEF IInv
<1>7. ASSUME NEW source \in Sources, BeginScan(source) PROVE IInv'
  <2>1. AtRest /\ UNCHANGED storeVars
    BY <1>7 DEF BeginScan, Begin
  <2>2. QED  BY <1>1, <1>3, <1>7, <2>1, BeginScanOK, SameStore, RestStays, <1>2 DEF IInv
<1>8. CASE ListPage \/ CountTotal \/ NextPage \/ ScanFails
  <2>1. task.op = "scan" /\ UNCHANGED storeVars
    BY <1>8 DEF ListPage, CountTotal, NextPage, ScanFails, Goto
  <2>2. ReadersOK'
    BY <1>1, <1>3, <1>8, <2>1, ListPageOK, CountTotalOK, NextPageOK, ScanFailsOK
  <2>3. QED  BY <1>1, <2>1, <2>2, SameStore, RestStays, <1>2 DEF IInv
<1>9. CASE BeginReplay \/ BeginVerify
  <2>1. AtRest /\ UNCHANGED storeVars
    BY <1>9 DEF BeginReplay, BeginVerify, Begin
  <2>2. ReadersOK'
    BY <1>1, <1>3, <1>9, <2>1, BeginReplayOK, BeginVerifyOK
  <2>3. QED  BY <1>1, <2>1, <2>2, SameStore, RestStays, <1>2 DEF IInv
<1>10. CASE LoadEvents \/ LoadFails \/ ReplayEvents
  <2>1. task.op = "replay" /\ UNCHANGED storeVars
    BY <1>10 DEF LoadEvents, LoadFails, ReplayEvents, Goto
  <2>2. ReadersOK'
    BY <1>1, <1>3, <1>10, <2>1, LoadEventsOK, LoadFailsOK, ReplayEventsOK
  <2>3. QED  BY <1>1, <2>1, <2>2, SameStore, RestStays, <1>2 DEF IInv
<1>11. CASE Summarize
  <2>1. task.op = "replay"
    BY <1>11 DEF Summarize
  <2>2. StoreOK' /\ ReadersOK'
    BY <1>1, <1>3, <1>11, <2>1, SummarizeOK
  <2>3. Grow
    BY <1>1, <1>11, EntryGrows, SameStore DEF Summarize
  <2>4. QED  BY <1>1, <2>2, <2>3, RestStays, <1>2 DEF IInv
<1>12. CASE Verify
  <2>1. task.op = "verify" /\ UNCHANGED storeVars
    BY <1>12 DEF Verify
  <2>2. ReadersOK'
    BY <1>1, <1>3, <1>12, <2>1, VerifyOK
  <2>3. QED  BY <1>1, <2>1, <2>2, SameStore, RestStays, <1>2 DEF IInv
<1>13. QED
  BY <1>4, <1>5, <1>6, <1>7, <1>8, <1>9, <1>10, <1>11, <1>12 DEF EventsNext, Sources

LEMMA RaiseAlertOK ==
    ASSUME IInv, NEW n \in Stored, RaiseAlert(n)
    PROVE  IInv'
<1>1. /\ n \notin open \cup resolved /\ open' = open \cup {n}
      /\ UNCHANGED <<resolved, policies>> /\ AddRow
      /\ UNCHANGED <<built, charged, events, entries>>
      /\ Forget /\ report' = IF AtRest THEN NoReport ELSE report
  BY DEF RaiseAlert, ForgetAll
<1>2. StoreOK' /\ Grow
  BY <1>1, RestGrows DEF IInv
<1>3. RestOK'
  BY <1>1, <1>2 DEF IInv, RestOK, Grow
<1>4. charged' = charged /\ built' = built /\ UNCHANGED quotaVars
  BY DEF RaiseAlert, storeVars
<1>5. QuotaOK'
  BY <1>4, QuotaStays DEF IInv
<1>6. doubtful' = doubtful
  BY <1>4 DEF quotaVars
<1>7. QED  BY <1>1, <1>2, <1>3, <1>5, <1>6, StoreStep DEF IInv

LEMMA ResolveAlertOK ==
    ASSUME IInv, NEW n \in Stored, ResolveAlert(n)
    PROVE  IInv'
<1>1. /\ n \in open /\ open' = open \ {n} /\ resolved' = resolved \cup {n}
      /\ policies' = policies /\ UNCHANGED storeVars
      /\ Forget /\ report' = IF AtRest THEN NoReport ELSE report
  BY DEF ResolveAlert, ForgetAll
<1>2. StoreOK' /\ Grow
  BY <1>1, SameStore DEF IInv
<1>3. RestOK'
  BY <1>1, <1>2 DEF IInv, RestOK, Grow
<1>4. charged' = charged /\ built' = built /\ UNCHANGED quotaVars
  BY DEF ResolveAlert, storeVars
<1>5. QuotaOK'
  BY <1>4, QuotaStays DEF IInv
<1>6. doubtful' = doubtful
  BY <1>4 DEF quotaVars
<1>7. QED  BY <1>1, <1>2, <1>3, <1>5, <1>6, StoreStep DEF IInv

LEMMA CreatePolicyOK ==
    ASSUME IInv, NEW severity \in Severities, NEW action \in PolicyActions,
           CreatePolicy(severity, action)
    PROVE  IInv'
<1> DEFINE p == [severity |-> severity, action |-> action, is_active |-> TRUE]
<1>1. /\ policies' = Append(policies, p)
      /\ UNCHANGED <<open, resolved>> /\ AddRow
      /\ UNCHANGED <<built, charged, events, entries>>
      /\ Forget /\ report' = IF AtRest THEN NoReport ELSE report
  BY DEF CreatePolicy, ForgetAll
<1>2. StoreOK' /\ Grow
  BY <1>1, RestGrows DEF IInv
<1>3. p \in Policy
  BY DEF Policy
<1>4. policies \in Seq(Policy)
  BY DEF IInv, RestOK
<1> HIDE DEF p
<1>5. policies' \in Seq(Policy)
  BY <1>1, <1>3, <1>4, Appended
<1>6. RestOK'
  BY <1>1, <1>2, <1>5 DEF IInv, RestOK, Grow
<1>7. charged' = charged /\ built' = built /\ UNCHANGED quotaVars
  BY DEF CreatePolicy, storeVars
<1>8. QuotaOK'
  BY <1>7, QuotaStays DEF IInv
<1>9. doubtful' = doubtful
  BY <1>7 DEF quotaVars
<1>10. QED  BY <1>1, <1>2, <1>6, <1>8, <1>9, StoreStep DEF IInv

LEMMA UpdatePolicyOK ==
    ASSUME IInv, NEW i \in DOMAIN policies, NEW p \in Policy, UpdatePolicy(i, p)
    PROVE  IInv'
<1>1. /\ policies' = [policies EXCEPT ![i] = p]
      /\ UNCHANGED <<open, resolved>> /\ UNCHANGED storeVars
      /\ Forget /\ report' = IF AtRest THEN NoReport ELSE report
  BY DEF UpdatePolicy, ForgetAll
<1>2. StoreOK' /\ Grow
  BY <1>1, SameStore DEF IInv
<1>3. policies \in Seq(Policy)
  BY DEF IInv, RestOK
<1>4. policies' \in Seq(Policy)
  BY <1>1, <1>3
<1>5. RestOK'
  BY <1>1, <1>2, <1>4 DEF IInv, RestOK, Grow
<1>6. charged' = charged /\ built' = built /\ UNCHANGED quotaVars
  BY DEF UpdatePolicy, storeVars
<1>7. QuotaOK'
  BY <1>6, QuotaStays DEF IInv
<1>8. doubtful' = doubtful
  BY <1>6 DEF quotaVars
<1>9. QED  BY <1>1, <1>2, <1>5, <1>7, <1>8, StoreStep DEF IInv

LEMMA ReportStepsOK ==
    ASSUME IInv,
           \/ \E since \in Times : BeginReport(since)
           \/ SummarizeEvents \/ SummarizeAlerts \/ SummarizeQuota \/ SummarizePolicies
           \/ ReportFails
    PROVE  IInv'
<1>1. StoreOK /\ RestOK /\ QuotaOK /\ ReadersOK
  BY DEF IInv
<1>2. UNCHANGED storeVars /\ UNCHANGED <<quotaVars, open, resolved, policies>>
  BY DEF BeginReport, Begin, SummarizeEvents, SummarizeAlerts, SummarizeQuota,
         SummarizePolicies, Read, ReportFails
<1>3. ReadersOK'
  BY <1>1, BeginReportOK, SummarizeEventsOK, SummarizeAlertsOK, SummarizeQuotaOK,
     SummarizePoliciesOK, ReportFailsOK
<1>4. QuotaOK'
  BY <1>1, <1>2, QuotaStays DEF storeVars
<1>5. QED  BY <1>1, <1>2, <1>3, <1>4, SameStore, RestStays DEF IInv

\* The steps of the quota.
LEMMA QuotaStep ==
    ASSUME IInv,
           \/ \E n \in DOMAIN built : ReadCount(n) \/ CommitCount(n) \/ DropCheck(n)
           \/ ResetCount
           \/ \E new \in DailyLimits : Provision(new)
    PROVE  IInv'
<1>1. StoreOK /\ RestOK /\ QuotaOK /\ ReadersOK
  BY DEF IInv
<1>2. /\ UNCHANGED <<open, resolved, policies>> /\ doubtful \subseteq doubtful'
      /\ Forget /\ report' = IF AtRest THEN NoReport ELSE report
      /\ UNCHANGED storeVars \/ \E n \in DOMAIN built : Pass(n)
  BY DEF ReadCount, CommitCount, DropCheck, ResetCount, Provision, ForgetAll
<1>3. StoreOK' /\ Grow
  BY <1>1, <1>2, SameStore, PassGrows
<1>4. QuotaOK'
  BY <1>1, ReadCountKeeps, CommitCountKeeps, DropCheckKeeps, ResetCountKeeps, ProvisionKeeps
<1>5. QED  BY <1>1, <1>2, <1>3, <1>4, StoreStep, RestStays DEF IInv

\* Nothing happens.
LEMMA StutterOK ==
    ASSUME IInv, UNCHANGED vars
    PROVE  IInv'
<1>1. /\ UNCHANGED storeVars /\ task' = task /\ dirty' = dirty
      /\ UNCHANGED <<open, resolved, policies>> /\ report' = report
      /\ UNCHANGED quotaVars /\ doubtful' = doubtful
  BY DEF vars, readVars, quotaVars, reportVars
<1>2. StoreOK' /\ Grow /\ RestOK' /\ QuotaOK'
  BY <1>1, SameStore, RestStays, QuotaStays DEF IInv, storeVars
<1>3. CASE ~AtRest
  BY <1>1, <1>2, <1>3, Kept DEF IInv
<1>4. CASE AtRest
  <2>1. /\ events' = events /\ entries' = entries /\ charged' = charged /\ Stored' = Stored
    BY <1>1 DEF storeVars, Stored
  <2>2. DirtyOK'
    BY <1>1, <1>2, DirtyStays DEF IInv, ReadersOK
  <2>3. ScanInv' /\ ReportInv'
    BY <1>1, <1>2, ScanStays, ReportStays DEF IInv, ReadersOK
  <2>4. ReplayInv'
    BY <1>1, <2>1 DEF IInv, ReadersOK, ReplayInv, Loaded, Flagged
  <2>5. DirtStaysVisible'
    BY <1>1, <2>1 DEF IInv, ReadersOK, DirtStaysVisible
  <2>6. TaskOK'
    BY <1>1, <2>1 DEF IInv, ReadersOK, TaskOK, RowsIn
  <2>7. QED  BY <1>2, <2>2, <2>3, <2>4, <2>5, <2>6 DEF IInv, ReadersOK
<1>5. QED  BY <1>3, <1>4

LEMMA InitOK == Init => IInv
<1> SUFFICES ASSUME Init PROVE IInv
  OBVIOUS
<1>1. /\ built = <<>> /\ charged = {} /\ events = <<>> /\ entries = <<>> /\ rows = 0
      /\ task = NoTask /\ dirty = {} /\ open = {} /\ resolved = {} /\ policies = <<>>
      /\ report = NoReport
      /\ daily_limit \in DailyLimits /\ counted = 0 /\ held = <<>> /\ doubtful = {}
  BY DEF Init, EventsInit
<1>2. /\ built \in Seq(Event) /\ entries \in Seq(Times) /\ policies \in Seq(Policy)
      /\ Stored = {} /\ rows \in 0 .. MaxRows
  BY <1>1, BoundsAssumption DEF Stored
<1>3. StoreOK /\ RestOK
  BY <1>1, <1>2 DEF StoreOK, RestOK
<1>4. /\ task.op = "none" /\ task.stage = "done" /\ task.source = "events"
      /\ task.seen = {} /\ task.present = {} /\ task \in Task
  BY <1>1, NoTaskOK DEF NoTask
<1>5. TaskOK
  BY <1>4 DEF TaskOK, StagesOf
<1>6. DirtyOK /\ ScanInv /\ ReplayInv /\ DirtStaysVisible /\ ReportInv
  BY <1>1, <1>4 DEF DirtyOK, ScanInv, ReplayInv, DirtStaysVisible, ReportInv
<1>7. QuotaOK
  <2>1. Checking = {} /\ Clean = {} /\ Cardinality({}) = 0
    BY <1>1, FS_EmptySet DEF Checking, Clean
  <2>2. QED  BY <1>1, <2>1 DEF QuotaOK
<1>8. QED  BY <1>3, <1>5, <1>6, <1>7 DEF IInv, ReadersOK

\* The invariant holds in every state (all of the actions of Reports).
THEOREM Invariance == Spec => []IInv
<1>1. Init => IInv
  BY InitOK
<1>2. IInv /\ [Next]_vars => IInv'
  <2> SUFFICES ASSUME IInv, [Next]_vars PROVE IInv'
    OBVIOUS
  <2>1. CASE UNCHANGED vars
    BY <2>1, StutterOK
  <2>2. CASE /\ EventsNext /\ UNCHANGED <<quotaVars, open, resolved, policies>>
             /\ report' = IF AtRest THEN NoReport ELSE report
    BY <2>2, EventsStep
  <2>3. ASSUME NEW n \in Stored, RaiseAlert(n) \/ ResolveAlert(n) PROVE IInv'
    BY <2>3, RaiseAlertOK, ResolveAlertOK
  <2>4. ASSUME NEW severity \in Severities, NEW action \in PolicyActions,
               CreatePolicy(severity, action)
        PROVE  IInv'
    BY <2>4, CreatePolicyOK
  <2>5. ASSUME NEW i \in DOMAIN policies, NEW p \in Policy, UpdatePolicy(i, p)
        PROVE  IInv'
    BY <2>5, UpdatePolicyOK
  <2>6. CASE \/ \E since \in Times : BeginReport(since)
             \/ SummarizeEvents \/ SummarizeAlerts \/ SummarizeQuota \/ SummarizePolicies
             \/ ReportFails
    BY <2>6, ReportStepsOK
  <2>7. CASE \/ \E n \in DOMAIN built : ReadCount(n) \/ CommitCount(n) \/ DropCheck(n)
             \/ ResetCount
             \/ \E new \in DailyLimits : Provision(new)
    BY <2>7, QuotaStep
  <2>8. QED  BY <2>1, <2>2, <2>3, <2>4, <2>5, <2>6, <2>7 DEF Next
<1>3. QED  BY <1>1, <1>2, PTL DEF Spec

----------------------------------------------------------------------------
(***************************************************************************)
(* What the readers can rely on.                                           *)
(***************************************************************************)

\* Rows are stored after they were counted and with a payload_hash, and alerts
\* are of events that are stored (TypeOK; EventRecord, Alert).
THEOREM TypeCorrect == Spec => []TypeOK
<1>1. IInv => TypeOK
  <2> SUFFICES ASSUME IInv PROVE TypeOK
    OBVIOUS
  <2>1. StoreOK /\ RestOK /\ QuotaOK /\ TaskOK /\ DirtyOK
    BY DEF IInv, ReadersOK
  <2>2. \A n \in Stored : events[n].payload_hash # "absent"
    BY <2>1, RowFacts
  <2>3. task.seen \subseteq RowsIn(task.source) /\ dirty \subseteq Stored
    BY <2>1 DEF TaskOK, DirtyOK
  <2>4. EventsTypeOK
    BY <2>1, <2>2, <2>3 DEF EventsTypeOK, StoreOK
  <2>5. QED  BY <2>1, <2>4 DEF TypeOK, RestOK, QuotaOK
<1>2. QED  BY <1>1, Invariance, PTL

\* A list that is read page by page up to its total shows every row that was
\* there at the start and has a time of its own, whatever is stored meanwhile
\* and however long the pages are (list_events, count_events, list_for_tenant,
\* count_for_tenant).
THEOREM PagesAreComplete == Spec => []ScanMissesNothing
<1>1. IInv => ScanMissesNothing
  BY DEF IInv, ReadersOK, ScanInv, ScanMissesNothing
<1>2. QED  BY <1>1, Invariance, PTL

\* A replay is in the order of the sender's clock, and of the session when that
\* clock advanced; what it leaves out is older, and it leaves out nothing that
\* fits its limit (load_events, replay_events, summarize).
THEOREM ReplayIsFaithful == Spec => []ReplayFollowsSession
<1>1. IInv => ReplayFollowsSession
  <2> SUFFICES ASSUME IInv, task.op = "replay", task.stage \in {"summarize", "done"},
                      ~task.error
               PROVE  LET shown == Range(task.list)
                          left == task.present \ shown
                          At(n) == events[n].timestamp
                          Shows(type) == \E n \in shown : built[n].event_type = type
                      IN  /\ \A i, j \in DOMAIN task.list : i < j =>
                                 /\ At(task.list[i]) <= At(task.list[j])
                                 /\ ClockAdvanced => task.list[i] < task.list[j]
                          /\ left # {} => Cardinality(shown) = ReplayLimit
                          /\ \A m \in left, n \in shown : At(m) <= At(n)
                          /\ task.started = Shows("agent_started")
                          /\ task.completed =
                                 (Shows("agent_completed") \/ Shows("agent_failed"))
    BY DEF ReplayFollowsSession
  <2>1. Loaded /\ Flagged
    BY DEF IInv, ReadersOK, ReplayInv
  <2>2. \A n \in Range(task.list) :
            /\ n \in Stored /\ n \in DOMAIN built /\ n \in Nat
            /\ events[n].timestamp = built[n].timestamp
            /\ events[n].event_type = built[n].event_type
            /\ events[n].timestamp \in Int
    <3>1. Range(task.list) \subseteq Stored
      BY <2>1 DEF Loaded, IInv, ReadersOK, TaskOK, RowsIn
    <3>2. QED  BY <3>1, RowFacts DEF IInv
  <2>3. ASSUME NEW i \in DOMAIN task.list, NEW j \in DOMAIN task.list, i < j, ClockAdvanced
        PROVE  task.list[i] < task.list[j]
    <3>1. /\ task.list[i] # task.list[j]
          /\ events[task.list[i]].timestamp <= events[task.list[j]].timestamp
      BY <2>1, <2>3 DEF Loaded
    <3>2. task.list[i] \in Range(task.list) /\ task.list[j] \in Range(task.list)
      BY DEF Range
    <3>3. PICK m \in DOMAIN built, n \in DOMAIN built :
              m = task.list[i] /\ n = task.list[j]
      BY <2>2, <3>2
    <3>4. /\ m \in Nat /\ n \in Nat /\ m # n /\ built[m].timestamp <= built[n].timestamp
          /\ built[m].timestamp \in Int /\ built[n].timestamp \in Int
      BY <2>2, <3>1, <3>2, <3>3
    <3>5. n < m => built[n].timestamp < built[m].timestamp
      BY <2>3 DEF ClockAdvanced
    <3>6. m < n
      BY <3>4, <3>5
    <3>7. QED  BY <3>3, <3>6
  <2>4. \A i, j \in DOMAIN task.list : i < j =>
            events[task.list[i]].timestamp <= events[task.list[j]].timestamp
    BY <2>1 DEF Loaded
  <2>5. \A type : (\E n \in Range(task.list) : events[n].event_type = type)
                      <=> (\E n \in Range(task.list) : built[n].event_type = type)
    BY <2>2
  <2>6. /\ task.started = (\E n \in Range(task.list) : built[n].event_type = "agent_started")
        /\ task.completed =
               (\/ \E n \in Range(task.list) : built[n].event_type = "agent_completed"
                \/ \E n \in Range(task.list) : built[n].event_type = "agent_failed")
    BY <2>1, <2>5 DEF Flagged
  <2>7. /\ task.present \ Range(task.list) # {} => Cardinality(Range(task.list)) = ReplayLimit
        /\ \A m \in task.present \ Range(task.list), n \in Range(task.list) :
               events[m].timestamp <= events[n].timestamp
    BY <2>1 DEF Loaded
  <2>8. QED  BY <2>3, <2>4, <2>6, <2>7
<1>2. QED  BY <1>1, Invariance, PTL

\* An altered event that was reported once is reported again while no more
\* events are as old as a verification checks (verify_tenant_integrity).
THEOREM DirtIsFoundAgain == Spec => []DirtStaysVisible
<1>1. IInv => DirtStaysVisible
  BY DEF IInv, ReadersOK
<1>2. QED  BY <1>1, Invariance, PTL

\* A report that shows room left for the day shows no more than its tier grants,
\* although checks lose each other's counts, the count is reset, the tier changes
\* and the reads of the report are not one transaction: room and events make up the
\* limit at most, but for events whose own check overlapped another or came before
\* a reset (generate_report, check_and_increment).
THEOREM ReportsBalance == Spec => []ReportOwesNothing
<1>1. IInv => ReportOwesNothing
  <2> SUFFICES ASSUME IInv, report # NoReport, "daily_remaining" \in DOMAIN report
               PROVE  \/ report.daily_remaining = 0
                      \/ Cardinality(report.counted_events \ doubtful)
                             + report.daily_remaining <= report.daily_limit
    BY DEF ReportOwesNothing
  <2>1. ReportInv /\ TaskOK
    BY DEF IInv, ReadersOK
  <2>2. task.op = "report" /\ ~task.error
    BY <2>1 DEF ReportInv
  <2>3. task.stage \in {"policies", "done"}
    BY <2>1, <2>2 DEF ReportInv, TaskOK, StagesOf
  <2>4. Balanced
    BY <2>1, <2>2, <2>3 DEF ReportInv
  <2>5. QED  BY <2>4 DEF Balanced, Room
<1>2. QED  BY <1>1, Invariance, PTL

----------------------------------------------------------------------------
(***************************************************************************)
(* The evaluation of policies.                                             *)
(***************************************************************************)

LEMMA RankOfAction ==
    ASSUME NEW a \in DOMAIN ActionRank
    PROVE  ActionRank[a] \in 0 .. 9
BY DEF ActionRank

LEMMA AllowIsWeakest ==
    "allow" \in DOMAIN ActionRank /\ ActionRank["allow"] = 0
BY DEF ActionRank

LEMMA RankOfSeverity ==
    ASSUME NEW s \in DOMAIN SeverityRank
    PROVE  SeverityRank[s] \in Int
BY DEF SeverityRank

\* Some action is the strongest.
LEMMA StrongestExists ==
    ASSUME NEW A \in SUBSET DOMAIN ActionRank, A # {}
    PROVE  \E a \in A : \A b \in A : ActionRank[b] <= ActionRank[a]
<1> SUFFICES ASSUME \A a \in A : \E b \in A : ~(ActionRank[b] <= ActionRank[a]) PROVE FALSE
  OBVIOUS
<1>1. \A a \in A : ActionRank[a] \in 0 .. 9
  BY RankOfAction
<1>2. \A a \in A : \E b \in A : ActionRank[b] >= ActionRank[a] + 1
  BY <1>1
<1>3. PICK a \in A : TRUE
  OBVIOUS
<1>4. PICK b \in A : ActionRank[b] >= ActionRank[a] + 1
  BY <1>2
<1>5. PICK c \in A : ActionRank[c] >= ActionRank[b] + 1
  BY <1>2
<1>6. PICK d \in A : ActionRank[d] >= ActionRank[c] + 1
  BY <1>2
<1>7. PICK e \in A : ActionRank[e] >= ActionRank[d] + 1
  BY <1>2
<1>8. PICK f \in A : ActionRank[f] >= ActionRank[e] + 1
  BY <1>2
<1>9. PICK g \in A : ActionRank[g] >= ActionRank[f] + 1
  BY <1>2
<1>10. PICK h \in A : ActionRank[h] >= ActionRank[g] + 1
  BY <1>2
<1>11. PICK i \in A : ActionRank[i] >= ActionRank[h] + 1
  BY <1>2
<1>12. PICK j \in A : ActionRank[j] >= ActionRank[i] + 1
  BY <1>2
<1>13. PICK k \in A : ActionRank[k] >= ActionRank[j] + 1
  BY <1>2
<1>14. ActionRank[a] >= 0 /\ ActionRank[k] <= 9
  BY <1>1
<1>15. QED
  BY <1>1, <1>4, <1>5, <1>6, <1>7, <1>8, <1>9, <1>10, <1>11, <1>12, <1>13, <1>14

LEMMA WinnerFacts ==
    ASSUME NEW A \in SUBSET DOMAIN ActionRank
    PROVE  /\ WinningAction(A) \in DOMAIN ActionRank
           /\ A # {} => WinningAction(A) \in A
           /\ A = {} => WinningAction(A) = "allow"
           /\ \A b \in A : ActionRank[b] <= ActionRank[WinningAction(A)]
<1>1. CASE A = {}
  BY <1>1, AllowIsWeakest DEF WinningAction
<1>2. CASE A # {}
  <2>1. WinningAction(A) =
            CHOOSE a \in A : \A b \in A : ActionRank[b] <= ActionRank[a]
    BY <1>2 DEF WinningAction
  <2>2. \E a \in A : \A b \in A : ActionRank[b] <= ActionRank[a]
    BY <1>2, StrongestExists
  <2>3. /\ WinningAction(A) \in A
        /\ \A b \in A : ActionRank[b] <= ActionRank[WinningAction(A)]
    BY <2>1, <2>2, Zenon
  <2>4. QED  BY <1>2, <2>3
<1>3. QED  BY <1>1, <1>2

\* More actions, a stronger winner.
LEMMA WinnerGrows ==
    ASSUME NEW B \in SUBSET DOMAIN ActionRank, NEW A \in SUBSET B
    PROVE  ActionRank[WinningAction(A)] <= ActionRank[WinningAction(B)]
<1>1. A \in SUBSET DOMAIN ActionRank
  OBVIOUS
<1>2. CASE A = {}
  <2>1. WinningAction(A) = "allow" /\ WinningAction(B) \in DOMAIN ActionRank
    BY <1>1, <1>2, WinnerFacts
  <2>2. ActionRank[WinningAction(B)] \in 0 .. 9
    BY <2>1, RankOfAction
  <2>3. QED  BY <2>1, <2>2, AllowIsWeakest
<1>3. CASE A # {}
  <2>1. WinningAction(A) \in B
    BY <1>1, <1>3, WinnerFacts
  <2>2. QED  BY <2>1, WinnerFacts
<1>4. QED  BY <1>2, <1>3

\* A severer request is answered no more weakly, and no more weakly than any
\* active policy for its severity commands, for every list of policies
\* (evaluate).
THEOREM SeverityIsAnswered == Spec => []EvaluationIsMonotone
<1>1. IInv => EvaluationIsMonotone
  <2> SUFFICES ASSUME IInv, NEW s \in Severities, NEW t \in Severities,
                      SeverityRank[s] <= SeverityRank[t]
               PROVE  /\ ActionRank[Evaluate(s).action] <= ActionRank[Evaluate(t).action]
                      /\ Evaluate(s).is_blocked => Evaluate(t).is_blocked
                      /\ \A i \in Evaluate(s).matched :
                             ActionRank[policies[i].action] <= ActionRank[Evaluate(t).action]
    BY DEF EvaluationIsMonotone
  <2> DEFINE Matched(u) == {i \in Active : PolicyMatches(policies[i], u)}
             Actions(u) == {policies[i].action : i \in Matched(u)}
  <2>1. \A u : /\ Evaluate(u).matched = Matched(u)
               /\ Evaluate(u).action = WinningAction(Actions(u))
               /\ Evaluate(u).is_blocked = IsBlocked(WinningAction(Actions(u)))
    BY DEF Evaluate
  <2>2. \A i \in Active : /\ policies[i].severity \in DOMAIN SeverityRank
                          /\ policies[i].action \in DOMAIN ActionRank
    <3>1. \A i \in Active : policies[i] \in Policy
      BY DEF IInv, RestOK, Active
    <3>2. QED  BY <3>1, PolicyAssumption DEF Policy
  <2>3. Matched(s) \subseteq Matched(t)
    <3>1. SeverityRank[s] \in Int /\ SeverityRank[t] \in Int
      BY PolicyAssumption, RankOfSeverity
    <3>2. ASSUME NEW i \in Active, PolicyMatches(policies[i], s)
          PROVE  PolicyMatches(policies[i], t)
      <4>1. SeverityRank[policies[i].severity] \in Int
        BY <2>2, RankOfSeverity
      <4>2. QED  BY <3>1, <3>2, <4>1 DEF PolicyMatches
    <3>3. QED  BY <3>2
  <2>4. Actions(s) \subseteq Actions(t) /\ Actions(t) \subseteq DOMAIN ActionRank
    BY <2>2, <2>3
  <2>5. \A i \in Matched(s) : policies[i].action \in Actions(t)
    BY <2>3
  <2> HIDE DEF Matched, Actions
  <2>6. PICK A, B : A = Actions(s) /\ B = Actions(t)
    OBVIOUS
  <2>7. B \in SUBSET DOMAIN ActionRank /\ A \in SUBSET B
    BY <2>4, <2>6
  <2>8. ActionRank[WinningAction(A)] <= ActionRank[WinningAction(B)]
    BY <2>7, WinnerGrows
  <2>9. IsBlocked(WinningAction(A)) => IsBlocked(WinningAction(B))
    <3>1. WinningAction(A) \in DOMAIN ActionRank /\ WinningAction(B) \in DOMAIN ActionRank
      BY <2>7, WinnerFacts
    <3>2. PICK x \in 0 .. 9, y \in 0 .. 9 : /\ x = ActionRank[WinningAction(A)]
                                            /\ y = ActionRank[WinningAction(B)]
      BY <3>1, RankOfAction
    <3>3. ActionRank["block_tool_call"] = 4
      BY DEF ActionRank
    <3>4. QED  BY <2>8, <3>2, <3>3 DEF IsBlocked
  <2>10. \A b \in B : ActionRank[b] <= ActionRank[WinningAction(B)]
    BY <2>7, WinnerFacts
  <2>11. QED  BY <2>1, <2>5, <2>6, <2>8, <2>9, <2>10
<1>2. QED  BY <1>1, Invariance, PTL
=============================================================================
