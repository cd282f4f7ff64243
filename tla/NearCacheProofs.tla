-------------------------- MODULE NearCacheProofs --------------------------
(***************************************************************************)
(* Proofs about NearCache, for any threads, keys, limits and bounds: the   *)
(* map respects maxEntries, and no invalidation is lost.                   *)
(***************************************************************************)
EXTENDS NearCache, FiniteSetTheorems, SequenceTheorems, WellFoundedInduction, TLAPS

\* FirstIn finds what SomeIn says is there.
LEMMA FirstInIsFirst ==
    ASSUME NEW s \in Seq(Key), NEW S, SomeIn(s, S)
    PROVE  /\ FirstIn(s, S) \in DOMAIN s
           /\ s[FirstIn(s, S)] \in S
           /\ \A j \in 1..(FirstIn(s, S) - 1) : s[j] \notin S
<1> DEFINE T == {i \in DOMAIN s : s[i] \in S}
<1>1. T \subseteq Nat /\ T # {}
  BY DEF SomeIn
<1>2. PICK x \in T : \A y \in T : ~ (<<y, x>> \in OpToRel(<, Nat))
  BY <1>1, WFMin, NatLessThanWellFounded
<1>3. \A y \in T : ~ (y < x)
  BY <1>1, <1>2 DEF OpToRel
<1>4. x \in DOMAIN s /\ s[x] \in S /\ \A j \in 1..(x - 1) : s[j] \notin S
  BY <1>3
<1> QED
  BY <1>4 DEF FirstIn

\* Erasing one occurrence keeps every other element of a FIFO.
LEMMA EraseKeepsOthers ==
    ASSUME NEW s \in Seq(Key), NEW i \in DOMAIN s
    PROVE  /\ RemoveAt(s, i) \in Seq(Key)
           /\ \A x \in Range(s) : x # s[i] => x \in Range(RemoveAt(s, i))
<1> DEFINE a == SubSeq(s, 1, i - 1)
           b == SubSeq(s, i + 1, Len(s))
<1>1. a \in Seq(Key) /\ Len(a) = i - 1 /\ \A j \in 1..(i - 1) : a[j] = s[j]
  OBVIOUS
<1>2. b \in Seq(Key) /\ Len(b) = Len(s) - i /\ \A j \in 1..(Len(s) - i) : b[j] = s[i + j]
  OBVIOUS
<1>3. RemoveAt(s, i) = a \o b
  BY DEF RemoveAt
<1>4. /\ a \o b \in Seq(Key) /\ Len(a \o b) = Len(s) - 1
      /\ \A j \in 1..(i - 1) : (a \o b)[j] = s[j]
      /\ \A j \in i..(Len(s) - 1) : (a \o b)[j] = s[j + 1]
  <2> HIDE DEF a, b
  <2>1. /\ a \o b \in Seq(Key) /\ Len(a \o b) = Len(a) + Len(b)
        /\ \A j \in 1..(Len(a) + Len(b)) :
              (a \o b)[j] = IF j <= Len(a) THEN a[j] ELSE b[j - Len(a)]
    BY <1>1, <1>2, ConcatProperties
  <2>2. \A j \in 1..(i - 1) : (a \o b)[j] = s[j]
    BY <1>1, <1>2, <2>1
  <2>3. ASSUME NEW j \in i..(Len(s) - 1)
        PROVE  (a \o b)[j] = s[j + 1]
    <3>1. (a \o b)[j] = b[j - (i - 1)]
      BY <1>1, <1>2, <2>1, <2>3, SMTT(30)
    <3>2. b[j - (i - 1)] = s[i + (j - (i - 1))] /\ i + (j - (i - 1)) = j + 1
      BY <1>2, <2>3
    <3> QED
      BY <3>1, <3>2
  <2> QED
    BY <1>1, <1>2, <2>1, <2>2, <2>3, SMTT(30)
<1>5. ASSUME NEW x \in Range(s), x # s[i]
      PROVE  x \in Range(a \o b)
  <2>1. PICK j \in DOMAIN s : s[j] = x
    BY <1>5 DEF Range
  <2> HIDE DEF a, b
  <2>2. CASE j < i
    <3>1. j \in 1..(i - 1) /\ j \in 1..(Len(s) - 1)
      BY <2>2
    <3>2. (a \o b)[j] = x
      BY <2>1, <3>1, <1>4
    <3>3. j \in DOMAIN (a \o b)
      BY <3>1, <1>4
    <3> QED
      BY <3>2, <3>3 DEF Range
  <2>3. CASE j > i
    <3>1. j - 1 \in i..(Len(s) - 1) /\ (a \o b)[j - 1] = x /\ j - 1 \in DOMAIN (a \o b)
      BY <2>1, <2>3, <1>4, SMTT(30)
    <3> QED
      BY <3>1 DEF Range
  <2> QED
    BY <2>1, <2>2, <2>3, <1>5
<1> QED
  BY <1>3, <1>4, <1>5

\* What is left of a FIFO after the elements up to i are popped.
LEMMA SuffixKeepsRest ==
    ASSUME NEW s \in Seq(Key), NEW i \in DOMAIN s
    PROVE  /\ SubSeq(s, i + 1, Len(s)) \in Seq(Key)
           /\ \A j \in (i + 1)..Len(s) : s[j] \in Range(SubSeq(s, i + 1, Len(s)))
<1> DEFINE b == SubSeq(s, i + 1, Len(s))
<1>1. b \in Seq(Key) /\ Len(b) = Len(s) - i /\ \A j \in 1..(Len(s) - i) : b[j] = s[i + j]
  OBVIOUS
<1>2. ASSUME NEW j \in (i + 1)..Len(s)
      PROVE  s[j] \in Range(b)
  <2>1. j - i \in DOMAIN b /\ b[j - i] = s[j]
    BY <1>1, <1>2
  <2> QED
    BY <2>1 DEF Range
<1> QED
  BY <1>1, <1>2

-----------------------------------------------------------------------------
(* The sections under the mutex *)

Fills == NearBounded /\ EntriesAreEvictable

\* removeElementFromMap takes the key out of the map and keeps the rest evictable.
LEMMA RemoveElementKeeps ==
    ASSUME NearOK, Fills, NEW k \in Key, RemoveElement(k)
    PROVE  /\ DOMAIN nearMap' = DOMAIN nearMap \ {k}
           /\ \A j \in DOMAIN nearMap' : nearMap'[j] = nearMap[j]
           /\ nearFifo' \in Seq(Key)
           /\ late' = late \ {k}
           /\ Fills'
<1>1. /\ DOMAIN nearMap' = DOMAIN nearMap \ {k}
      /\ \A j \in DOMAIN nearMap' : nearMap'[j] = nearMap[j]
      /\ late' = late \ {k}
  BY DEF RemoveElement, Without
<1>2. nearFifo \in Seq(Key)
  BY DEF NearOK
<1>3. /\ nearFifo' \in Seq(Key)
      /\ \A x \in Range(nearFifo) : x # k => x \in Range(nearFifo')
  <2>1. CASE MaxEntries > 0 /\ SomeIn(nearFifo, {k})
    <3> DEFINE i == FirstIn(nearFifo, {k})
    <3>1. i \in DOMAIN nearFifo /\ nearFifo[i] = k
      BY <1>2, <2>1, FirstInIsFirst
    <3>2. nearFifo' = RemoveAt(nearFifo, i)
      BY <2>1 DEF RemoveElement
    <3> HIDE DEF i
    <3> QED
      BY <1>2, <3>1, <3>2, EraseKeepsOthers
  <2>2. CASE ~(MaxEntries > 0 /\ SomeIn(nearFifo, {k}))
    BY <1>2, <2>2 DEF RemoveElement
  <2> QED
    BY <2>1, <2>2
<1>4. IsFiniteSet(DOMAIN nearMap)
  BY KeyAssumption, FS_Subset DEF NearOK
<1>5. Cardinality(DOMAIN nearMap') <= Cardinality(DOMAIN nearMap)
  BY <1>1, <1>4, FS_Subset
<1>6. Cardinality(DOMAIN nearMap) \in Nat /\ Cardinality(DOMAIN nearMap') \in Nat
  BY <1>1, <1>4, FS_Subset, FS_CardinalityType
<1>7. NearBounded'
  BY <1>5, <1>6, BoundsAssumption DEF Fills, NearBounded
<1>8. EntriesAreEvictable'
  BY <1>1, <1>3 DEF Fills, EntriesAreEvictable
<1> QED
  BY <1>1, <1>3, <1>7, <1>8 DEF Fills

\* What addElementToMap evicts: nothing, or, when the map is full, one of its entries.
\* Entries of the map stay in the FIFO, and the new key is there.
LEMMA EvictKeeps ==
    ASSUME NearOK, Fills, MaxEntries > 0, NEW k \in Key,
           Cardinality(DOMAIN nearMap) >= MaxEntries
    PROVE  LET e == Evict(Append(nearFifo, k))
           IN /\ e.fifo \in Seq(Key)
              /\ \E x \in DOMAIN nearMap : e.out = {x}
              /\ (DOMAIN nearMap \ e.out) \cup {k} \subseteq Range(e.fifo)
<1> DEFINE fifo == Append(nearFifo, k)
           i == FirstIn(fifo, DOMAIN nearMap)
           rest == SubSeq(fifo, i + 1, Len(fifo))
<1>1. /\ nearFifo \in Seq(Key) /\ fifo \in Seq(Key)
      /\ Len(fifo) = Len(nearFifo) + 1 /\ fifo[Len(fifo)] = k
      /\ \A j \in 1..Len(nearFifo) : fifo[j] = nearFifo[j]
  BY DEF NearOK
<1>2. \E x \in DOMAIN nearMap : TRUE
  <2>1. IsFiniteSet(DOMAIN nearMap)
    BY KeyAssumption, FS_Subset DEF NearOK
  <2> QED
    BY <2>1, FS_EmptySet, BoundsAssumption
<1>3. \A x \in DOMAIN nearMap : \E j \in 1..Len(nearFifo) : fifo[j] = x
  <2>1. DOMAIN nearMap \subseteq Range(nearFifo)
    BY DEF Fills, EntriesAreEvictable
  <2> QED
    BY <1>1, <2>1 DEF Range
<1>4. SomeIn(fifo, DOMAIN nearMap)
  BY <1>1, <1>2, <1>3 DEF SomeIn
<1> HIDE DEF fifo
<1>5. /\ i \in DOMAIN fifo /\ fifo[i] \in DOMAIN nearMap
      /\ \A j \in 1..(i - 1) : fifo[j] \notin DOMAIN nearMap
  BY <1>1, <1>4, FirstInIsFirst
<1> HIDE DEF i
<1>6. Evict(fifo) = [out |-> {fifo[i]}, fifo |-> rest]
  BY <1>4 DEF Evict, i
<1>7. rest \in Seq(Key) /\ \A j \in (i + 1)..Len(fifo) : fifo[j] \in Range(rest)
  BY <1>1, <1>5, SuffixKeepsRest
<1> HIDE DEF rest
<1>8. i < Len(fifo)
  <2>1. PICK x \in DOMAIN nearMap : TRUE
    BY <1>2
  <2>2. PICK j \in 1..Len(nearFifo) : fifo[j] = x
    BY <1>3
  <2> QED
    BY <1>1, <1>5, <2>1, <2>2
<1>9. k \in Range(rest)
  BY <1>1, <1>5, <1>7, <1>8
<1>10. ASSUME NEW x \in DOMAIN nearMap, x # fifo[i]
       PROVE  x \in Range(rest)
  <2>1. PICK j \in 1..Len(nearFifo) : fifo[j] = x
    BY <1>3
  <2>2. j \in (i + 1)..Len(fifo)
    BY <1>1, <1>5, <1>10, <2>1
  <2> QED
    BY <1>7, <2>1, <2>2
<1>11. /\ Evict(fifo).fifo \in Seq(Key)
       /\ \E x \in DOMAIN nearMap : Evict(fifo).out = {x}
       /\ (DOMAIN nearMap \ Evict(fifo).out) \cup {k} \subseteq Range(Evict(fifo).fifo)
  BY <1>5, <1>6, <1>7, <1>9, <1>10
<1> QED
  BY <1>11 DEF fifo

\* One more element is at most one more.
LEMMA AddOne ==
    ASSUME NEW S, IsFiniteSet(S), NEW x
    PROVE  /\ Cardinality(S \cup {x}) \in Nat
           /\ Cardinality(S \cup {x}) <= Cardinality(S) + 1
<1>1. Cardinality(S) \in Nat
  BY FS_CardinalityType
<1>2. Cardinality(S \cup {x}) = IF x \in S THEN Cardinality(S) ELSE Cardinality(S) + 1
  BY FS_AddElement
<1> QED
  BY <1>1, <1>2

\* addElementToMap keeps the map within maxEntries and all of it evictable.
LEMMA AddElementKeeps ==
    ASSUME NearOK, Fills, NEW k \in Key, NEW v, AddElement(k, v)
    PROVE  /\ k \in DOMAIN nearMap' /\ nearMap'[k] = v
           /\ DOMAIN nearMap' \subseteq DOMAIN nearMap \cup {k}
           /\ \A j \in DOMAIN nearMap' \ {k} : nearMap'[j] = nearMap[j]
           /\ nearFifo' \in Seq(Key)
           /\ late' \subseteq DOMAIN nearMap'
           /\ \A j \in DOMAIN nearMap' \ {k} : j \in late => j \in late'
           /\ v # server[k] \/ ~registered => k \in late'
           /\ Fills'
<1> DEFINE fifo == Append(nearFifo, k)
           D == DOMAIN nearMap
           kept == CASE MaxEntries = 0 -> [out |-> {}, fifo |-> nearFifo]
                     [] MaxEntries > 0 /\ Cardinality(D) < MaxEntries ->
                           [out |-> {}, fifo |-> fifo]
                     [] OTHER -> Evict(fifo)
<1>1. /\ nearFifo' = kept.fifo
      /\ nearMap' = [j \in (D \ kept.out) \cup {k} |-> IF j = k THEN v ELSE nearMap[j]]
      /\ late' = (late \ (kept.out \cup {k}))
                     \cup (IF v # server[k] \/ ~registered THEN {k} ELSE {})
  BY DEF AddElement
<1>2. IsFiniteSet(D) /\ Cardinality(D) \in Nat /\ MaxEntries \in Nat
  BY KeyAssumption, FS_Subset, FS_CardinalityType, BoundsAssumption DEF NearOK
<1>3. nearFifo \in Seq(Key) /\ fifo \in Seq(Key) /\ late \subseteq D
  BY DEF NearOK
<1>4. /\ kept.fifo \in Seq(Key)
      /\ MaxEntries > 0 => (D \ kept.out) \cup {k} \subseteq Range(kept.fifo)
      /\ MaxEntries > 0 => \/ kept.out = {} /\ Cardinality(D) < MaxEntries
                           \/ \E x \in D : kept.out = {x}
  <2>1. CASE MaxEntries = 0
    <3>1. kept = [out |-> {}, fifo |-> nearFifo]
      BY <2>1
    <3> QED
      BY <2>1, <3>1, <1>3
  <2>2. CASE MaxEntries > 0 /\ Cardinality(D) < MaxEntries
    <3>1. kept = [out |-> {}, fifo |-> fifo]
      BY <2>2, <1>2
    <3>2. D \subseteq Range(nearFifo)
      BY <2>2 DEF Fills, EntriesAreEvictable
    <3>3. Range(nearFifo) \cup {k} \subseteq Range(fifo)
      <4>1. /\ DOMAIN fifo = 1..(Len(nearFifo) + 1) /\ fifo[Len(nearFifo) + 1] = k
            /\ \A j \in DOMAIN nearFifo : j \in DOMAIN fifo /\ fifo[j] = nearFifo[j]
        BY <1>3
      <4> HIDE DEF fifo
      <4> QED
        BY <4>1, <1>3 DEF Range
    <3> HIDE DEF fifo, kept
    <3> QED
      BY <2>2, <3>1, <3>2, <3>3, <1>3
  <2>3. CASE MaxEntries > 0 /\ Cardinality(D) >= MaxEntries
    <3>1. kept = Evict(fifo)
      BY <2>3, <1>2
    <3> HIDE DEF kept
    <3> QED
      BY <2>3, <3>1, EvictKeeps
  <2> QED
    BY <1>2, <2>1, <2>2, <2>3
<1> HIDE DEF kept, fifo
<1>5. DOMAIN nearMap' = (D \ kept.out) \cup {k}
  BY <1>1
<1>6. NearBounded'
  <2> SUFFICES ASSUME MaxEntries > 0
               PROVE  Cardinality((D \ kept.out) \cup {k}) <= MaxEntries
    BY <1>5 DEF NearBounded
  <2>1. CASE kept.out = {} /\ Cardinality(D) < MaxEntries
    <3>1. (D \ kept.out) = D
      BY <2>1
    <3>2. /\ Cardinality(D \cup {k}) \in Nat
          /\ Cardinality(D \cup {k}) <= Cardinality(D) + 1
      BY <1>2, AddOne
    <3> HIDE DEF D
    <3> QED
      BY <1>2, <2>1, <3>1, <3>2
  <2>2. CASE \E x \in D : kept.out = {x}
    <3>1. PICK x \in D : kept.out = {x}
      BY <2>2
    <3>2. IsFiniteSet(D \ {x}) /\ Cardinality(D \ {x}) = Cardinality(D) - 1
      BY <1>2, FS_RemoveElement
    <3>3. /\ Cardinality((D \ {x}) \cup {k}) \in Nat
          /\ Cardinality((D \ {x}) \cup {k}) <= Cardinality(D \ {x}) + 1
      BY <3>2, AddOne
    <3>4. Cardinality(D) <= MaxEntries
      BY DEF Fills, NearBounded
    <3> HIDE DEF D
    <3> QED
      BY <1>2, <3>1, <3>2, <3>3, <3>4
  <2> QED
    BY <1>4, <2>1, <2>2
<1>7. EntriesAreEvictable'
  BY <1>1, <1>4, <1>5 DEF EntriesAreEvictable
<1>8. /\ k \in DOMAIN nearMap' /\ nearMap'[k] = v
      /\ \A j \in DOMAIN nearMap' \ {k} : nearMap'[j] = nearMap[j]
  BY <1>1
<1>9. /\ late' \subseteq DOMAIN nearMap'
      /\ \A j \in DOMAIN nearMap' \ {k} : j \in late => j \in late'
      /\ v # server[k] \/ ~registered => k \in late'
  <2>1. late' \subseteq DOMAIN nearMap'
    BY <1>1, <1>3, <1>5
  <2>2. \A j \in DOMAIN nearMap' \ {k} : j \in late => j \in late'
    BY <1>1, <1>5
  <2>3. v # server[k] \/ ~registered => k \in late'
    BY <1>1
  <2> QED
    BY <2>1, <2>2, <2>3
<1> QED
  BY <1>1, <1>4, <1>5, <1>6, <1>7, <1>8, <1>9 DEF Fills

-----------------------------------------------------------------------------
(* The server *)

\* A report adds its keys to the events and loses none.
LEMMA ReportAdds ==
    ASSUME ServerOK, NEW ks \in Seq(Key), Report(ks)
    PROVE  /\ events' \in Seq(Key)
           /\ \A x \in Range(events) : x \in Range(events')
           /\ registered => \A x \in Range(ks) : x \in Range(events')
<1>1. events \in Seq(Key)
  BY DEF ServerOK
<1>2. CASE ~registered
  BY <1>1, <1>2 DEF Report
<1>3. CASE registered
  <2>1. events' = events \o ks
    BY <1>3 DEF Report
  <2>2. /\ events \o ks \in Seq(Key) /\ Len(events \o ks) = Len(events) + Len(ks)
        /\ \A i \in 1..(Len(events) + Len(ks)) :
              (events \o ks)[i] = IF i <= Len(events) THEN events[i] ELSE ks[i - Len(events)]
    BY <1>1, ConcatProperties
  <2> DEFINE all == events \o ks
  <2>3. DOMAIN all = 1..(Len(events) + Len(ks))
    BY <2>2
  <2>4. ASSUME NEW x \in Range(events) PROVE x \in Range(all)
    <3>1. PICK i \in DOMAIN events : events[i] = x
      BY DEF Range
    <3>2. i \in 1..(Len(events) + Len(ks)) /\ i <= Len(events)
      BY <1>1
    <3>3. all[i] = x
      BY <2>2, <3>1, <3>2
    <3> HIDE DEF all
    <3> QED
      BY <2>3, <3>2, <3>3 DEF Range
  <2>5. ASSUME NEW x \in Range(ks) PROVE x \in Range(all)
    <3>1. PICK i \in DOMAIN ks : ks[i] = x
      BY DEF Range
    <3>2. /\ Len(events) + i \in 1..(Len(events) + Len(ks))
          /\ ~(Len(events) + i <= Len(events)) /\ (Len(events) + i) - Len(events) = i
      BY <1>1
    <3>3. all[Len(events) + i] = x
      BY <2>2, <3>1, <3>2
    <3> HIDE DEF all
    <3> QED
      BY <2>3, <3>2, <3>3 DEF Range
  <2> QED
    BY <2>1, <2>2, <2>4, <2>5
<1> QED
  BY <1>2, <1>3

\* An order of a finite set of keys contains each of them.
LEMMA OrdersAreComplete ==
    ASSUME NEW S, S \subseteq Key, NEW ks \in SetToSeqs(S)
    PROVE  ks \in Seq(Key) /\ \A x \in S : x \in Range(ks)
<1> DEFINE D == 1..Cardinality(S)
<1>1. IsFiniteSet(S) /\ Cardinality(S) \in Nat
  BY KeyAssumption, FS_Subset, FS_CardinalityType
<1>2. ks \in [D -> S] /\ \A i, j \in D : i # j => ks[i] # ks[j]
  BY DEF SetToSeqs
<1>3. ks \in Injection(D, S)
  BY <1>2, Zenon DEF Injection, IsInjective
<1>4. Cardinality(D) = Cardinality(S)
  BY <1>1, FS_Interval
<1>5. ks \in Surjection(D, S)
  BY <1>1, <1>3, <1>4, FS_Injection
<1>6. \A x \in S : \E i \in D : ks[i] = x
  BY <1>5 DEF Surjection
<1>7. ks \in Seq(Key)
  BY <1>1, <1>2
<1> QED
  BY <1>2, <1>6, <1>7 DEF Range

\* A change of the server is reported, so it keeps the near cache coherent.
LEMMA ChangeKeeps ==
    ASSUME NearOK, ServerOK, Coherent, NEW k \in Key, Store(k) \/ Delete(k),
           UNCHANGED <<nearVars, handling>>
    PROVE  /\ ServerOK' /\ NearOK' /\ Coherent'
           /\ version' \in Nat /\ version <= version' /\ registered' = registered
<1>1. Report(<<k>>) /\ registered' = registered /\ <<k>> \in Seq(Key) /\ k \in Range(<<k>>)
  BY DEF Store, Delete, Range
<1>2. /\ events' \in Seq(Key)
      /\ \A x \in Range(events) : x \in Range(events')
      /\ registered => k \in Range(events')
  BY <1>1, ReportAdds
<1>3. /\ version' \in 0..MaxVersion /\ version <= version'
      /\ server' \in [Key -> 0..version']
      /\ \A j \in Key \ {k} : server'[j] = server[j]
  <2>1. CASE Store(k)
    <3>1. version' = version + 1 /\ version' \in 0..MaxVersion
      BY <2>1, BoundsAssumption DEF Store, ServerOK
    <3>2. server' = [server EXCEPT ![k] = version']
      BY <2>1, <3>1 DEF Store
    <3> QED
      BY <3>1, <3>2 DEF ServerOK
  <2>2. CASE Delete(k)
    <3>1. version' = version /\ server' = [server EXCEPT ![k] = 0]
      BY <2>2 DEF Delete
    <3> QED
      BY <3>1, BoundsAssumption DEF ServerOK
  <2> QED
    BY <2>1, <2>2
<1>4. ServerOK'
  BY <1>1, <1>2, <1>3 DEF ServerOK
<1>5. NearOK'
  BY <1>3 DEF NearOK, nearVars, ServerOK
<1>6. Coherent'
  <2> SUFFICES ASSUME registered', NEW j \in DOMAIN nearMap \ late
               PROVE  nearMap[j] = server'[j] \/ j \in Range(events') \cup {handling}
    BY DEF Coherent, nearVars
  <2>1. nearMap[j] = server[j] \/ j \in Range(events) \cup {handling}
    BY <1>1 DEF Coherent
  <2> QED
    BY <1>1, <1>2, <1>3, <2>1 DEF NearOK
<1> QED
  BY <1>1, <1>3, <1>4, <1>5, <1>6

-----------------------------------------------------------------------------
(* The inductive invariant *)

IInv == TypeOK /\ LocalsOK /\ Fills /\ ListenerOK /\ Coherent

LEMMA InitIInv == Init => IInv
<1> SUFFICES ASSUME Init PROVE IInv
  OBVIOUS
<1>1. TypeOK
  BY BoundsAssumption DEF Init, TypeOK, NearOK, CallsOK, EventsOK, ServerOK, NoEntries
<1>2. DOMAIN nearMap = {}
  BY DEF Init, NoEntries
<1>3. LocalsOK /\ ListenerOK /\ Coherent /\ EntriesAreEvictable
  BY <1>2 DEF Init, LocalsOK, ListenerOK, Coherent, EntriesAreEvictable
<1>4. NearBounded
  BY <1>2, FS_EmptySet, BoundsAssumption DEF NearBounded
<1> QED
  BY <1>1, <1>3, <1>4 DEF IInv, Fills

\* A call that starts or goes on keeps the locals in their domains.
LEMMA GotoKeeps ==
    ASSUME CallsOK, LocalsOK, NEW t \in Thread, NEW k \in Key,
           NEW l \in {"fetch", "put", "replace", "remove", "forget"},
           pc[t] = "ready", Goto(t, l), key' = [key EXCEPT ![t] = k],
           UNCHANGED <<val, version>>, ops' \in [Thread -> 0..MaxOps]
    PROVE  CallsOK' /\ LocalsOK'
BY DEF CallsOK, LocalsOK, Goto

\* A call that ends forgets its locals.
LEMMA ReturnKeeps ==
    ASSUME CallsOK, LocalsOK, NEW t \in Thread, Return(t), version' \in Nat, version \in Nat,
           version <= version', ops' = ops
    PROVE  CallsOK' /\ LocalsOK'
<1>1. CallsOK'
  BY DEF CallsOK, Return, Goto
<1>2. LocalsOK'
  BY DEF CallsOK, LocalsOK, Return, Goto
<1> QED
  BY <1>1, <1>2

LEMMA CallCounts ==
    ASSUME CallsOK, NEW t \in Thread, Call(t)
    PROVE  pc[t] = "ready" /\ ops' \in [Thread -> 0..MaxOps]
BY BoundsAssumption DEF CallsOK, Call

\* Taking a key out of the map keeps the invariant of the map.
LEMMA RemovalKeeps ==
    ASSUME IInv, NEW k \in Key, RemoveElement(k), UNCHANGED serverVars,
           UNCHANGED <<dispatcher, handling>> \/ (handling = k /\ UNCHANGED dispatcher)
    PROVE  NearOK' /\ Fills' /\ ListenerOK' /\ Coherent'
<1>1. NearOK /\ Fills /\ Coherent /\ ListenerOK
  BY DEF IInv, TypeOK
<1>2. /\ DOMAIN nearMap' = DOMAIN nearMap \ {k}
      /\ \A j \in DOMAIN nearMap' : nearMap'[j] = nearMap[j]
      /\ nearFifo' \in Seq(Key)
      /\ late' = late \ {k}
      /\ Fills'
  BY <1>1, RemoveElementKeeps
<1>3. UNCHANGED <<server, version, registered, events>>
  BY DEF serverVars
<1>4. NearOK'
  BY <1>1, <1>2, <1>3 DEF NearOK
<1>5. ListenerOK'
  BY <1>1, <1>2, <1>3 DEF ListenerOK
<1>6. Coherent'
  BY <1>1, <1>2, <1>3 DEF Coherent
<1> QED
  BY <1>2, <1>4, <1>5, <1>6

\* Emptying the map keeps the invariant of the map.
LEMMA EmptyingKeeps ==
    ASSUME IInv, nearMap' = NoEntries, nearFifo' \in Seq(Key), late' = {},
           UNCHANGED serverVars, dispatcher' = "run" => dispatcher = "run",
           dispatcher' # "run" => ~registered
    PROVE  NearOK' /\ Fills' /\ ListenerOK' /\ Coherent'
<1>1. DOMAIN nearMap' = {}
  BY DEF NoEntries
<1>2. NearOK' /\ EntriesAreEvictable' /\ ListenerOK' /\ Coherent'
  BY <1>1 DEF NearOK, EntriesAreEvictable, ListenerOK, Coherent, serverVars
<1>3. NearBounded'
  BY <1>1, FS_EmptySet, BoundsAssumption DEF NearBounded
<1> QED
  BY <1>2, <1>3 DEF Fills

\* Actions of the client threads.
LEMMA StartKeeps ==
    ASSUME IInv, NEW t \in Thread, Start(t)
    PROVE  IInv'
<1> USE DEF IInv, TypeOK
<1>0. NearOK /\ CallsOK /\ EventsOK /\ ServerOK /\ LocalsOK /\ Fills /\ ListenerOK /\ Coherent
  OBVIOUS
<1>1. CASE Clear(t)
  <2> DEFINE S == {k \in Key : server[k] # 0}
  <2>1. pc[t] = "ready" /\ ops' \in [Thread -> 0..MaxOps]
    BY <1>1, CallCounts DEF Clear
  <2>2. PICK ks \in SetToSeqs(S) : Report(ks)
    BY <1>1 DEF Clear
  <2>3. ks \in Seq(Key) /\ \A x \in S : x \in Range(ks)
    BY <2>2, OrdersAreComplete
  <2> HIDE DEF S
  <2>4. /\ events' \in Seq(Key)
        /\ \A x \in Range(events) : x \in Range(events')
        /\ registered => \A x \in S : x \in Range(events')
    BY <2>2, <2>3, ReportAdds
  <2>5. UNCHANGED <<nearVars, key, val, eventVars, version, registered>>
    BY <1>1 DEF Clear
  <2>6. ServerOK'
    BY <1>1, <2>4, <2>5 DEF Clear, ServerOK
  <2>7. CallsOK' /\ LocalsOK'
    BY <1>1, <2>1, <2>5 DEF Clear, CallsOK, LocalsOK, Goto
  <2>8. NearOK' /\ Fills' /\ ListenerOK' /\ EventsOK'
    BY <2>5 DEF NearOK, Fills, NearBounded, EntriesAreEvictable, ListenerOK, EventsOK,
                nearVars, eventVars
  <2>9. Coherent'
    <3>1. \A k \in Key : k \in S \/ server'[k] = server[k]
      BY <1>1 DEF Clear, S, ServerOK
    <3> QED
      BY <2>4, <2>5, <3>1 DEF Coherent, NearOK, nearVars, eventVars
  <2> QED
    BY <2>6, <2>7, <2>8, <2>9
<1>2. CASE \E k \in Key : GetNear(t, k)
  <2>1. PICK k \in Key : GetNear(t, k)
    BY <1>2
  <2>2. ops' \in [Thread -> 0..MaxOps]
    BY <2>1, CallCounts DEF GetNear
  <2>3. UNCHANGED <<nearVars, callVars, eventVars, serverVars>>
    BY <2>1 DEF GetNear
  <2> QED
    BY <2>2, <2>3 DEF NearOK, CallsOK, EventsOK, ServerOK, LocalsOK, Fills, NearBounded,
        EntriesAreEvictable, ListenerOK, Coherent, nearVars, callVars, eventVars, serverVars
<1>3. CASE \E k \in Key : GetMiss(t, k)
  <2>1. PICK k \in Key : GetMiss(t, k)
    BY <1>3
  <2>2. pc[t] = "ready" /\ ops' \in [Thread -> 0..MaxOps]
    BY <2>1, CallCounts DEF GetMiss
  <2>3. UNCHANGED <<nearVars, val, eventVars, serverVars>>
    BY <2>1 DEF GetMiss
  <2>4. CallsOK' /\ LocalsOK'
    BY <2>1, <2>2, <2>3, GotoKeeps DEF GetMiss, serverVars
  <2> QED
    BY <2>3, <2>4 DEF NearOK, EventsOK, ServerOK, Fills, NearBounded,
        EntriesAreEvictable, ListenerOK, Coherent, nearVars, eventVars, serverVars
<1>4. CASE \E k \in Key : WriteVersion(t, k)
  <2>1. PICK k \in Key : WriteVersion(t, k)
    BY <1>4
  <2>2. pc[t] = "ready" /\ ops' \in [Thread -> 0..MaxOps]
    BY <2>1, CallCounts DEF WriteVersion
  <2>3. /\ Store(k) \/ Delete(k)
        /\ UNCHANGED <<nearVars, val, eventVars>>
        /\ \/ Goto(t, "forget") /\ key' = [key EXCEPT ![t] = k]
           \/ UNCHANGED <<pc, key>>
    BY <2>1 DEF WriteVersion
  <2>4. /\ ServerOK' /\ NearOK' /\ Coherent'
        /\ version' \in Nat /\ version <= version' /\ registered' = registered
    BY <2>3, ChangeKeeps DEF eventVars
  <2>5. CallsOK' /\ LocalsOK'
    <3>1. val' \in [Thread -> 0..version']
      BY <2>3, <2>4 DEF CallsOK, ServerOK
    <3>2. CASE Goto(t, "forget") /\ key' = [key EXCEPT ![t] = k]
      BY <2>2, <2>3, <3>1, <3>2 DEF CallsOK, LocalsOK, Goto
    <3>3. CASE UNCHANGED <<pc, key>>
      BY <2>2, <2>3, <3>1, <3>3 DEF CallsOK, LocalsOK
    <3> QED
      BY <2>3, <3>2, <3>3
  <2>6. Fills' /\ ListenerOK' /\ EventsOK'
    BY <2>3, <2>4 DEF Fills, NearBounded, EntriesAreEvictable, ListenerOK, EventsOK,
                      nearVars, eventVars
  <2> QED
    BY <2>4, <2>5, <2>6
<1>5. CASE \E k \in Key, op \in {"put", "replace", "remove"} : Write(t, k, op)
  <2>1. PICK k \in Key, op \in {"put", "replace", "remove"} : Write(t, k, op)
    BY <1>5
  <2>2. pc[t] = "ready" /\ ops' \in [Thread -> 0..MaxOps]
    BY <2>1, CallCounts DEF Write
  <2>3. RemoveElement(k) /\ UNCHANGED <<val, eventVars, serverVars>>
    BY <2>1 DEF Write
  <2>4. NearOK' /\ Fills' /\ ListenerOK' /\ Coherent'
    BY <2>3, RemovalKeeps DEF eventVars
  <2>5. CallsOK' /\ LocalsOK'
    BY <2>1, <2>2, <2>3, GotoKeeps DEF Write, serverVars
  <2>6. EventsOK' /\ ServerOK'
    BY <2>3 DEF EventsOK, ServerOK, eventVars, serverVars
  <2> QED
    BY <2>4, <2>5, <2>6
<1> QED
  BY <1>1, <1>2, <1>3, <1>4, <1>5 DEF Start

LEMMA ClientKeeps ==
    ASSUME IInv, NEW t \in Thread, Client(t)
    PROVE  IInv'
<1> USE DEF IInv, TypeOK
<1>0. /\ NearOK /\ CallsOK /\ EventsOK /\ ServerOK /\ LocalsOK /\ Fills /\ ListenerOK
      /\ Coherent /\ version \in Nat
  BY DEF ServerOK
<1>1. CASE GetRemote(t)
  <2>1. UNCHANGED <<nearVars, ops, eventVars, serverVars>>
    BY <1>1 DEF GetRemote
  <2>2. CallsOK' /\ LocalsOK'
    <3>1. CASE Return(t)
      BY <1>0, <2>1, <3>1, ReturnKeeps DEF serverVars
    <3>2. CASE /\ server[key[t]] # 0 /\ Goto(t, "store") /\ UNCHANGED key
               /\ val' = [val EXCEPT ![t] = server[key[t]]]
      <4>1. pc[t] = "fetch" /\ key[t] \in Key
        BY <1>1 DEF GetRemote, LocalsOK
      <4>2. server[key[t]] \in 0..version /\ server[key[t]] > 0
        BY <3>2, <4>1 DEF ServerOK
      <4>3. UNCHANGED <<version, ops>>
        BY <2>1 DEF serverVars
      <4> QED
        BY <3>2, <4>1, <4>2, <4>3 DEF CallsOK, LocalsOK, Goto
    <3> QED
      BY <1>1, <3>1, <3>2 DEF GetRemote
  <2> QED
    BY <2>1, <2>2 DEF NearOK, EventsOK, ServerOK, Fills, NearBounded,
        EntriesAreEvictable, ListenerOK, Coherent, nearVars, eventVars, serverVars
<1>2. CASE GetStore(t)
  <2> DEFINE k == key[t]
             v == val[t]
  <2>1. k \in Key /\ v \in 1..version
    <3>1. pc[t] = "store" /\ val[t] \in 0..version
      BY <1>2 DEF GetStore, CallsOK
    <3>2. key[t] \in Key /\ val[t] > 0
      BY <3>1 DEF LocalsOK
    <3> QED
      BY <1>0, <3>1, <3>2
  <2>2. AddElement(k, v) /\ Return(t) /\ UNCHANGED <<ops, eventVars, serverVars>>
    BY <1>2 DEF GetStore
  <2>3. UNCHANGED <<version, server, registered, events, dispatcher, handling>>
    BY <2>2 DEF eventVars, serverVars
  <2> HIDE DEF k, v
  <2>4. /\ k \in DOMAIN nearMap' /\ nearMap'[k] = v
        /\ DOMAIN nearMap' \subseteq DOMAIN nearMap \cup {k}
        /\ \A j \in DOMAIN nearMap' \ {k} : nearMap'[j] = nearMap[j]
        /\ nearFifo' \in Seq(Key)
        /\ late' \subseteq DOMAIN nearMap'
        /\ \A j \in DOMAIN nearMap' \ {k} : j \in late => j \in late'
        /\ v # server[k] \/ ~registered => k \in late'
        /\ Fills'
    BY <2>1, <2>2, AddElementKeeps
  <2>5. NearOK'
    BY <2>1, <2>3, <2>4 DEF NearOK
  <2>6. ListenerOK'
    BY <2>3, <2>4 DEF ListenerOK
  <2>7. Coherent'
    <3> SUFFICES ASSUME registered, NEW j \in DOMAIN nearMap' \ late'
                 PROVE  nearMap'[j] = server[j] \/ j \in Range(events) \cup {handling}
      BY <2>3 DEF Coherent
    <3>1. CASE j = k
      BY <2>4, <3>1
    <3>2. CASE j # k
      BY <2>4, <3>2 DEF Coherent
    <3> QED
      BY <3>1, <3>2
  <2>8. CallsOK' /\ LocalsOK'
    BY <1>0, <2>2, <2>3, ReturnKeeps
  <2>9. EventsOK' /\ ServerOK'
    BY <2>2 DEF EventsOK, ServerOK, eventVars, serverVars
  <2> QED
    BY <2>4, <2>5, <2>6, <2>7, <2>8, <2>9
<1>3. CASE WriteRemote(t)
  <2>1. key[t] \in Key
    BY <1>3 DEF WriteRemote, LocalsOK
  <2>2. Return(t) /\ UNCHANGED <<nearVars, ops, eventVars>>
    BY <1>3 DEF WriteRemote
  <2>3. Store(key[t]) \/ Delete(key[t]) \/ UNCHANGED serverVars
    BY <1>3 DEF WriteRemote
  <2>4. /\ ServerOK' /\ NearOK' /\ Coherent'
        /\ version' \in Nat /\ version <= version' /\ registered' = registered
    <3>1. CASE Store(key[t]) \/ Delete(key[t])
      BY <2>1, <2>2, <3>1, ChangeKeeps DEF eventVars
    <3>2. CASE UNCHANGED serverVars
      BY <1>0, <2>2, <3>2 DEF ServerOK, NearOK, Coherent, nearVars, eventVars, serverVars
    <3> QED
      BY <2>3, <3>1, <3>2
  <2>5. CallsOK' /\ LocalsOK'
    BY <1>0, <2>2, <2>4, ReturnKeeps
  <2>6. Fills' /\ ListenerOK' /\ EventsOK'
    BY <2>2, <2>4 DEF Fills, NearBounded, EntriesAreEvictable, ListenerOK, EventsOK,
                      nearVars, eventVars
  <2> QED
    BY <2>4, <2>5, <2>6
<1>4. CASE WriteForget(t)
  <2>1. key[t] \in Key
    BY <1>4 DEF WriteForget, LocalsOK
  <2>2. RemoveElement(key[t]) /\ Return(t) /\ UNCHANGED <<ops, eventVars, serverVars>>
    BY <1>4 DEF WriteForget
  <2>3. NearOK' /\ Fills' /\ ListenerOK' /\ Coherent'
    BY <2>1, <2>2, RemovalKeeps DEF eventVars
  <2>4. CallsOK' /\ LocalsOK'
    BY <1>0, <2>2, ReturnKeeps DEF serverVars
  <2>5. EventsOK' /\ ServerOK'
    BY <2>2 DEF EventsOK, ServerOK, eventVars, serverVars
  <2> QED
    BY <2>3, <2>4, <2>5
<1>5. CASE ClearNear(t)
  <2>1. ClearMap /\ Return(t) /\ UNCHANGED <<ops, eventVars, serverVars>>
    BY <1>5 DEF ClearNear
  <2>2. NearOK' /\ Fills' /\ ListenerOK' /\ Coherent'
    BY <2>1, EmptyingKeeps DEF ClearMap, eventVars, ListenerOK
  <2>3. CallsOK' /\ LocalsOK'
    BY <1>0, <2>1, ReturnKeeps DEF serverVars
  <2>4. EventsOK' /\ ServerOK'
    BY <2>1 DEF EventsOK, ServerOK, eventVars, serverVars
  <2> QED
    BY <2>2, <2>3, <2>4
<1> QED
  BY <1>1, <1>2, <1>3, <1>4, <1>5 DEF Client

\* Actions of the dispatcher, the connection and other clients.
LEMMA EnvironmentKeeps ==
    ASSUME IInv, Dispatcher \/ OtherClient \/ ConnectionLost
    PROVE  IInv'
<1> USE DEF IInv, TypeOK
<1>0. /\ NearOK /\ CallsOK /\ EventsOK /\ ServerOK /\ LocalsOK /\ Fills /\ ListenerOK
      /\ Coherent /\ version \in Nat
  BY DEF ServerOK
<1>1. CASE ReadEvent
  <2>1. events \in Seq(Key) /\ events # <<>> /\ left = 0 /\ handling = None
    BY <1>1 DEF ReadEvent, ServerOK, EventsOK
  <2>2. /\ Head(events) \in Key /\ Tail(events) \in Seq(Key)
        /\ \A x \in Range(events) : x = Head(events) \/ x \in Range(Tail(events))
    <3>1. /\ Head(events) = events[1] /\ Head(events) \in Key /\ Tail(events) \in Seq(Key)
          /\ Len(Tail(events)) = Len(events) - 1
          /\ \A i \in 1..Len(Tail(events)) : Tail(events)[i] = events[i + 1]
      BY <2>1, HeadTailProperties
    <3>2. ASSUME NEW x \in Range(events), x # Head(events)
          PROVE  x \in Range(Tail(events))
      <4>1. PICK i \in DOMAIN events : events[i] = x
        BY DEF Range
      <4>2. i - 1 \in 1..Len(Tail(events)) /\ (i - 1) + 1 = i
        BY <2>1, <3>1, <3>2, <4>1
      <4>3. Tail(events)[i - 1] = x /\ i - 1 \in DOMAIN Tail(events)
        BY <3>1, <4>1, <4>2
      <4> QED
        BY <4>3 DEF Range
    <3> QED
      BY <3>1, <3>2
  <2>3. /\ handling' = Head(events) /\ left' = callbacks /\ events' = Tail(events)
        /\ UNCHANGED <<nearVars, callVars, ops, dispatcher, callbacks, failures, server,
                       version, registered>>
    BY <1>1 DEF ReadEvent
  <2>4. EventsOK' /\ ServerOK'
    BY <2>2, <2>3, NoneAssumption DEF EventsOK, ServerOK
  <2>5. Coherent'
    BY <2>1, <2>2, <2>3, NoneAssumption DEF Coherent, nearVars, NearOK
  <2>6. NearOK' /\ CallsOK' /\ LocalsOK' /\ Fills' /\ ListenerOK'
    BY <2>3 DEF NearOK, CallsOK, LocalsOK, Fills, NearBounded, EntriesAreEvictable,
                ListenerOK, nearVars, callVars
  <2> QED
    BY <2>4, <2>5, <2>6
<1>2. CASE Callback
  <2>1. handling \in Key
    BY <1>2 DEF Callback, EventsOK
  <2>2. /\ RemoveElement(handling) /\ left > 0 /\ left' = left - 1
        /\ handling' = IF left = 1 THEN None ELSE handling
        /\ UNCHANGED <<callVars, ops, dispatcher, callbacks, failures, serverVars>>
    BY <1>2 DEF Callback
  <2>3. NearOK' /\ Fills' /\ ListenerOK' /\ Coherent'
    BY <2>1, <2>2, RemovalKeeps
  <2>4. EventsOK'
    BY <2>1, <2>2, NoneAssumption DEF EventsOK
  <2>5. CallsOK' /\ LocalsOK' /\ ServerOK'
    BY <2>2 DEF CallsOK, LocalsOK, ServerOK, callVars, serverVars
  <2> QED
    BY <2>3, <2>4, <2>5
<1>3. CASE FailOver
  <2>1. /\ InvalidateCache /\ ~registered /\ dispatcher' = "register"
        /\ UNCHANGED <<callVars, ops, handling, left, callbacks, failures, serverVars>>
    BY <1>3 DEF FailOver
  <2>2. NearOK' /\ Fills' /\ ListenerOK' /\ Coherent'
    BY <1>0, <2>1, EmptyingKeeps DEF InvalidateCache, NearOK
  <2>3. EventsOK' /\ CallsOK' /\ LocalsOK' /\ ServerOK'
    BY <2>1 DEF EventsOK, CallsOK, LocalsOK, ServerOK, callVars, serverVars
  <2> QED
    BY <2>2, <2>3
<1>4. CASE StartListener
  <2>1. /\ dispatcher = "register" /\ callbacks' = callbacks + 1
        /\ \/ registered' = TRUE /\ dispatcher' = "run"
           \/ UNCHANGED registered /\ dispatcher' = "dead"
        /\ UNCHANGED <<nearVars, callVars, ops, handling, left, failures, server, version,
                       events>>
    BY <1>4 DEF StartListener
  <2>2. ~registered /\ DOMAIN nearMap \subseteq late
    BY <2>1 DEF ListenerOK
  <2>3. ListenerOK' /\ Coherent'
    BY <2>1, <2>2 DEF ListenerOK, Coherent, nearVars
  <2>4. EventsOK' /\ ServerOK'
    <3>1. registered' \in BOOLEAN
      BY <2>1, Zenon DEF ServerOK
    <3>2. ServerOK'
      BY <2>1, <3>1 DEF ServerOK
    <3>3. callbacks' \in Nat \ {0} /\ dispatcher' \in {"run", "register", "dead"}
      BY <2>1 DEF EventsOK
    <3> QED
      BY <2>1, <3>2, <3>3 DEF EventsOK
  <2>5. NearOK' /\ CallsOK' /\ LocalsOK' /\ Fills'
    BY <2>1 DEF NearOK, CallsOK, LocalsOK, Fills, NearBounded, EntriesAreEvictable,
                nearVars, callVars
  <2> QED
    BY <2>3, <2>4, <2>5
<1>5. CASE OtherClient
  <2>1. PICK k \in Key : Store(k) \/ Delete(k)
    BY <1>5 DEF OtherClient
  <2>2. UNCHANGED <<nearVars, callVars, ops, eventVars>>
    BY <1>5 DEF OtherClient
  <2>3. /\ ServerOK' /\ NearOK' /\ Coherent'
        /\ version' \in Nat /\ version <= version' /\ registered' = registered
    BY <2>1, <2>2, ChangeKeeps DEF eventVars
  <2>4. CallsOK'
    BY <1>0, <2>2, <2>3 DEF CallsOK, callVars
  <2>5. LocalsOK' /\ Fills' /\ ListenerOK' /\ EventsOK'
    BY <2>2, <2>3 DEF LocalsOK, Fills, NearBounded, EntriesAreEvictable, ListenerOK,
                      EventsOK, nearVars, callVars, eventVars
  <2> QED
    BY <2>3, <2>4, <2>5
<1>6. CASE ConnectionLost
  <2>1. PICK n \in 0..Len(events) : events' = SubSeq(events, 1, n)
    BY <1>6 DEF ConnectionLost
  <2>2. events' \in Seq(Key)
    BY <2>1 DEF ServerOK
  <2>3. /\ registered /\ ~registered' /\ failures < MaxFailures /\ failures' = failures + 1
        /\ UNCHANGED <<nearVars, callVars, ops, dispatcher, handling, left, callbacks,
                       server, version>>
    BY <1>6 DEF ConnectionLost
  <2>4. ServerOK' /\ EventsOK'
    <3>1. registered' \in BOOLEAN
      BY <1>6 DEF ConnectionLost
    <3>2. ServerOK'
      BY <2>2, <2>3, <3>1 DEF ServerOK
    <3>3. failures' \in 0..MaxFailures
      BY <2>3, BoundsAssumption DEF EventsOK
    <3> QED
      BY <2>3, <3>2, <3>3 DEF EventsOK
  <2>5. Coherent' /\ ListenerOK'
    BY <2>3 DEF Coherent, ListenerOK, nearVars
  <2>6. NearOK' /\ CallsOK' /\ LocalsOK' /\ Fills'
    BY <2>3 DEF NearOK, CallsOK, LocalsOK, Fills, NearBounded, EntriesAreEvictable,
                nearVars, callVars
  <2> QED
    BY <2>4, <2>5, <2>6
<1> QED
  BY <1>1, <1>2, <1>3, <1>4, <1>5, <1>6 DEF Dispatcher

LEMMA StutterKeeps == IInv /\ UNCHANGED vars => IInv'
BY DEF vars, IInv, TypeOK, NearOK, CallsOK, EventsOK, ServerOK, LocalsOK, Fills, NearBounded,
       EntriesAreEvictable, ListenerOK, Coherent

LEMMA IInvHolds == Spec => []IInv
<1>1. IInv /\ [Next]_vars => IInv'
  BY StartKeeps, ClientKeeps, EnvironmentKeeps, StutterKeeps DEF Next
<1> QED
  BY InitIInv, <1>1, PTL DEF Spec

\* addElementToMap, removeElementFromMap, clearMap and invalidateCache keep the map
\* within maxEntries and every entry within reach of the eviction, for any number of
\* threads and keys and any limit.
THEOREM NearCacheIsBounded == Spec => [](NearBounded /\ EntriesAreEvictable)
BY IInvHolds, PTL DEF IInv, Fills

\* No order of puts, removals, clears and failovers strands an entry: whatever the map
\* holds, the eviction can find.
THEOREM NoEntryIsStranded == Spec => []EntriesAreEvictable
BY NearCacheIsBounded, PTL

\* No interleaving of reads, writes, callbacks and failovers loses an invalidation of an
\* entry that was current when it was stored.
THEOREM NearCacheIsCoherent == Spec => []Coherent
BY IInvHolds, PTL DEF IInv

\* The variables stay in their domains.
THEOREM NearCacheTypes == Spec => []TypeOK
BY IInvHolds, PTL DEF IInv

=============================================================================
