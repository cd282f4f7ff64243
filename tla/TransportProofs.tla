--------------------------- MODULE TransportProofs ---------------------------
(***************************************************************************)
(* Proofs about the two parts a transport rests on.  BlockingQueue, in     *)
(* which the pool keeps the idle ones: no wakeup is lost and the order is  *)
(* kept, for any threads, values and capacity.  Connection: nothing is     *)
(* asked before TLS and SASL are done, and what is read is what the server *)
(* sent, for any settings, buffers and cuts of the stream.                 *)
(***************************************************************************)
EXTENDS Connection, BlockingQueue, SequenceTheorems, FiniteSetTheorems, TLAPS

-----------------------------------------------------------------------------
(* BlockingQueue                                                           *)

\* s without its element i.
Dropped(s, i) == SubSeq(s, 1, i - 1) \o SubSeq(s, i + 1, Len(s))

\* Dropped takes one element out.
LEMMA DroppedIs ==
  ASSUME NEW S, NEW s \in Seq(S), NEW i \in 1 .. Len(s)
  PROVE  /\ Dropped(s, i) \in Seq(S) /\ Len(Dropped(s, i)) = Len(s) - 1
         /\ \A j \in 1 .. Len(s) - 1 :
                Dropped(s, i)[j] = IF j < i THEN s[j] ELSE s[j + 1]
<1>1. /\ SubSeq(s, 1, i - 1) \in Seq(S) /\ Len(SubSeq(s, 1, i - 1)) = i - 1
      /\ \A j \in 1 .. i - 1 : SubSeq(s, 1, i - 1)[j] = s[j]
  BY SubSeqProperties
<1>2. /\ SubSeq(s, i + 1, Len(s)) \in Seq(S) /\ Len(SubSeq(s, i + 1, Len(s))) = Len(s) - i
      /\ \A j \in 1 .. Len(s) - i : SubSeq(s, i + 1, Len(s))[j] = s[i + j]
  BY SubSeqProperties
<1>3. QED
  <2>1. PICK a, b : a = SubSeq(s, 1, i - 1) /\ b = SubSeq(s, i + 1, Len(s))
    OBVIOUS
  <2>2. /\ a \in Seq(S) /\ b \in Seq(S) /\ Len(a) = i - 1 /\ Len(b) = Len(s) - i
        /\ \A j \in 1 .. i - 1 : a[j] = s[j]
        /\ \A j \in 1 .. Len(s) - i : b[j] = s[i + j]
    BY <1>1, <1>2, <2>1
  <2>3. /\ a \o b \in Seq(S) /\ Len(a \o b) = Len(s) - 1
        /\ \A j \in 1 .. Len(s) - 1 :
                (a \o b)[j] = IF j <= i - 1 THEN a[j] ELSE b[j - (i - 1)]
    <3>1. /\ a \o b \in Seq(S) /\ Len(a \o b) = Len(a) + Len(b)
          /\ \A j \in 1 .. Len(a) + Len(b) :
                (a \o b)[j] = IF j <= Len(a) THEN a[j] ELSE b[j - Len(a)]
      BY <2>2, ConcatProperties
    <3>2. Len(a) + Len(b) = Len(s) - 1
      BY <2>2
    <3>3. QED
      BY <2>2, <3>1, <3>2
  <2>4. ASSUME NEW j \in 1 .. Len(s) - 1
        PROVE  (a \o b)[j] = IF j < i THEN s[j] ELSE s[j + 1]
    <3>1. CASE j < i
      BY <2>2, <2>3, <3>1
    <3>2. CASE ~(j < i)
      <4>1. j - (i - 1) \in 1 .. Len(s) - i /\ i + (j - (i - 1)) = j + 1 /\ ~(j <= i - 1)
        BY <3>2
      <4>2. QED
        BY <2>2, <2>3, <3>2, <4>1
    <3>3. QED
      BY <3>1, <3>2
  <2>5. QED
    BY <2>1, <2>3, <2>4 DEF Dropped

\* What is pushed last is last.
LEMMA PushKeepsOrder ==
  ASSUME NEW S, NEW in \in Seq(S), NEW out \in Seq(S), NEW gone, NEW v \in S,
         KeepsOrder(in, gone, out), v \notin gone
  PROVE  KeepsOrder(Append(in, v), gone, Append(out, v))
<1>1. PICK a, b : a = Append(in, v) /\ b = Append(out, v)
  OBVIOUS
<1>2. /\ DOMAIN in = 1 .. Len(in) /\ DOMAIN a = 1 .. Len(in) + 1 /\ a[Len(in) + 1] = v
      /\ \A k \in 1 .. Len(in) : a[k] = in[k]
  BY <1>1
<1>3. /\ DOMAIN out = 1 .. Len(out) /\ DOMAIN b = 1 .. Len(out) + 1 /\ b[Len(out) + 1] = v
      /\ \A k \in 1 .. Len(out) : b[k] = out[k]
  BY <1>1
<1>4. Len(in) \in Nat /\ Len(out) \in Nat
  OBVIOUS
<1>5. Range(a) = Range(in) \cup {v}
  BY <1>2, <1>4 DEF Range
<1>6. Range(b) = Range(out) \cup {v}
  BY <1>3, <1>4 DEF Range
<1>7. Range(b) = Range(a) \ gone
  BY <1>5, <1>6 DEF KeepsOrder, Range
<1>8. ASSUME NEW i \in DOMAIN b, NEW j \in DOMAIN b, i < j
      PROVE  \E k, l \in DOMAIN a : k < l /\ a[k] = b[i] /\ a[l] = b[j]
  <2>1. i \in DOMAIN out
    BY <1>3, <1>4, <1>8
  <2>2. CASE j \in DOMAIN out
    <3>1. PICK k, l \in DOMAIN in : k < l /\ in[k] = out[i] /\ in[l] = out[j]
      BY <1>8, <2>1, <2>2 DEF KeepsOrder
    <3>2. QED
      BY <1>2, <1>3, <1>4, <2>1, <2>2, <3>1
  <2>3. CASE j \notin DOMAIN out
    <3>1. j = Len(out) + 1
      BY <1>3, <1>4, <2>3
    <3>2. out[i] \in Range(in)
      BY <2>1 DEF KeepsOrder, Range
    <3>3. PICK k \in DOMAIN in : in[k] = out[i]
      BY <3>2 DEF Range
    <3>4. QED
      BY <1>2, <1>3, <1>4, <2>1, <3>1, <3>3
  <2>4. QED
    BY <2>2, <2>3
<1>9. KeepsOrder(a, gone, b)
  BY <1>7, <1>8 DEF KeepsOrder, Range
<1>10. QED
  BY <1>1, <1>9

\* What is removed leaves the others in their order.
LEMMA RemoveKeepsOrder ==
  ASSUME NEW S, NEW in \in Seq(S), NEW out \in Seq(S), NEW gone, NEW i \in 1 .. Len(out),
         KeepsOrder(in, gone, out),
         \A k, l \in DOMAIN in : k # l => in[k] # in[l]
  PROVE  KeepsOrder(in, gone \cup {out[i]}, Dropped(out, i))
<1>1. PICK b : b = Dropped(out, i)
  OBVIOUS
<1>2. /\ b \in Seq(S) /\ Len(b) = Len(out) - 1
      /\ \A j \in 1 .. Len(out) - 1 : b[j] = IF j < i THEN out[j] ELSE out[j + 1]
  BY <1>1, DroppedIs
<1>3. DOMAIN b = 1 .. Len(out) - 1 /\ DOMAIN out = 1 .. Len(out) /\ Len(out) \in Nat
  BY <1>2
<1>4. \A k, l \in DOMAIN out : k # l => out[k] # out[l]
  <2>1. SUFFICES ASSUME NEW k \in DOMAIN out, NEW l \in DOMAIN out, k < l
                 PROVE  out[k] # out[l]
    BY <1>3
  <2>2. PICK x, y \in DOMAIN in : x < y /\ in[x] = out[k] /\ in[y] = out[l]
    BY <2>1 DEF KeepsOrder
  <2>3. x \in Int /\ y \in Int
    BY <2>2
  <2>4. QED
    BY <2>2, <2>3
<1>5. Range(b) = Range(out) \ {out[i]}
  <2>1. ASSUME NEW j \in DOMAIN b PROVE b[j] \in Range(out) \ {out[i]}
    <3>1. CASE j < i
      <4>1. j \in DOMAIN out /\ j # i /\ b[j] = out[j]
        BY <1>2, <1>3, <2>1, <3>1
      <4>2. out[j] # out[i]
        BY <1>3, <1>4, <4>1
      <4>3. QED
        BY <4>1, <4>2 DEF Range
    <3>2. CASE ~(j < i)
      <4>1. j + 1 \in DOMAIN out /\ j + 1 # i
        BY <1>3, <2>1, <3>2
      <4>2. b[j] = out[j + 1]
        BY <1>2, <1>3, <2>1, <3>2
      <4>3. out[j + 1] # out[i]
        BY <1>3, <1>4, <4>1
      <4>4. QED
        BY <4>1, <4>2, <4>3 DEF Range
    <3>3. QED
      BY <3>1, <3>2
  <2>2. ASSUME NEW k \in DOMAIN out, k # i PROVE \E j \in DOMAIN b : b[j] = out[k]
    <3>1. CASE k < i
      BY <1>2, <1>3, <2>2, <3>1
    <3>2. CASE k > i
      <4>1. k - 1 \in 1 .. Len(out) - 1 /\ ~(k - 1 < i) /\ (k - 1) + 1 = k
        BY <1>3, <2>2, <3>2
      <4>2. QED
        BY <1>2, <1>3, <4>1
    <3>3. QED
      BY <1>3, <2>2, <3>1, <3>2
  <2>3. QED
    BY <2>1, <2>2 DEF Range
<1>6. Range(b) = Range(in) \ (gone \cup {out[i]})
  BY <1>5 DEF KeepsOrder, Range
<1>7. ASSUME NEW j \in DOMAIN b, NEW k \in DOMAIN b, j < k
      PROVE  \E x, y \in DOMAIN in : x < y /\ in[x] = b[j] /\ in[y] = b[k]
  <2>1. PICK m, n \in DOMAIN out : m < n /\ out[m] = b[j] /\ out[n] = b[k]
    <3>1. PICK m : m = IF j < i THEN j ELSE j + 1
      OBVIOUS
    <3>2. PICK n : n = IF k < i THEN k ELSE k + 1
      OBVIOUS
    <3>3. m \in DOMAIN out /\ n \in DOMAIN out /\ m < n
      BY <1>3, <1>7, <3>1, <3>2
    <3>4. out[m] = b[j] /\ out[n] = b[k]
      BY <1>2, <1>3, <1>7, <3>1, <3>2
    <3>5. QED
      BY <3>3, <3>4
  <2>2. QED
    BY <2>1 DEF KeepsOrder
<1>8. PICK g : g = gone \cup {out[i]}
  OBVIOUS
<1>9. KeepsOrder(in, g, b)
  BY <1>6, <1>7, <1>8 DEF KeepsOrder, Range
<1>10. QED
  BY <1>1, <1>8, <1>9

\* The invariant of the queue: the values that were pushed are distinct, and those that
\* were removed are among them.
QueueInv ==
  /\ queue \in Seq(Value) /\ pushed \in Seq(Value) /\ taken \in Seq(Value)
  /\ pc \in [Thread -> {"idle", "trying", "waiting"}]
  /\ \A k, l \in DOMAIN pushed : k # l => pushed[k] # pushed[l]
  /\ removed \subseteq Range(pushed)
  /\ NoLostWakeup
  /\ Fifo

\* NoLostWakeup with the cardinality of FiniteSets.
LEMMA WakeupIs ==
  /\ NoLostWakeup <=> (Waiting = {} \/ Len(queue) <= Cardinality(Trying))
  /\ NoLostWakeup' <=> (Waiting' = {} \/ Len(queue') <= Cardinality(Trying'))
<1>1. ASSUME NEW S PROVE Cardinality(S) = Cardinality(S)
  BY DEF Cardinality, Cardinality
<1>2. QED
  BY <1>1 DEF NoLostWakeup

\* A thread that starts to wait for the mutex adds one to those that are awake.
LEMMA OneMoreTrying ==
  ASSUME NEW t \in Thread, pc \in [Thread -> {"idle", "trying", "waiting"}],
         pc[t] # "trying", pc' = [pc EXCEPT ![t] = "trying"]
  PROVE  /\ pc' \in [Thread -> {"idle", "trying", "waiting"}]
         /\ Cardinality(Trying) \in Nat
         /\ Cardinality(Trying') = Cardinality(Trying) + 1
         /\ Waiting' \subseteq Waiting
<1>1. IsFiniteSet(Trying) /\ Cardinality(Trying) \in Nat
  BY FiniteAssumption, FS_Subset, FS_CardinalityType DEF Trying
<1>2. Trying' = Trying \cup {t} /\ t \notin Trying
  BY DEF Trying
<1>3. Waiting' \subseteq Waiting
  BY DEF Waiting
<1>4. Cardinality(Trying \cup {t}) = Cardinality(Trying) + 1
  BY <1>1, <1>2, FS_AddElement
<1>5. QED
  BY <1>1, <1>2, <1>3, <1>4

\* Taking an element keeps the order, and the values in all.
LEMMA TakeKeeps ==
  ASSUME QueueInv, TakeFront
  PROVE  /\ queue' \in Seq(Value) /\ Len(queue') = Len(queue) - 1
         /\ taken' \in Seq(Value) /\ UNCHANGED <<pushed, removed>> /\ Fifo'
<1>1. /\ queue \in Seq(Value) /\ queue # << >> /\ taken \in Seq(Value)
      /\ queue' = Tail(queue) /\ taken' = Append(taken, Head(queue))
      /\ UNCHANGED <<pushed, removed>>
  BY DEF QueueInv, TakeFront
<1>2. Head(queue) \in Value /\ Tail(queue) \in Seq(Value) /\ Len(Tail(queue)) = Len(queue) - 1
  BY <1>1, HeadTailProperties
<1>3. Append(taken, Head(queue)) \in Seq(Value)
  BY <1>1, <1>2
<1>4. Append(taken, Head(queue)) \o Tail(queue) = taken \o queue
  BY <1>1, <1>2, <1>3
<1>5. Fifo'
  <2>1. KeepsOrder(pushed, removed, taken \o queue)
    BY DEF QueueInv, Fifo
  <2>2. pushed' = pushed /\ removed' = removed /\ taken' \o queue' = taken \o queue
    BY <1>1, <1>4
  <2>3. KeepsOrder(pushed', removed', taken' \o queue')
    BY <2>1, <2>2
  <2>4. QED
    BY <2>3 DEF Fifo
<1>6. QED
  BY <1>1, <1>2, <1>3, <1>5

\* push() and offer().
LEMMA PushKeeps ==
  ASSUME QueueInv, NEW t \in Thread, NEW v \in Value, Push(t, v)
  PROVE  QueueInv'
<1>1. /\ queue \in Seq(Value) /\ pushed \in Seq(Value) /\ taken \in Seq(Value)
      /\ pc \in [Thread -> {"idle", "trying", "waiting"}]
      /\ removed \subseteq Range(pushed)
  BY DEF QueueInv
<1>2. /\ v \notin Range(pushed) /\ queue' = Append(queue, v) /\ pushed' = Append(pushed, v)
      /\ UNCHANGED <<taken, removed>> /\ Notify
  BY DEF Push, Range
<1>3. /\ queue' \in Seq(Value) /\ Len(queue') = Len(queue) + 1 /\ Len(queue) \in Nat
      /\ pushed' \in Seq(Value) /\ taken' \in Seq(Value)
  BY <1>1, <1>2
<1>4. /\ DOMAIN pushed = 1 .. Len(pushed) /\ DOMAIN pushed' = 1 .. Len(pushed) + 1
      /\ pushed'[Len(pushed) + 1] = v /\ Len(pushed) \in Nat
      /\ \A k \in 1 .. Len(pushed) : pushed'[k] = pushed[k]
  BY <1>1, <1>2
<1>5. \A k, l \in DOMAIN pushed' : k # l => pushed'[k] # pushed'[l]
  BY <1>2, <1>4 DEF QueueInv, Range
<1>6. removed' \subseteq Range(pushed')
  BY <1>1, <1>2, <1>4 DEF Range
<1>7. pc' \in [Thread -> {"idle", "trying", "waiting"}] /\ NoLostWakeup'
  <2>1. CASE Waiting = {}
    <3>1. pc' = pc
      BY <1>2, <2>1 DEF Notify
    <3>2. Waiting' = {}
      BY <2>1, <3>1 DEF Waiting
    <3>3. QED
      BY <1>1, <3>1, <3>2, WakeupIs
  <2>2. CASE Waiting # {}
    <3>1. PICK w \in Waiting : pc' = [pc EXCEPT ![w] = "trying"]
      BY <1>2, <2>2 DEF Notify
    <3>2. w \in Thread /\ pc[w] # "trying"
      BY DEF Waiting
    <3>3. /\ pc' \in [Thread -> {"idle", "trying", "waiting"}]
          /\ Cardinality(Trying) \in Nat
          /\ Cardinality(Trying') = Cardinality(Trying) + 1
      BY <1>1, <3>1, <3>2, OneMoreTrying
    <3>4. Len(queue) <= Cardinality(Trying)
      BY <2>2, WakeupIs DEF QueueInv
    <3>5. QED
      BY <1>3, <3>3, <3>4, WakeupIs
  <2>3. QED
    BY <2>1, <2>2
<1>8. Fifo'
  <2>1. PICK out : out = taken \o queue
    OBVIOUS
  <2>2. out \in Seq(Value) /\ taken \o Append(queue, v) = Append(out, v)
    BY <1>1, <2>1
  <2>3. KeepsOrder(pushed, removed, out) /\ v \notin removed
    BY <1>1, <1>2, <2>1 DEF QueueInv, Fifo
  <2>4. KeepsOrder(Append(pushed, v), removed, Append(out, v))
    BY <1>1, <2>2, <2>3, PushKeepsOrder
  <2>5. KeepsOrder(pushed', removed', taken' \o queue')
    BY <1>2, <2>2, <2>4
  <2>6. QED
    BY <2>5 DEF Fifo
<1>9. QED
  BY <1>3, <1>5, <1>6, <1>7, <1>8 DEF QueueInv

\* remove(value).
LEMMA RemoveKeeps ==
  ASSUME QueueInv, NEW t \in Thread, NEW v \in Value, RemoveValue(t, v)
  PROVE  QueueInv'
<1>1. /\ queue \in Seq(Value) /\ pushed \in Seq(Value) /\ taken \in Seq(Value)
      /\ removed \subseteq Range(pushed)
  BY DEF QueueInv
<1>2. PICK i \in DOMAIN queue : queue[i] = v /\ queue' = Dropped(queue, i)
  BY DEF RemoveValue, Dropped
<1>3. /\ removed' = removed \cup {v} /\ UNCHANGED <<pc, pushed, taken>>
  BY DEF RemoveValue
<1>4. i \in 1 .. Len(queue) /\ Len(queue) \in Nat /\ Len(taken) \in Nat
  BY <1>1, <1>2
<1>5. /\ queue' \in Seq(Value) /\ Len(queue') = Len(queue) - 1
      /\ \A j \in 1 .. Len(queue) - 1 : queue'[j] = IF j < i THEN queue[j] ELSE queue[j + 1]
  BY <1>1, <1>2, <1>4, DroppedIs
<1>6. PICK out, n : out = taken \o queue /\ n = Len(taken) + i
  OBVIOUS
<1>7. /\ out \in Seq(Value) /\ Len(out) = Len(taken) + Len(queue) /\ n \in 1 .. Len(out)
      /\ \A j \in 1 .. Len(out) : out[j] = IF j <= Len(taken) THEN taken[j]
                                          ELSE queue[j - Len(taken)]
  BY <1>1, <1>4, <1>6, ConcatProperties
<1>8. out[n] = v /\ n - Len(taken) = i
  BY <1>2, <1>4, <1>6, <1>7
<1>9. taken \o queue' = Dropped(out, n)
  <2>1. /\ Dropped(out, n) \in Seq(Value) /\ Len(Dropped(out, n)) = Len(out) - 1
        /\ \A j \in 1 .. Len(out) - 1 :
                Dropped(out, n)[j] = IF j < n THEN out[j] ELSE out[j + 1]
    BY <1>7, DroppedIs
  <2>2. PICK q : q = queue'
    OBVIOUS
  <2>3. /\ q \in Seq(Value) /\ Len(q) = Len(queue) - 1
        /\ \A j \in 1 .. Len(queue) - 1 : q[j] = IF j < i THEN queue[j] ELSE queue[j + 1]
    BY <1>5, <2>2
  <2>4. /\ taken \o q \in Seq(Value) /\ Len(taken \o q) = Len(taken) + Len(q)
        /\ \A j \in 1 .. Len(taken) + Len(q) :
                (taken \o q)[j] = IF j <= Len(taken) THEN taken[j] ELSE q[j - Len(taken)]
    BY <1>1, <2>3, ConcatProperties
  <2>5. Len(taken \o q) = Len(out) - 1
    BY <1>4, <1>7, <2>3, <2>4
  <2>6. ASSUME NEW j \in 1 .. Len(out) - 1 PROVE (taken \o q)[j] = Dropped(out, n)[j]
    <3>1. CASE j <= Len(taken)
      BY <1>4, <1>6, <1>7, <2>1, <2>3, <2>4, <3>1
    <3>2. CASE ~(j <= Len(taken))
      <4>1. PICK k : k = j - Len(taken)
        OBVIOUS
      <4>2. k \in 1 .. Len(queue) - 1 /\ (j < n <=> k < i) /\ (j + 1) - Len(taken) = k + 1
        BY <1>4, <1>6, <1>7, <3>2, <4>1
      <4>3. (taken \o q)[j] = IF k < i THEN queue[k] ELSE queue[k + 1]
        <5>1. j \in 1 .. Len(taken) + Len(q)
          BY <1>4, <1>7, <2>3
        <5>2. (taken \o q)[j] = q[k]
          BY <2>4, <3>2, <4>1, <5>1
        <5>3. QED
          BY <2>3, <4>2, <5>2
      <4>4. Dropped(out, n)[j] = IF k < i THEN queue[k] ELSE queue[k + 1]
        <5>1. j \in 1 .. Len(out) /\ j + 1 \in 1 .. Len(out) /\ ~(j + 1 <= Len(taken))
          BY <1>4, <1>7, <3>2
        <5>2. out[j] = queue[k] /\ out[j + 1] = queue[k + 1]
          BY <1>7, <3>2, <4>1, <4>2, <5>1
        <5>3. QED
          BY <2>1, <4>2, <5>2
      <4>5. QED
        BY <4>3, <4>4
    <3>3. QED
      BY <3>1, <3>2
  <2>7. taken \o q = Dropped(out, n)
    BY <2>1, <2>4, <2>5, <2>6, SeqEqual
  <2>8. QED
    BY <2>2, <2>7
<1>10. /\ KeepsOrder(pushed, removed, out)
       /\ \A k, l \in DOMAIN pushed : k # l => pushed[k] # pushed[l]
  BY <1>6 DEF QueueInv, Fifo
<1>11. KeepsOrder(pushed, removed \cup {out[n]}, Dropped(out, n))
  BY <1>1, <1>7, <1>10, RemoveKeepsOrder
<1>12. Fifo'
  <2>1. KeepsOrder(pushed', removed', taken' \o queue')
    BY <1>3, <1>8, <1>9, <1>11
  <2>2. QED
    BY <2>1 DEF Fifo
<1>13. v \in Range(pushed)
  <2>1. v \in Range(out)
    BY <1>7, <1>8 DEF Range
  <2>2. QED
    BY <1>10, <2>1 DEF KeepsOrder, Range
<1>14. NoLostWakeup'
  <2>1. Waiting' = Waiting /\ Trying' = Trying
    BY <1>3 DEF Waiting, Trying
  <2>2. IsFiniteSet(Trying) /\ Cardinality(Trying) \in Nat
    BY FiniteAssumption, FS_Subset, FS_CardinalityType DEF Trying
  <2>3. QED
    BY <1>4, <1>5, <2>1, <2>2, WakeupIs DEF QueueInv
<1>15. /\ pc' \in [Thread -> {"idle", "trying", "waiting"}]
       /\ pushed' \in Seq(Value) /\ taken' \in Seq(Value)
       /\ \A k, l \in DOMAIN pushed' : k # l => pushed'[k] # pushed'[l]
       /\ removed' \subseteq Range(pushed')
  BY <1>3, <1>13 DEF QueueInv, Range
<1>16. QED
  BY <1>5, <1>12, <1>14, <1>15 DEF QueueInv

\* pop(), poll() and popOrThrow() of an element.
LEMMA TakersKeep ==
  ASSUME QueueInv, NEW t \in Thread, Poll(t) \/ PopTake(t)
  PROVE  QueueInv'
<1>1. TakeFront
  BY DEF Poll, PopTake
<1>2. /\ queue' \in Seq(Value) /\ Len(queue') = Len(queue) - 1
      /\ taken' \in Seq(Value) /\ UNCHANGED <<pushed, removed>> /\ Fifo'
  BY <1>1, TakeKeeps
<1>3. IsFiniteSet(Trying) /\ Cardinality(Trying) \in Nat /\ Len(queue) \in Nat
  BY FiniteAssumption, FS_Subset, FS_CardinalityType DEF Trying, QueueInv
<1>4. pc' \in [Thread -> {"idle", "trying", "waiting"}] /\ NoLostWakeup'
  <2>1. CASE Poll(t)
    <3>1. pc' = pc
      BY <2>1 DEF Poll
    <3>2. Waiting' = Waiting /\ Trying' = Trying
      BY <3>1 DEF Waiting, Trying
    <3>3. QED
      BY <1>2, <1>3, <3>1, <3>2, WakeupIs DEF QueueInv
  <2>2. CASE PopTake(t)
    <3>1. pc[t] = "trying" /\ pc' = [pc EXCEPT ![t] = "idle"]
      BY <2>2 DEF PopTake
    <3>2. /\ pc' \in [Thread -> {"idle", "trying", "waiting"}]
          /\ Waiting' = Waiting /\ Trying' = Trying \ {t} /\ t \in Trying
      BY <3>1 DEF QueueInv, Waiting, Trying
    <3>3. Cardinality(Trying \ {t}) = Cardinality(Trying) - 1
      BY <1>3, <3>2, FS_RemoveElement
    <3>4. QED
      BY <1>2, <1>3, <3>2, <3>3, WakeupIs DEF QueueInv
  <2>3. QED
    BY <2>1, <2>2
<1>5. QED
  BY <1>2, <1>4 DEF QueueInv, Range

\* The steps that change only where the threads are.
LEMMA WaitersKeep ==
  ASSUME QueueInv, NEW t \in Thread,
         PopCall(t) \/ PopWait(t) \/ NotifyAll(t) \/ SpuriousWakeup(t)
  PROVE  QueueInv'
<1>1. UNCHANGED <<queue, pushed, taken, removed>>
  BY DEF PopCall, PopWait, NotifyAll, SpuriousWakeup
<1>2. Fifo'
  <2>1. KeepsOrder(pushed, removed, taken \o queue)
    BY DEF QueueInv, Fifo
  <2>2. KeepsOrder(pushed', removed', taken' \o queue')
    BY <1>1, <2>1
  <2>3. QED
    BY <2>2 DEF Fifo
<1>3. pc \in [Thread -> {"idle", "trying", "waiting"}] /\ Len(queue) \in Nat
  BY DEF QueueInv
<1>4. pc' \in [Thread -> {"idle", "trying", "waiting"}] /\ NoLostWakeup'
  <2>1. CASE PopCall(t) \/ SpuriousWakeup(t)
    <3>1. pc[t] # "trying" /\ pc' = [pc EXCEPT ![t] = "trying"]
      BY <2>1 DEF PopCall, SpuriousWakeup
    <3>2. /\ pc' \in [Thread -> {"idle", "trying", "waiting"}]
          /\ Cardinality(Trying) \in Nat
          /\ Cardinality(Trying') = Cardinality(Trying) + 1
          /\ Waiting' \subseteq Waiting
      BY <1>3, <3>1, OneMoreTrying
    <3>3. QED
      BY <1>1, <1>3, <3>2, WakeupIs DEF QueueInv
  <2>2. CASE PopWait(t)
    <3>1. queue = << >> /\ pc' = [pc EXCEPT ![t] = "waiting"]
      BY <2>2 DEF PopWait
    <3>2. pc' \in [Thread -> {"idle", "trying", "waiting"}] /\ Len(queue') = 0
      BY <1>1, <1>3, <3>1
    <3>3. Cardinality(Trying') \in Nat
      BY FiniteAssumption, FS_Subset, FS_CardinalityType DEF Trying
    <3>4. QED
      BY <3>2, <3>3, WakeupIs
  <2>3. CASE NotifyAll(t)
    <3>1. pc' = [u \in Thread |-> IF pc[u] = "waiting" THEN "trying" ELSE pc[u]]
      BY <2>3 DEF NotifyAll
    <3>2. pc' \in [Thread -> {"idle", "trying", "waiting"}] /\ Waiting' = {}
      BY <1>3, <3>1 DEF Waiting
    <3>3. QED
      BY <3>2, WakeupIs
  <2>4. QED
    BY <2>1, <2>2, <2>3
<1>5. QED
  BY <1>1, <1>2, <1>4 DEF QueueInv, Range

\* The invariant of the queue holds.
THEOREM QueueInvariant == QueueSpec => []QueueInv
<1>1. QueueInit => QueueInv
  <2>1. SUFFICES ASSUME QueueInit PROVE QueueInv
    OBVIOUS
  <2>2. /\ queue = << >> /\ pc = [t \in Thread |-> "idle"]
        /\ pushed = << >> /\ taken = << >> /\ removed = {}
    BY <2>1 DEF QueueInit
  <2>3. NoLostWakeup
    BY <2>2, WakeupIs DEF Waiting
  <2>4. taken \o queue = << >>
    BY <2>2
  <2>5. KeepsOrder(pushed, removed, taken \o queue)
    BY <2>2, <2>4 DEF KeepsOrder
  <2>6. QED
    BY <2>2, <2>3, <2>5 DEF QueueInv, Fifo
<1>2. QueueInv /\ [QueueNext]_(queueVars) => QueueInv'
  <2>1. SUFFICES ASSUME QueueInv, [QueueNext]_(queueVars) PROVE QueueInv'
    OBVIOUS
  <2>2. CASE QueueNext
    BY <2>1, <2>2, PushKeeps, RemoveKeeps, TakersKeep, WaitersKeep DEF QueueNext
  <2>3. CASE UNCHANGED queueVars
    <3>1. UNCHANGED <<queue, pc, pushed, taken, removed>>
      BY <2>3 DEF queueVars
    <3>2. NoLostWakeup'
      BY <2>1, <3>1 DEF QueueInv, NoLostWakeup, Waiting, Trying
    <3>3. KeepsOrder(pushed', removed', taken' \o queue')
      BY <2>1, <3>1 DEF QueueInv, Fifo
    <3>4. QED
      BY <2>1, <3>1, <3>2, <3>3 DEF QueueInv, Fifo, Range
  <2>4. QED
    BY <2>1, <2>2, <2>3
<1>3. QED
  BY <1>1, <1>2, PTL DEF QueueSpec

\* pop() misses no wakeup: while a thread sleeps, every element of the queue has a thread
\* that is awake to take it, for any threads, values and capacity.
THEOREM NoWakeupIsLost == QueueSpec => []NoLostWakeup
<1>1. QueueInv => NoLostWakeup
  BY DEF QueueInv
<1>2. QED
  BY <1>1, QueueInvariant, PTL

\* The queue delivers in the order of the pushes, whatever remove() takes out.
THEOREM QueueIsFifo == QueueSpec => []Fifo
<1>1. QueueInv => Fifo
  BY DEF QueueInv
<1>2. QED
  BY <1>1, QueueInvariant, PTL

-----------------------------------------------------------------------------
(* Connection                                                              *)

\* e has the fields of a connection, p those of a server's end.
Shaped(e) == DOMAIN e = DOMAIN Fresh /\ e = [f \in DOMAIN e |-> e[f]]
PeerShaped(p) == DOMAIN p = DOMAIN NoPeer /\ p = [f \in DOMAIN p |-> p[f]]

ShapeOK ==
  /\ DOMAIN conn = Conn /\ DOMAIN peer = Conn /\ DOMAIN net = Conn
  /\ \A c \in Conn : Shaped(conn[c]) /\ PeerShaped(peer[c])

\* A step of c leaves the other connections alone.
OnlyMoves(c) ==
  \A d \in Conn \ {c} : conn'[d] = conn[d] /\ peer'[d] = peer[d] /\ net'[d] = net[d]

\* An assignment to a field keeps the fields.
LEMMA ShapedExcept ==
  ASSUME NEW e, Shaped(e), NEW f, NEW x
  PROVE  Shaped([e EXCEPT ![f] = x])
BY DEF Shaped

\* The same for the server's end.
LEMMA PeerShapedExcept ==
  ASSUME NEW p, PeerShaped(p), NEW f, NEW x
  PROVE  PeerShaped([p EXCEPT ![f] = x])
BY DEF PeerShaped

\* A step that replaces the ends of one connection keeps the shapes and touches no other.
LEMMA Moved ==
  ASSUME ShapeOK, NEW c \in Conn, NEW e, Shaped(e), Becomes(c, e), NEW p, PeerShaped(p),
         UNCHANGED peer \/ peer' = [peer EXCEPT ![c] = p],
         NEW x, UNCHANGED net \/ net' = [net EXCEPT ![c] = x]
  PROVE  ShapeOK' /\ OnlyMoves(c) /\ conn'[c] = e
BY DEF ShapeOK, Becomes, OnlyMoves

\* Every operation is one of these.
LEMMA StepShape ==
  ASSUME NEW c \in Conn, ShapeOK, Step(c)
  PROVE  ShapeOK' /\ OnlyMoves(c)
<1>0. Shaped(conn[c]) /\ PeerShaped(peer[c]) /\ Shaped(Fresh) /\ PeerShaped(NoPeer)
  BY DEF ShapeOK, Shaped, PeerShaped, Fresh, NoPeer
<1>1. CASE makeObject(c)
  <2>1. PICK e : Shaped(e) /\ Becomes(c, e)
    BY <1>0, <1>1, ShapedExcept DEF makeObject, Goto
  <2>2. UNCHANGED net \/ \E x : net' = [net EXCEPT ![c] = x]
    BY <1>1 DEF makeObject
  <2>3. UNCHANGED peer \/ \E p : PeerShaped(p) /\ peer' = [peer EXCEPT ![c] = p]
    BY <1>0, <1>1 DEF makeObject
  <2>4. QED
    BY <1>0, <2>1, <2>2, <2>3, Moved
<1>2. CASE attemptConnect(c)
  <2>1. PICK e : Shaped(e) /\ Becomes(c, e)
    BY <1>0, <1>2, ShapedExcept DEF attemptConnect, Connected
  <2>2. UNCHANGED net \/ \E x : net' = [net EXCEPT ![c] = x]
    BY <1>2 DEF attemptConnect
  <2>3. UNCHANGED peer \/ \E p : PeerShaped(p) /\ peer' = [peer EXCEPT ![c] = p]
    BY <1>0, <1>2 DEF attemptConnect
  <2>4. QED
    BY <1>0, <2>1, <2>2, <2>3, Moved
<1>3. CASE connectToHost(c)
  <2>1. PICK e : Shaped(e) /\ Becomes(c, e)
    BY <1>0, <1>3, ShapedExcept DEF connectToHost, Throw
  <2>2. UNCHANGED net \/ \E x : net' = [net EXCEPT ![c] = x]
    BY <1>3 DEF connectToHost, Throw
  <2>3. UNCHANGED peer \/ \E p : PeerShaped(p) /\ peer' = [peer EXCEPT ![c] = p]
    BY <1>0, <1>3 DEF connectToHost
  <2>4. QED
    BY <1>0, <2>1, <2>2, <2>3, Moved
<1>4. CASE SSL_connect(c)
  <2>1. PICK e : Shaped(e) /\ Becomes(c, e)
    BY <1>0, <1>4, ShapedExcept DEF SSL_connect, Throw
  <2>2. UNCHANGED net \/ \E x : net' = [net EXCEPT ![c] = x]
    BY <1>4 DEF SSL_connect, Throw
  <2>3. UNCHANGED peer \/ \E p : PeerShaped(p) /\ peer' = [peer EXCEPT ![c] = p]
    BY <1>0, <1>4 DEF SSL_connect
  <2>4. QED
    BY <1>0, <2>1, <2>2, <2>3, Moved
<1>5. CASE setTimeout(c)
  <2>1. PICK e : Shaped(e) /\ Becomes(c, e)
    BY <1>0, <1>5, ShapedExcept DEF setTimeout, Throw
  <2>2. UNCHANGED net \/ \E x : net' = [net EXCEPT ![c] = x]
    BY <1>5 DEF setTimeout, Throw
  <2>3. UNCHANGED peer \/ \E p : PeerShaped(p) /\ peer' = [peer EXCEPT ![c] = p]
    BY <1>0, <1>5 DEF setTimeout
  <2>4. QED
    BY <1>0, <2>1, <2>2, <2>3, Moved
<1>6. CASE setupCertStoreServer(c)
  <2>1. PICK e : Shaped(e) /\ Becomes(c, e)
    BY <1>0, <1>6, ShapedExcept DEF setupCertStoreServer, Goto, Throw
  <2>2. UNCHANGED net \/ \E x : net' = [net EXCEPT ![c] = x]
    BY <1>6 DEF setupCertStoreServer, Throw
  <2>3. UNCHANGED peer \/ \E p : PeerShaped(p) /\ peer' = [peer EXCEPT ![c] = p]
    BY <1>0, <1>6 DEF setupCertStoreServer
  <2>4. QED
    BY <1>0, <2>1, <2>2, <2>3, Moved
<1>7. CASE setupCertClient(c)
  <2>1. PICK e : Shaped(e) /\ Becomes(c, e)
    BY <1>0, <1>7, ShapedExcept DEF setupCertClient, Goto, Throw
  <2>2. UNCHANGED net \/ \E x : net' = [net EXCEPT ![c] = x]
    BY <1>7 DEF setupCertClient, Throw
  <2>3. UNCHANGED peer \/ \E p : PeerShaped(p) /\ peer' = [peer EXCEPT ![c] = p]
    BY <1>0, <1>7 DEF setupCertClient
  <2>4. QED
    BY <1>0, <2>1, <2>2, <2>3, Moved
<1>8. CASE connectToServer(c)
  <2>1. PICK e : Shaped(e) /\ Becomes(c, e)
    BY <1>0, <1>8, ShapedExcept DEF connectToServer
  <2>2. UNCHANGED net \/ \E x : net' = [net EXCEPT ![c] = x]
    BY <1>8 DEF connectToServer
  <2>3. UNCHANGED peer \/ \E p : PeerShaped(p) /\ peer' = [peer EXCEPT ![c] = p]
    BY <1>0, <1>8 DEF connectToServer
  <2>4. QED
    BY <1>0, <2>1, <2>2, <2>3, Moved
<1>9. CASE performClientHandshake(c)
  <2>1. PICK e : Shaped(e) /\ Becomes(c, e)
    BY <1>0, <1>9, ShapedExcept DEF performClientHandshake, Goto
  <2>2. UNCHANGED net \/ \E x : net' = [net EXCEPT ![c] = x]
    BY <1>9 DEF performClientHandshake
  <2>3. UNCHANGED peer \/ \E p : PeerShaped(p) /\ peer' = [peer EXCEPT ![c] = p]
    BY <1>0, <1>9 DEF performClientHandshake
  <2>4. QED
    BY <1>0, <2>1, <2>2, <2>3, Moved
<1>10. CASE handshakeRecv(c)
  <2>1. PICK e : Shaped(e) /\ Becomes(c, e)
    BY <1>0, <1>10, ShapedExcept DEF handshakeRecv
  <2>2. UNCHANGED net \/ \E x : net' = [net EXCEPT ![c] = x]
    BY <1>10 DEF handshakeRecv
  <2>3. UNCHANGED peer \/ \E p : PeerShaped(p) /\ peer' = [peer EXCEPT ![c] = p]
    BY <1>0, <1>10 DEF handshakeRecv
  <2>4. QED
    BY <1>0, <2>1, <2>2, <2>3, Moved
<1>11. CASE clientHandshakeLoop(c)
  <2>1. PICK e : Shaped(e) /\ Becomes(c, e)
    BY <1>0, <1>11, ShapedExcept DEF clientHandshakeLoop, Goto
  <2>2. UNCHANGED net \/ \E x : net' = [net EXCEPT ![c] = x]
    BY <1>11 DEF clientHandshakeLoop
  <2>3. UNCHANGED peer \/ \E p : PeerShaped(p) /\ peer' = [peer EXCEPT ![c] = p]
    BY <1>0, <1>11 DEF clientHandshakeLoop
  <2>4. QED
    BY <1>0, <2>1, <2>2, <2>3, Moved
<1>12. CASE connectEnds(c)
  <2>1. PICK e : Shaped(e) /\ Becomes(c, e)
    BY <1>0, <1>12, ShapedExcept DEF connectEnds, Throw
  <2>2. UNCHANGED net \/ \E x : net' = [net EXCEPT ![c] = x]
    BY <1>12 DEF connectEnds, Throw
  <2>3. UNCHANGED peer \/ \E p : PeerShaped(p) /\ peer' = [peer EXCEPT ![c] = p]
    BY <1>0, <1>12 DEF connectEnds
  <2>4. QED
    BY <1>0, <2>1, <2>2, <2>3, Moved
<1>13. CASE AuthMechListOperation(c)
  <2>1. PICK e : Shaped(e) /\ Becomes(c, e)
    BY <1>0, <1>13, ShapedExcept DEF AuthMechListOperation, Goto, Leak
  <2>2. UNCHANGED net \/ \E x : net' = [net EXCEPT ![c] = x]
    BY <1>13 DEF AuthMechListOperation
  <2>3. UNCHANGED peer \/ \E p : PeerShaped(p) /\ peer' = [peer EXCEPT ![c] = p]
    BY <1>0, <1>13 DEF AuthMechListOperation
  <2>4. QED
    BY <1>0, <2>1, <2>2, <2>3, Moved
<1>14. CASE saslStart(c)
  <2>1. PICK e : Shaped(e) /\ Becomes(c, e)
    BY <1>0, <1>14, ShapedExcept DEF saslStart, Goto, Leak
  <2>2. UNCHANGED net \/ \E x : net' = [net EXCEPT ![c] = x]
    BY <1>14 DEF saslStart
  <2>3. UNCHANGED peer \/ \E p : PeerShaped(p) /\ peer' = [peer EXCEPT ![c] = p]
    BY <1>0, <1>14 DEF saslStart
  <2>4. QED
    BY <1>0, <2>1, <2>2, <2>3, Moved
<1>15. CASE saslStartWindows(c)
  <2>1. PICK e : Shaped(e) /\ Becomes(c, e)
    BY <1>0, <1>15, ShapedExcept DEF saslStartWindows, Goto, Leak
  <2>2. UNCHANGED net \/ \E x : net' = [net EXCEPT ![c] = x]
    BY <1>15 DEF saslStartWindows
  <2>3. UNCHANGED peer \/ \E p : PeerShaped(p) /\ peer' = [peer EXCEPT ![c] = p]
    BY <1>0, <1>15 DEF saslStartWindows
  <2>4. QED
    BY <1>0, <2>1, <2>2, <2>3, Moved
<1>16. CASE saslStep(c)
  <2>1. PICK e : Shaped(e) /\ Becomes(c, e)
    BY <1>0, <1>16, ShapedExcept DEF saslStep
  <2>2. UNCHANGED net \/ \E x : net' = [net EXCEPT ![c] = x]
    BY <1>16 DEF saslStep
  <2>3. UNCHANGED peer \/ \E p : PeerShaped(p) /\ peer' = [peer EXCEPT ![c] = p]
    BY <1>0, <1>16 DEF saslStep
  <2>4. QED
    BY <1>0, <2>1, <2>2, <2>3, Moved
<1>17. CASE AuthOperation(c)
  <2>1. PICK e : Shaped(e) /\ Becomes(c, e)
    BY <1>0, <1>17, ShapedExcept DEF AuthOperation, Goto, Leak
  <2>2. UNCHANGED net \/ \E x : net' = [net EXCEPT ![c] = x]
    BY <1>17 DEF AuthOperation
  <2>3. UNCHANGED peer \/ \E p : PeerShaped(p) /\ peer' = [peer EXCEPT ![c] = p]
    BY <1>0, <1>17 DEF AuthOperation
  <2>4. QED
    BY <1>0, <2>1, <2>2, <2>3, Moved
<1>18. ASSUME NEW v \in Values, flush(c, v) PROVE ShapeOK' /\ OnlyMoves(c)
  <2>1. PICK e : Shaped(e) /\ Becomes(c, e)
    BY <1>0, <1>18, ShapedExcept DEF flush, Goto
  <2>2. UNCHANGED net \/ \E x : net' = [net EXCEPT ![c] = x]
    BY <1>18 DEF flush, ServerAnswers
  <2>3. UNCHANGED peer \/ \E p : PeerShaped(p) /\ peer' = [peer EXCEPT ![c] = p]
    BY <1>0, <1>18, PeerShapedExcept DEF flush, ServerAnswers
  <2>4. QED
    BY <1>0, <2>1, <2>2, <2>3, Moved
<1>19. CASE read(c)
  <2>1. PICK e : Shaped(e) /\ Becomes(c, e)
    BY <1>0, <1>19, ShapedExcept DEF read, Goto, Refill
  <2>2. UNCHANGED net \/ \E x : net' = [net EXCEPT ![c] = x]
    BY <1>19 DEF read
  <2>3. UNCHANGED peer \/ \E p : PeerShaped(p) /\ peer' = [peer EXCEPT ![c] = p]
    BY <1>0, <1>19 DEF read
  <2>4. QED
    BY <1>0, <2>1, <2>2, <2>3, Moved
<1>20. CASE SChannelRead(c)
  <2>1. PICK e : Shaped(e) /\ Becomes(c, e)
    BY <1>0, <1>20, ShapedExcept DEF SChannelRead, Refill, Deliver, readDecrypt
  <2>2. UNCHANGED net \/ \E x : net' = [net EXCEPT ![c] = x]
    BY <1>20 DEF SChannelRead
  <2>3. UNCHANGED peer \/ \E p : PeerShaped(p) /\ peer' = [peer EXCEPT ![c] = p]
    BY <1>0, <1>20 DEF SChannelRead
  <2>4. QED
    BY <1>0, <2>1, <2>2, <2>3, Moved
<1>21. CASE take(c)
  <2>1. PICK e : Shaped(e) /\ Becomes(c, e)
    BY <1>0, <1>21, ShapedExcept DEF take
  <2>2. UNCHANGED net \/ \E x : net' = [net EXCEPT ![c] = x]
    BY <1>21 DEF take
  <2>3. UNCHANGED peer \/ \E p : PeerShaped(p) /\ peer' = [peer EXCEPT ![c] = p]
    BY <1>0, <1>21 DEF take
  <2>4. QED
    BY <1>0, <2>1, <2>2, <2>3, Moved
<1>22. CASE destroyObject(c)
  <2>1. PICK e : Shaped(e) /\ Becomes(c, e)
    BY <1>0, <1>22, ShapedExcept DEF destroyObject
  <2>2. UNCHANGED net \/ \E x : net' = [net EXCEPT ![c] = x]
    BY <1>22 DEF destroyObject
  <2>3. UNCHANGED peer \/ \E p : PeerShaped(p) /\ peer' = [peer EXCEPT ![c] = p]
    BY <1>0, <1>22 DEF destroyObject
  <2>4. QED
    BY <1>0, <2>1, <2>2, <2>3, Moved
<1>23. CASE forget(c)
  <2>1. PICK e : Shaped(e) /\ Becomes(c, e)
    BY <1>0, <1>23, ShapedExcept DEF forget
  <2>2. UNCHANGED net \/ \E x : net' = [net EXCEPT ![c] = x]
    BY <1>23 DEF forget
  <2>3. UNCHANGED peer \/ \E p : PeerShaped(p) /\ peer' = [peer EXCEPT ![c] = p]
    BY <1>0, <1>23 DEF forget
  <2>4. QED
    BY <1>0, <2>1, <2>2, <2>3, Moved
<1>24. CASE ServerCloses(c)
  <2>1. PICK p : PeerShaped(p) /\ peer' = [peer EXCEPT ![c] = p]
    BY <1>0, <1>24 DEF ServerCloses, PeerShaped, NoPeer
  <2>2. UNCHANGED <<conn, net>>
    BY <1>24 DEF ServerCloses
  <2>3. QED
    BY <1>0, <2>1, <2>2 DEF ShapeOK, OnlyMoves
<1>25. QED
  BY <1>1, <1>2, <1>3, <1>4, <1>5, <1>6, <1>7, <1>8, <1>9, <1>10, <1>11, <1>12, <1>13, <1>14, <1>15, <1>16, <1>17, <1>18, <1>19, <1>20, <1>21, <1>22, <1>23, <1>24 DEF Step

\* What is in place when a request can be sent, and before.
SecuredOf(c) ==
  LET e == conn[c]
  IN  /\ e.pc = "connect" => Kind # "schannel"
      /\ e.pc = "tls" => Kind = "ssl"
      /\ e.pc \in {"options", "mechs", "start", "auth", "step", "open", "reading", "broken"} =>
           (Kind = "schannel" => e.verified)
      /\ e.pc \in {"open", "reading", "broken"} =>
           (security.auth # "none" /\ platform = "posix" => e.r = "OK")
      /\ peer[c].asked # <<>> => e.pc \in {"open", "reading", "broken"} /\ Writable(c)

SecuredInv == ShapeOK /\ \A c \in Conn : SecuredOf(c)

\* Every operation on c keeps what is said of c: whatever return code it ignores, the next
\* step that needs the handshake or the exchange looks at what has become of it.
LEMMA StepSecures ==
  ASSUME NEW c \in Conn, SecuredInv, Step(c), UNCHANGED <<platform, security>>
  PROVE  SecuredOf(c)'
<1>0. /\ {"pc", "tls", "verified", "r"} \subseteq DOMAIN conn[c]
      /\ {"asked", "records", "eof"} \subseteq DOMAIN peer[c]
      /\ "pc" \in DOMAIN Fresh /\ Fresh.pc = "none" /\ NoPeer.asked = << >>
  BY DEF SecuredInv, ShapeOK, Shaped, PeerShaped, Fresh, NoPeer
<1>a. SecuredOf(c) /\ c \in DOMAIN conn /\ c \in DOMAIN peer
  BY DEF SecuredInv, ShapeOK
<1>b. Kind' = Kind
  BY DEF Kind
<1> USE DEF SecuredOf, Writable, At, Becomes
<1>1. CASE makeObject(c)
  BY <1>0, <1>a, <1>b, <1>1 DEF makeObject, Goto
<1>2. CASE attemptConnect(c)
  BY <1>0, <1>a, <1>b, <1>2 DEF attemptConnect, Connected
<1>3. CASE connectToHost(c)
  <2>1. CASE conn[c].preferred
    BY <1>0, <1>a, <1>b, <1>3, <2>1 DEF connectToHost
  <2>2. CASE ~conn[c].preferred
    BY <1>0, <1>a, <1>b, <1>3, <2>2 DEF connectToHost, Throw
  <2>3. QED
    BY <2>1, <2>2
<1>4. CASE SSL_connect(c)
  BY <1>0, <1>a, <1>b, <1>4 DEF SSL_connect, Throw
<1>5. CASE setTimeout(c)
  <2>1. PICK b \in BOOLEAN : b = (Kind # "schannel")
    OBVIOUS
  <2>2. CASE Throw(c)
    BY <1>0, <1>a, <1>b, <1>5, <2>2 DEF setTimeout, Throw
  <2>3. CASE ~Throw(c)
    <3>1. PICK l : /\ l = IF security.auth = "none" THEN "open"
                         ELSE IF platform = "posix" THEN "mechs" ELSE "start"
                   /\ Becomes(c, [conn[c] EXCEPT !.timeout = b, !.pc = l])
      BY <1>5, <2>1, <2>3 DEF setTimeout
    <3>2. QED
      BY <1>0, <1>a, <1>b, <1>5, <3>1 DEF setTimeout
  <2>4. QED
    BY <2>2, <2>3
<1>6. CASE setupCertStoreServer(c)
  BY <1>0, <1>a, <1>b, <1>6 DEF setupCertStoreServer, Goto, Throw
<1>7. CASE setupCertClient(c)
  BY <1>0, <1>a, <1>b, <1>7 DEF setupCertClient, Goto, Throw
<1>8. CASE connectToServer(c)
  BY <1>0, <1>a, <1>b, <1>8 DEF connectToServer
<1>9. CASE performClientHandshake(c)
  <2>1. conn'[c].pc \in {"recv", "verify"}
    <3> HIDE DEF SecuredOf, Writable, Becomes
    <3>1. \/ Becomes(c, [conn[c] EXCEPT !.pc = "recv"])
          \/ Becomes(c, [conn[c] EXCEPT !.tls = "failed", !.pc = "verify"])
      BY <1>9 DEF performClientHandshake, Goto
    <3>2. QED
      BY <1>0, <1>a, <3>1 DEF Becomes
  <2>2. peer[c].asked = << >> /\ UNCHANGED peer
    BY <1>a, <1>9 DEF performClientHandshake
  <2>3. QED
    BY <2>1, <2>2
<1>10. CASE handshakeRecv(c)
  <2> HIDE DEF Becomes
  <2>1. \/ \E n : Becomes(c, [conn[c] EXCEPT !.cb = n, !.pc = "handshake"])
        \/ Becomes(c, [conn[c] EXCEPT !.tls = "failed", !.cb = 0, !.pc = "verify"])
    BY <1>10 DEF handshakeRecv
  <2>2. conn'[c].pc \in {"handshake", "verify"}
    BY <1>0, <1>a, <2>1 DEF Becomes
  <2>3. peer[c].asked = << >> /\ UNCHANGED peer
    BY <1>a, <1>10 DEF handshakeRecv
  <2>4. QED
    BY <2>2, <2>3
<1>11. CASE clientHandshakeLoop(c)
  <2> HIDE DEF Becomes
  <2>1. \/ Becomes(c, [conn[c] EXCEPT !.pc = "recv"])
        \/ \E t, n, l : /\ l \in {"recv", "handshake"}
                        /\ Becomes(c, [conn[c] EXCEPT !.token = t, !.cb = n, !.pc = l])
        \/ \E t, x : Becomes(c, [conn[c] EXCEPT !.token = t, !.cb = 0, !.tls = "done",
                                                !.recvBuff = x, !.pc = "verify"])
        \/ Becomes(c, [conn[c] EXCEPT !.tls = "failed", !.cb = 0, !.pc = "verify"])
    BY <1>11 DEF clientHandshakeLoop, Goto
  <2>2. conn'[c].pc \in {"recv", "handshake", "verify"}
    BY <1>0, <1>a, <2>1 DEF Becomes
  <2>3. peer[c].asked = << >> /\ UNCHANGED peer
    BY <1>a, <1>11 DEF clientHandshakeLoop
  <2>4. QED
    BY <2>2, <2>3
<1>12. CASE connectEnds(c)
  BY <1>0, <1>a, <1>b, <1>12 DEF connectEnds, Throw
<1>13. CASE AuthMechListOperation(c)
  BY <1>0, <1>a, <1>b, <1>13 DEF AuthMechListOperation, Goto, Leak
<1>14. CASE saslStart(c)
  BY <1>0, <1>a, <1>b, <1>14 DEF saslStart, Goto, Leak
<1>15. CASE saslStartWindows(c)
  BY <1>0, <1>a, <1>b, <1>15 DEF saslStartWindows, Goto, Leak
<1>16. CASE saslStep(c)
  BY <1>0, <1>a, <1>b, <1>16 DEF saslStep
<1>17. CASE AuthOperation(c)
  BY <1>0, <1>a, <1>b, <1>17 DEF AuthOperation, Goto, Leak
<1>18. ASSUME NEW v \in Values, flush(c, v) PROVE SecuredOf(c)'
  BY <1>0, <1>a, <1>b, <1>18 DEF flush, Goto, ServerAnswers
<1>19. CASE read(c)
  BY <1>0, <1>a, <1>b, <1>19 DEF read, Goto, Refill
<1>20. CASE SChannelRead(c)
  <2>1. ASSUME NEW data
        PROVE  LET e == Deliver(c, data)
               IN  /\ e.pc = conn[c].pc /\ e.tls = conn[c].tls
                   /\ e.verified = conn[c].verified /\ e.r = conn[c].r
                   /\ DOMAIN e = DOMAIN conn[c]
    BY <1>0 DEF Deliver, Refill
  <2>2. ASSUME NEW buffer
        PROVE  LET e == readDecrypt(c, buffer)
               IN  /\ e.pc = conn[c].pc /\ e.tls = conn[c].tls
                   /\ e.verified = conn[c].verified /\ e.r = conn[c].r
    BY <1>0, <2>1 DEF readDecrypt
  <2>3. PICK e : /\ Becomes(c, e) /\ e.pc = conn[c].pc /\ e.tls = conn[c].tls
                 /\ e.verified = conn[c].verified /\ e.r = conn[c].r
    BY <1>20, <2>1, <2>2 DEF SChannelRead
  <2>4. QED
    BY <1>0, <1>a, <1>b, <1>20, <2>3 DEF SChannelRead
<1>21. CASE take(c)
  <2> HIDE DEF Becomes
  <2>1. PICK rest, next :
          /\ next = [conn[c] EXCEPT !.buf = rest, !.acc = << >>]
          /\ \/ \E g : Becomes(c, [next EXCEPT !.got = g, !.want = 0, !.pc = "open"])
             \/ \E x : Becomes(c, [next EXCEPT !.acc = x, !.want = 1])
             \/ \E g, w : Becomes(c, [next EXCEPT !.got = g, !.want = w])
    BY <1>21 DEF take
  <2>2. /\ conn'[c].pc \in {conn[c].pc, "open"} /\ conn'[c].tls = conn[c].tls
        /\ conn'[c].verified = conn[c].verified /\ conn'[c].r = conn[c].r
    <3> HIDE DEF SecuredOf, Writable
    <3>1. CASE \E g : Becomes(c, [next EXCEPT !.got = g, !.want = 0, !.pc = "open"])
      BY <1>0, <1>a, <2>1, <3>1 DEF Becomes
    <3>2. CASE \E x : Becomes(c, [next EXCEPT !.acc = x, !.want = 1])
      BY <1>0, <1>a, <2>1, <3>2 DEF Becomes
    <3>3. CASE \E g, w : Becomes(c, [next EXCEPT !.got = g, !.want = w])
      BY <1>0, <1>a, <2>1, <3>3 DEF Becomes
    <3>4. QED
      BY <2>1, <3>1, <3>2, <3>3
  <2>3. QED
    BY <1>a, <1>b, <1>21, <2>2 DEF take
<1>22. CASE destroyObject(c)
  BY <1>0, <1>a, <1>b, <1>22 DEF destroyObject
<1>23. CASE forget(c)
  BY <1>0, <1>a, <1>b, <1>23 DEF forget
<1>24. CASE ServerCloses(c)
  BY <1>0, <1>a, <1>b, <1>24 DEF ServerCloses
<1>25. QED
  BY <1>1, <1>2, <1>3, <1>4, <1>5, <1>6, <1>7, <1>8, <1>9, <1>10, <1>11, <1>12, <1>13, <1>14, <1>15, <1>16, <1>17, <1>18, <1>19, <1>20, <1>21, <1>22, <1>23, <1>24 DEF Step

\* And what is said of the others.
LEMMA StepKeepsSecured ==
  ASSUME SecuredInv, [Next]_vars
  PROVE  SecuredInv'
<1>1. CASE UNCHANGED vars
  BY <1>1 DEF SecuredInv, ShapeOK, SecuredOf, vars, Kind, Writable
<1>2. ASSUME NEW c \in Conn, Step(c), UNCHANGED <<platform, security>>
      PROVE  SecuredInv'
  <2>1. ShapeOK' /\ OnlyMoves(c)
    BY <1>2, StepShape DEF SecuredInv
  <2>2. SecuredOf(c)'
    BY <1>2, StepSecures
  <2>3. ASSUME NEW d \in Conn \ {c} PROVE SecuredOf(d)'
    <3>1. conn'[d] = conn[d] /\ peer'[d] = peer[d]
      BY <2>1 DEF OnlyMoves
    <3>2. QED
      BY <1>2, <3>1 DEF SecuredInv, SecuredOf, Kind, Writable
  <2>4. QED
    BY <2>1, <2>2, <2>3 DEF SecuredInv
<1>3. QED
  BY <1>1, <1>2 DEF Next

\* No request reaches a server before the TLS handshake is complete, SChannel has verified
\* the server and the SASL exchange has ended with OK on POSIX: for any connections, any
\* settings and either platform.
THEOREM RequestsAreSecured == Spec => []SecuredBeforeUse
<1>1. Init => SecuredInv
  BY DEF Init, SecuredInv, ShapeOK, SecuredOf, Shaped, PeerShaped, Fresh, NoPeer
<1>2. SecuredInv => SecuredBeforeUse
  <2>1. ASSUME NEW c \in Conn, SecuredInv, peer[c].asked # <<>>
        PROVE  /\ security.ssl => conn[c].tls = "done"
               /\ Kind = "schannel" => conn[c].verified
               /\ security.auth # "none" /\ platform = "posix" => conn[c].r = "OK"
    <3>1. SecuredOf(c)
      BY <2>1 DEF SecuredInv
    <3>2. QED
      BY <2>1, <3>1 DEF SecuredOf, Writable, Kind
  <2>2. QED
    BY <2>1 DEF SecuredBeforeUse
<1>3. QED
  BY <1>1, <1>2, StepKeepsSecured, PTL DEF Spec

\* All these bytes have the continuation bit.
AllMore(bytes) == \A i \in 1..Len(bytes) : bytes[i] >= Group

\* What IntegersAgree says of an integer that is sent.
LEMMA CodecFacts ==
  ASSUME IntegersAgree, NEW v \in Values \cup {ArraySize}
  PROVE  /\ VInt(v) \in Seq(Nat) /\ VInt(v) # << >>
         /\ \A i \in 1..Len(VInt(v)) : VInt(v)[i] >= Group <=> i < Len(VInt(v))
         /\ readVInt(VInt(v)) = v /\ ServerReads(writeVInt[v]) = v
<1>1. PICK top : top = 2^Width - 1
  OBVIOUS
<1>2. v \in 0..top
  BY <1>1, ConnectionAssumption
<1>3. ASSUME NEW u \in 0..top
      PROVE  /\ writeVInt[u] = VInt(u) /\ VInt(u) \in Seq(Nat) \ {<< >>} /\ readVInt(VInt(u)) = u
             /\ \A i \in DOMAIN VInt(u) : More(SubSeq(VInt(u), 1, i)) <=> i < Len(VInt(u))
  BY <1>1, <1>3 DEF IntegersAgree
<1>4. PICK x : x = VInt(v)
  OBVIOUS
<1>5. /\ x \in Seq(Nat) /\ x # << >> /\ Len(x) \in Nat
      /\ \A i \in 1..Len(x) : More(SubSeq(x, 1, i)) <=> i < Len(x)
  BY <1>2, <1>3, <1>4
<1>6. ASSUME NEW i \in 1..Len(x) PROVE x[i] >= Group <=> i < Len(x)
  <2>1. SubSeq(x, 1, i)[Len(SubSeq(x, 1, i))] = x[i]
    BY <1>5, SubSeqProperties
  <2>2. QED
    BY <1>5, <2>1 DEF More, Last
<1>7. ServerReads(writeVInt[v]) = v
  <2>1. \E u \in 0..top : VInt(u) = VInt(v)
    BY <1>2
  <2>2. PICK u : u = (CHOOSE w \in 0..top : VInt(w) = VInt(v))
    OBVIOUS
  <2>3. u \in 0..top /\ VInt(u) = VInt(v)
    BY <2>1, <2>2
  <2>4. u = v
    BY <1>2, <1>3, <2>3
  <2>5. QED
    BY <1>1, <1>2, <1>3, <2>2, <2>4 DEF ServerReads
<1>8. QED
  BY <1>2, <1>3, <1>4, <1>5, <1>6, <1>7

\* The sequence of two sequences, flattened.
LEMMA FlattenTwo ==
  ASSUME NEW s, NEW a, NEW b, s = << a, b >>
  PROVE  FlattenSeq(s) = a \o b
<1>1. Len(s) = 2 /\ s[1] = a /\ s[2] = b
  OBVIOUS
<1> DEFINE F(f) == [i \in 1..Len(s) |-> IF i = 1 THEN s[i] ELSE f[i - 1] \o s[i]]
           g == [i \in 1..2 |-> IF i = 1 THEN a ELSE a \o b]
<1>2. g = F(g)
  BY <1>1
<1>3. PICK f : f = (CHOOSE e : e = F(e))
  OBVIOUS
<1>4. f = F(f)
  <2>1. \E e : e = F(e)
    BY <1>2
  <2>2. QED
    BY <1>3, <2>1, Zenon
<1>5. f[1] = a /\ f[2] = a \o b
  <2>1. \A i \in 1..2 : f[i] = IF i = 1 THEN s[i] ELSE f[i - 1] \o s[i]
    BY <1>1, <1>4
  <2>2. f[1] = a
    BY <1>1, <2>1
  <2>3. 2 \in 1..2 /\ 2 # 1 /\ 2 - 1 = 1
    OBVIOUS
  <2>4. f[2] = f[2 - 1] \o s[2]
    BY <2>1, <2>3
  <2>5. QED
    BY <1>1, <2>2, <2>3, <2>4
<1>6. FlattenSeq(s) = f[2]
  BY <1>1, <1>3 DEF FlattenSeq
<1>7. QED
  BY <1>5, <1>6

\* And of one.
LEMMA FlattenOne ==
  ASSUME NEW s, NEW a, s = << a >>
  PROVE  FlattenSeq(s) = a
<1>1. Len(s) = 1 /\ s[1] = a
  OBVIOUS
<1> DEFINE F(f) == [i \in 1..Len(s) |-> IF i = 1 THEN s[i] ELSE f[i - 1] \o s[i]]
           g == [i \in 1..1 |-> a]
<1>2. g = F(g)
  BY <1>1
<1>3. PICK f : f = (CHOOSE e : e = F(e))
  OBVIOUS
<1>4. f = F(f)
  <2>1. \E e : e = F(e)
    BY <1>2
  <2>2. QED
    BY <1>3, <2>1, Zenon
<1>5. f[1] = a
  BY <1>1, <1>4
<1>6. FlattenSeq(s) = f[1]
  BY <1>1, <1>3 DEF FlattenSeq
<1>7. QED
  BY <1>5, <1>6

\* Two ways to cut a sequence at one place are the same.
LEMMA SplitEqual ==
  ASSUME NEW S, NEW a \in Seq(S), NEW b \in Seq(S), NEW x \in Seq(S), NEW y \in Seq(S),
         a \o b = x \o y, Len(a) = Len(x)
  PROVE  a = x /\ b = y
<1>1. /\ a \o b \in Seq(S) /\ Len(a \o b) = Len(a) + Len(b)
      /\ \A i \in 1..(Len(a) + Len(b)) : (a \o b)[i] = IF i <= Len(a) THEN a[i] ELSE b[i - Len(a)]
  BY ConcatProperties
<1>2. /\ Len(x \o y) = Len(x) + Len(y)
      /\ \A i \in 1..(Len(x) + Len(y)) : (x \o y)[i] = IF i <= Len(x) THEN x[i] ELSE y[i - Len(x)]
  BY ConcatProperties
<1>3. Len(b) = Len(y) /\ Len(a) \in Nat /\ Len(b) \in Nat
  BY <1>1, <1>2
<1>4. ASSUME NEW i \in 1..Len(a) PROVE a[i] = x[i]
  <2>1. i \in 1..(Len(a) + Len(b)) /\ i <= Len(a)
    BY <1>3
  <2>2. QED
    BY <1>1, <1>2, <1>3, <2>1
<1>5. ASSUME NEW i \in 1..Len(b) PROVE b[i] = y[i]
  <2>1. i + Len(a) \in 1..(Len(a) + Len(b)) /\ ~(i + Len(a) <= Len(a)) /\ (i + Len(a)) - Len(a) = i
    BY <1>3
  <2>2. (a \o b)[i + Len(a)] = b[i] /\ (x \o y)[i + Len(a)] = y[i]
    BY <1>1, <1>2, <1>3, <2>1
  <2>3. QED
    BY <2>2
<1>6. QED
  BY <1>3, <1>4, <1>5, SeqEqual

\* A concatenation starts with its first part.
LEMMA FrontOfConcat ==
  ASSUME NEW S, NEW a \in Seq(S), NEW b \in Seq(S)
  PROVE  /\ a \o b \in Seq(S) /\ Len(a \o b) = Len(a) + Len(b)
         /\ \A i \in 1..Len(a) : (a \o b)[i] = a[i]
<1>1. /\ a \o b \in Seq(S) /\ Len(a \o b) = Len(a) + Len(b)
      /\ \A i \in 1..(Len(a) + Len(b)) : (a \o b)[i] = IF i <= Len(a) THEN a[i] ELSE b[i - Len(a)]
  BY ConcatProperties
<1>2. \A i \in 1..Len(a) : i \in 1..(Len(a) + Len(b)) /\ i <= Len(a)
  OBVIOUS
<1>3. QED
  BY <1>1, <1>2

\* A sequence is its first k elements and the rest.
LEMMA CutSeq ==
  ASSUME NEW S, NEW s \in Seq(S), NEW k \in 0..Len(s)
  PROVE  /\ SubSeq(s, 1, k) \in Seq(S) /\ Len(SubSeq(s, 1, k)) = k
         /\ SubSeq(s, k + 1, Len(s)) \in Seq(S) /\ Len(SubSeq(s, k + 1, Len(s))) = Len(s) - k
         /\ SubSeq(s, 1, k) \o SubSeq(s, k + 1, Len(s)) = s
<1>1. PICK a, b : a = SubSeq(s, 1, k) /\ b = SubSeq(s, k + 1, Len(s))
  OBVIOUS
<1>2. a \in Seq(S) /\ Len(a) = k /\ \A j \in 1..k : a[j] = s[j]
  BY <1>1, SubSeqProperties
<1>3. b \in Seq(S) /\ Len(b) = Len(s) - k /\ \A j \in 1..(Len(s) - k) : b[j] = s[k + j]
  BY <1>1, SubSeqProperties
<1>4. /\ a \o b \in Seq(S) /\ Len(a \o b) = Len(a) + Len(b)
      /\ \A j \in 1..(Len(a) + Len(b)) : (a \o b)[j] = IF j <= Len(a) THEN a[j] ELSE b[j - Len(a)]
  BY <1>2, <1>3, ConcatProperties
<1>5. ASSUME NEW j \in 1..Len(s) PROVE (a \o b)[j] = s[j]
  <2>1. j \in 1..(Len(a) + Len(b))
    BY <1>2, <1>3
  <2>2. CASE j <= k
    BY <1>2, <1>4, <2>1, <2>2
  <2>3. CASE ~(j <= k)
    <3>1. j - k \in 1..(Len(s) - k) /\ k + (j - k) = j
      BY <2>3
    <3>2. QED
      BY <1>2, <1>3, <1>4, <2>1, <2>3, <3>1
  <2>4. QED
    BY <2>2, <2>3
<1>6. Len(a \o b) = Len(s)
  BY <1>2, <1>3, <1>4
<1>7. a \o b = s
  BY <1>4, <1>5, <1>6, SeqEqual
<1>8. QED
  BY <1>1, <1>2, <1>3, <1>7


\* The bytes of an integer: only the last one is without the continuation bit.
Ends(x) == /\ x \in Seq(Nat) /\ x # << >>
           /\ \A i \in 1..Len(x) : x[i] >= Group <=> i < Len(x)

\* Of two integers with which the same bytes start, none is longer.
LEMMA EndsUnique ==
  ASSUME NEW x, NEW y, Ends(x), Ends(y), NEW p \in Seq(Nat), NEW q \in Seq(Nat),
         NEW s, s = x \o p, s = y \o q
  PROVE  x = y /\ p = q
<1>1. /\ x \in Seq(Nat) /\ Len(x) \in Nat /\ Len(x) >= 1
      /\ \A i \in 1..Len(x) : x[i] >= Group <=> i < Len(x)
  BY DEF Ends
<1>2. /\ y \in Seq(Nat) /\ Len(y) \in Nat /\ Len(y) >= 1
      /\ \A i \in 1..Len(y) : y[i] >= Group <=> i < Len(y)
  BY DEF Ends
<1>3. x \o p = y \o q
  OBVIOUS
<1>4. \A i \in 1..Len(x) : s[i] = x[i]
  <2>1. \A i \in 1..Len(x) : (x \o p)[i] = x[i]
    BY <1>1, FrontOfConcat
  <2>2. QED
    BY <2>1
<1>5. \A i \in 1..Len(y) : s[i] = y[i]
  <2>1. \A i \in 1..Len(y) : (y \o q)[i] = y[i]
    BY <1>2, FrontOfConcat
  <2>2. QED
    BY <2>1
<1>6. ~(Len(x) < Len(y))
  <2> SUFFICES ASSUME Len(x) < Len(y) PROVE FALSE
    OBVIOUS
  <2>1. Len(x) \in 1..Len(x) /\ Len(x) \in 1..Len(y)
    BY <1>1, <1>2
  <2>2. x[Len(x)] = y[Len(x)]
    BY <1>4, <1>5, <2>1
  <2>3. y[Len(x)] >= Group
    BY <1>2, <2>1
  <2>4. ~(Len(x) < Len(x))
    BY <1>1
  <2>5. QED
    BY <1>1, <2>1, <2>2, <2>3, <2>4
<1>7. ~(Len(y) < Len(x))
  <2> SUFFICES ASSUME Len(y) < Len(x) PROVE FALSE
    OBVIOUS
  <2>1. Len(y) \in 1..Len(x) /\ Len(y) \in 1..Len(y)
    BY <1>1, <1>2
  <2>2. x[Len(y)] = y[Len(y)]
    BY <1>4, <1>5, <2>1
  <2>3. x[Len(y)] >= Group
    BY <1>1, <2>1
  <2>4. ~(Len(y) < Len(y))
    BY <1>2
  <2>5. QED
    BY <1>2, <2>1, <2>2, <2>3, <2>4
<1>8. Len(x) = Len(y)
  BY <1>1, <1>2, <1>6, <1>7
<1>9. QED
  BY <1>1, <1>2, <1>3, <1>8, SplitEqual

\* One byte behind bytes that have the continuation bit.
LEMMA OneMoreByte ==
  ASSUME NEW acc \in Seq(Nat), AllMore(acc), NEW buf \in Seq(Nat), Len(buf) = 1,
         NEW bytes, bytes = acc \o buf
  PROVE  /\ More(bytes) => AllMore(bytes)
         /\ ~More(bytes) => Ends(bytes)
<1>1. /\ bytes \in Seq(Nat) /\ Len(bytes) = Len(acc) + 1 /\ Len(acc) \in Nat
      /\ \A i \in 1..Len(acc) : bytes[i] = acc[i]
  <2>1. bytes \in Seq(Nat) /\ Len(bytes) = Len(acc) + Len(buf)
    BY FrontOfConcat
  <2>2. \A i \in 1..Len(acc) : bytes[i] = acc[i]
    BY FrontOfConcat
  <2>3. QED
    BY <2>1, <2>2
<1>2. \A i \in 1..Len(acc) : bytes[i] >= Group
  BY <1>1 DEF AllMore
<1>3. More(bytes) <=> bytes[Len(bytes)] >= Group
  BY DEF More, Last
<1>4. \A i \in 1..Len(bytes) : i \in 1..Len(acc) \/ i = Len(bytes)
  BY <1>1
<1>5. \A i \in 1..Len(acc) : i < Len(bytes)
  BY <1>1
<1>6. More(bytes) => AllMore(bytes)
  BY <1>2, <1>3, <1>4 DEF AllMore
<1>7. ~(Len(bytes) < Len(bytes)) /\ bytes # << >>
  BY <1>1
<1>8. ~More(bytes) => Ends(bytes)
  BY <1>1, <1>2, <1>3, <1>4, <1>5, <1>7 DEF Ends
<1>9. QED
  BY <1>6, <1>8

\* What the server sends behind the integer.
SizedArray == VInt(ArraySize) \o ArrayData

\* How far the answer to a request with v has been read, when these bytes are coming: there
\* is none, or its first integer, the size of the array or the array is being read.
Progress(v, got, want, acc, coming) ==
  \/ got = << >> /\ want = 1 /\ coming = << >>
  \/ got = << >> /\ want = 1 /\ AllMore(acc) /\ coming = VInt(v) \o SizedArray
  \/ got = << << v >> >> /\ want = 1 /\ AllMore(acc) /\ coming = SizedArray
  \/ got = << << v >>, << >> >> /\ Len(acc) + want = ArraySize /\ coming = ArrayData

\* Concatenation is associative.
LEMMA Associate ==
  ASSUME NEW x \in Seq(Nat), NEW y \in Seq(Nat), NEW z \in Seq(Nat)
  PROVE  x \o (y \o z) = (x \o y) \o z
BY SMTT(30)

\* The length of what the application has tells which it is.
LEMMA Phases ==
  ASSUME NEW v, NEW got, NEW want, NEW acc, NEW coming, Progress(v, got, want, acc, coming)
  PROVE  /\ Len(got) \in {0, 1, 2}
         /\ Len(got) # 2 => want = 1
         /\ Len(got) = 0 /\ coming # << >> => AllMore(acc) /\ coming = VInt(v) \o SizedArray
         /\ Len(got) = 1 => got = << << v >> >> /\ AllMore(acc) /\ coming = SizedArray
         /\ Len(got) = 2 => /\ got = << << v >>, << >> >> /\ Len(acc) + want = ArraySize
                            /\ coming = ArrayData
<1>1. Len(<< >>) = 0 /\ Len(<< << v >> >>) = 1 /\ Len(<< << v >>, << >> >>) = 2
  OBVIOUS
<1>2. PICK a, b, d : a = << >> /\ b = << << v >> >> /\ d = << << v >>, << >> >>
  OBVIOUS
<1>3. Len(a) = 0 /\ Len(b) = 1 /\ Len(d) = 2
  BY <1>1, <1>2
<1>4. PICK none, all, sized, array : /\ none = << >> /\ all = VInt(v) \o SizedArray
                                     /\ sized = SizedArray /\ array = ArrayData
  OBVIOUS
<1>5. PICK more \in BOOLEAN, whole \in BOOLEAN :
        (more <=> AllMore(acc)) /\ (whole <=> Len(acc) + want = ArraySize)
  OBVIOUS
<1>6. \/ got = a /\ want = 1 /\ coming = none
      \/ got = a /\ want = 1 /\ more /\ coming = all
      \/ got = b /\ want = 1 /\ more /\ coming = sized
      \/ got = d /\ whole /\ coming = array
  BY <1>2, <1>4, <1>5 DEF Progress
<1>7. /\ Len(got) \in {0, 1, 2}
      /\ Len(got) # 2 => want = 1
      /\ Len(got) = 0 /\ coming # none => more /\ coming = all
      /\ Len(got) = 1 => got = b /\ more /\ coming = sized
      /\ Len(got) = 2 => got = d /\ whole /\ coming = array
  BY <1>3, <1>6
<1>8. QED
  BY <1>2, <1>4, <1>5, <1>7

\* The bytes of an answer.
LEMMA AnswerTypes ==
  ASSUME IntegersAgree, NEW v \in Values
  PROVE  /\ ArraySize \in Nat /\ ArraySize # 0
         /\ ArrayData \in Seq(Nat) /\ Len(ArrayData) = ArraySize
         /\ VInt(v) \in Seq(Nat) /\ Ends(VInt(v)) /\ readVInt(VInt(v)) = v
         /\ VInt(ArraySize) \in Seq(Nat) /\ Ends(VInt(ArraySize)) /\ readVInt(VInt(ArraySize)) = ArraySize
         /\ SizedArray \in Seq(Nat) /\ SizedArray # << >>
<1>1. ArraySize \in Nat /\ ArraySize # 0
  BY ConnectionAssumption
<1>2. ArrayData \in Seq(Nat) /\ Len(ArrayData) = ArraySize
  BY <1>1 DEF ArrayData
<1>3. VInt(v) \in Seq(Nat) /\ Ends(VInt(v)) /\ readVInt(VInt(v)) = v
  BY CodecFacts DEF Ends
<1>4. PICK n : n = ArraySize
  OBVIOUS
<1>5. VInt(n) \in Seq(Nat) /\ Ends(VInt(n)) /\ readVInt(VInt(n)) = n
  BY <1>4, CodecFacts DEF Ends
<1>6. SizedArray \in Seq(Nat) /\ Len(SizedArray) = Len(VInt(ArraySize)) + Len(ArrayData)
  BY <1>2, <1>4, <1>5, FrontOfConcat DEF SizedArray
<1>7. SizedArray # << >>
  BY <1>1, <1>2, <1>4, <1>5, <1>6
<1>8. QED
  BY <1>1, <1>2, <1>3, <1>4, <1>5, <1>6, <1>7

\* A read leaves what is coming as it is.
LEMMA RefillProgress ==
  ASSUME NEW v, NEW got, NEW want \in Nat, NEW acc \in Seq(Nat), NEW buf \in Seq(Nat),
         NEW behind \in Seq(Nat), Len(buf) < want,
         Progress(v, got, want, acc, acc \o (buf \o behind))
  PROVE  Progress(v, got, want - Len(buf), acc \o buf, (acc \o buf) \o behind)
<1>1. PICK coming : coming = acc \o (buf \o behind)
  OBVIOUS
<1>2. (acc \o buf) \o behind = coming
  BY <1>1, Associate
<1>3. Progress(v, got, want, acc, coming)
  BY <1>1
<1>4. CASE want = 1
  <2>1. buf = << >> /\ want - Len(buf) = want
    BY <1>4
  <2>2. acc \o buf = acc
    BY <2>1, ConcatEmptySeq
  <2>3. QED
    BY <1>2, <1>3, <2>1, <2>2
<1>5. CASE want # 1
  <2>1. got = << << v >>, << >> >> /\ Len(acc) + want = ArraySize /\ coming = ArrayData
    BY <1>3, <1>5 DEF Progress
  <2>2. PICK x : x = acc \o buf
    OBVIOUS
  <2>3. Len(x) = Len(acc) + Len(buf)
    BY <2>2, FrontOfConcat
  <2>4. Len(x) + (want - Len(buf)) = ArraySize
    BY <2>1, <2>3
  <2>5. QED
    BY <1>2, <2>1, <2>2, <2>4 DEF Progress
<1>6. QED
  BY <1>4, <1>5

\* What the bytes that were wanted complete, and what is read next.
Completes(v, got, bytes, behind) ==
  /\ Len(got) = 2 => got = << << v >>, << >> >> /\ bytes = ArrayData /\ behind = << >>
  /\ Len(got) # 2 /\ More(bytes) => Progress(v, got, 1, bytes, bytes \o behind)
  /\ Len(got) = 0 /\ ~More(bytes) =>
       readVInt(bytes) = v /\ Progress(v, << << v >> >>, 1, << >>, behind)
  /\ Len(got) = 1 /\ ~More(bytes) =>
       /\ got = << << v >> >> /\ readVInt(bytes) = ArraySize
       /\ Progress(v, << << v >>, << >> >>, ArraySize, << >>, behind)

\* All the bytes that were wanted are there.
LEMMA TakeProgress ==
  ASSUME IntegersAgree, NEW v \in Values, NEW got, NEW want \in Nat, NEW acc \in Seq(Nat),
         NEW buf \in Seq(Nat), NEW behind \in Seq(Nat), Len(buf) = want,
         Progress(v, got, want, acc, acc \o (buf \o behind))
  PROVE  Completes(v, got, acc \o buf, behind)
<1>0. PICK bytes : bytes = acc \o buf
  OBVIOUS
<1>1. PICK coming : coming = acc \o (buf \o behind)
  OBVIOUS
<1>2. coming = bytes \o behind
  BY <1>0, <1>1, Associate
<1>3. bytes \in Seq(Nat) /\ Len(bytes) = Len(acc) + Len(buf)
  BY <1>0, FrontOfConcat
<1>4. Progress(v, got, want, acc, coming)
  BY <1>1
<1>5. Len(coming) = Len(bytes) + Len(behind)
  BY <1>2, <1>3, FrontOfConcat
<1>6. ASSUME Len(got) = 2 PROVE Completes(v, got, bytes, behind)
  <2>1. got = << << v >>, << >> >> /\ Len(acc) + want = ArraySize /\ coming = ArrayData
    BY <1>4, <1>6, Phases
  <2>2. ArrayData \in Seq(Nat) /\ Len(ArrayData) = ArraySize
    BY AnswerTypes
  <2>3. << >> \in Seq(Nat) /\ ArrayData \o << >> = ArrayData
    BY <2>2, ConcatEmptySeq
  <2>4. Len(bytes) = Len(ArrayData) /\ bytes \o behind = ArrayData \o << >>
    BY <1>2, <1>3, <2>1, <2>2, <2>3
  <2>5. bytes = ArrayData /\ behind = << >>
    BY <1>3, <2>2, <2>3, <2>4, SplitEqual
  <2>6. QED
    BY <1>6, <2>1, <2>5 DEF Completes
<1>7. ASSUME Len(got) # 2 PROVE want = 1 /\ Len(buf) = 1 /\ coming # << >>
  <2>1. want = 1
    BY <1>4, <1>7, Phases
  <2>2. Len(coming) # 0
    BY <1>3, <1>5, <2>1
  <2>3. QED
    BY <2>1, <2>2
<1>8. ASSUME Len(got) = 0 PROVE Completes(v, got, bytes, behind)
  <2>0. want = 1 /\ Len(buf) = 1 /\ coming # << >>
    BY <1>7, <1>8
  <2>1. AllMore(acc) /\ coming = VInt(v) \o SizedArray
    BY <1>4, <1>8, <2>0, Phases
  <2>2. CASE More(bytes)
    <3>1. AllMore(bytes)
      BY <2>0, <2>1, <2>2, <1>0, OneMoreByte
    <3>2. got = << >>
      BY <1>4, <1>8 DEF Progress
    <3>3. Progress(v, got, 1, bytes, coming)
      BY <2>1, <3>1, <3>2 DEF Progress
    <3>4. QED
      BY <1>2, <1>8, <2>2, <3>3 DEF Completes
  <2>3. CASE ~More(bytes)
    <3>1. Ends(bytes)
      BY <2>0, <2>1, <2>3, <1>0, OneMoreByte
    <3>2. Ends(VInt(v)) /\ SizedArray \in Seq(Nat) /\ readVInt(VInt(v)) = v
      BY AnswerTypes
    <3>3. bytes = VInt(v) /\ behind = SizedArray
      <4>1. PICK x, y : x = VInt(v) /\ y = SizedArray
        OBVIOUS
      <4>2. coming = x \o y /\ Ends(x) /\ y \in Seq(Nat)
        BY <2>1, <3>2, <4>1
      <4>3. bytes = x /\ behind = y
        BY <1>2, <3>1, <4>2, EndsUnique
      <4>4. QED
        BY <4>1, <4>3
    <3>4. AllMore(<< >>)
      BY DEF AllMore
    <3>5. Progress(v, << << v >> >>, 1, << >>, behind)
      BY <3>3, <3>4 DEF Progress
    <3>6. QED
      BY <1>8, <2>3, <3>2, <3>3, <3>5 DEF Completes
  <2>4. QED
    BY <2>2, <2>3
<1>9. ASSUME Len(got) = 1 PROVE Completes(v, got, bytes, behind)
  <2>0. want = 1 /\ Len(buf) = 1 /\ coming # << >>
    BY <1>7, <1>9
  <2>1. got = << << v >> >> /\ AllMore(acc) /\ coming = VInt(ArraySize) \o ArrayData
    BY <1>4, <1>9, Phases DEF SizedArray
  <2>2. CASE More(bytes)
    <3>1. AllMore(bytes)
      BY <2>0, <2>1, <2>2, <1>0, OneMoreByte
    <3>2. Progress(v, got, 1, bytes, coming)
      BY <2>1, <3>1 DEF Progress, SizedArray
    <3>3. QED
      BY <1>2, <1>9, <2>2, <3>2 DEF Completes
  <2>3. CASE ~More(bytes)
    <3>1. Ends(bytes)
      BY <2>0, <2>1, <2>3, <1>0, OneMoreByte
    <3>2. Ends(VInt(ArraySize)) /\ ArrayData \in Seq(Nat) /\ readVInt(VInt(ArraySize)) = ArraySize
      BY AnswerTypes
    <3>3. bytes = VInt(ArraySize) /\ behind = ArrayData
      <4>1. PICK x, y : x = VInt(ArraySize) /\ y = ArrayData
        OBVIOUS
      <4>2. coming = x \o y /\ Ends(x) /\ y \in Seq(Nat)
        BY <2>1, <3>2, <4>1
      <4>3. bytes = x /\ behind = y
        BY <1>2, <3>1, <4>2, EndsUnique
      <4>4. QED
        BY <4>1, <4>3
    <3>4. Len(<< >>) + ArraySize = ArraySize
      BY AnswerTypes
    <3>5. Progress(v, << << v >>, << >> >>, ArraySize, << >>, behind)
      BY <3>3, <3>4 DEF Progress
    <3>6. QED
      BY <1>9, <2>1, <2>3, <3>2, <3>3, <3>5 DEF Completes
  <2>4. QED
    BY <2>2, <2>3
<1>10. Len(got) \in {0, 1, 2}
  BY <1>4, Phases
<1>11. QED
  BY <1>0, <1>6, <1>8, <1>9, <1>10

\* Records d + 1 to d + n of r, one behind the other.
Join(r, d, n) == FlattenSeq(SubSeq(r, d + 1, d + n))

\* Up to two of them.
LEMMA JoinIs ==
  ASSUME NEW r \in Seq(Seq(Nat)), NEW d \in Nat, NEW n \in {0, 1, 2}, d + n <= Len(r)
  PROVE  /\ n = 0 => Join(r, d, n) = << >>
         /\ n = 1 => Join(r, d, n) = r[d + 1]
         /\ n = 2 => Join(r, d, n) = r[d + 1] \o r[d + 2]
         /\ Join(r, d, n) \in Seq(Nat)
<1>1. PICK s : s = SubSeq(r, d + 1, d + n)
  OBVIOUS
<1>2. Len(s) = n /\ \A i \in 1..n : s[i] = r[d + i]
  BY <1>1, SubSeqProperties
<1>3. s \in Seq(Seq(Nat))
  BY <1>1, SubSeqProperties
<1>a. Join(r, d, n) = FlattenSeq(s)
  BY <1>1 DEF Join
<1>4. CASE n = 0
  <2>1. s = << >> /\ FlattenSeq(s) = s
    BY <1>2, <1>3, <1>4 DEF FlattenSeq
  <2>2. QED
    <3>1. n # 1 /\ n # 2 /\ << >> \in Seq(Nat)
      BY <1>4
    <3>2. Join(r, d, n) = << >>
      BY <1>a, <2>1
    <3>3. QED
      BY <3>1, <3>2, Zenon
<1>5. CASE n = 1
  <2>1. s = << r[d + 1] >> /\ r[d + 1] \in Seq(Nat)
    BY <1>2, <1>3, <1>5
  <2>2. FlattenSeq(s) = r[d + 1]
    BY <2>1, FlattenOne
  <2>3. QED
    BY <1>a, <1>5, <2>1, <2>2
<1>6. CASE n = 2
  <2>1. s = << r[d + 1], r[d + 2] >> /\ r[d + 1] \in Seq(Nat) /\ r[d + 2] \in Seq(Nat)
    BY <1>2, <1>3, <1>6
  <2>2. FlattenSeq(s) = r[d + 1] \o r[d + 2]
    BY <2>1, FlattenTwo
  <2>3. r[d + 1] \o r[d + 2] \in Seq(Nat)
    BY <2>1, FrontOfConcat
  <2>4. QED
    <3>1. PICK x : x = r[d + 1] \o r[d + 2]
      OBVIOUS
    <3>2. Join(r, d, n) = x /\ x \in Seq(Nat)
      BY <1>a, <2>2, <2>3, <3>1
    <3>3. n # 0 /\ n # 1
      BY <1>6
    <3>4. QED
      BY <3>1, <3>2, <3>3, Zenon
<1>7. QED
  BY <1>4, <1>5, <1>6

\* Some of them and the rest.
LEMMA JoinSplits ==
  ASSUME NEW r \in Seq(Seq(Nat)), NEW d \in Nat, NEW m \in {0, 1, 2}, d + m <= Len(r),
         NEW n \in 0..m
  PROVE  Join(r, d, m) = Join(r, d, n) \o Join(r, d + n, m - n)
<1>0. /\ Join(r, d, m) \in Seq(Nat)
      /\ Join(r, d, 0) = << >>
      /\ Join(r, d, m) \o << >> = Join(r, d, m) /\ << >> \o Join(r, d, m) = Join(r, d, m)
  <2>1. Join(r, d, m) \in Seq(Nat)
    BY JoinIs
  <2>2. d + 0 <= Len(r)
    OBVIOUS
  <2>3. Join(r, d, 0) = << >>
    BY <2>2, JoinIs
  <2>4. PICK x : x = Join(r, d, m)
    OBVIOUS
  <2>5. x \o << >> = x /\ << >> \o x = x
    BY <2>1, <2>4
  <2>6. QED
    BY <2>1, <2>3, <2>4, <2>5
<1>1. CASE n = 0
  <2>1. d + n = d /\ m - n = m
    BY <1>1
  <2>2. QED
    BY <1>0, <1>1, <2>1
<1>2. CASE n = m
  <2>1. m - n = 0 /\ d + n \in Nat /\ (d + n) + 0 <= Len(r)
    BY <1>2
  <2>2. Join(r, d + n, 0) = << >>
    BY <2>1, JoinIs
  <2>3. QED
    BY <1>0, <1>2, <2>1, <2>2
<1>3. CASE n = 1 /\ m = 2
  <2>1. m - n = 1 /\ d + 1 \in Nat /\ (d + 1) + 1 <= Len(r) /\ (d + 1) + 1 = d + 2 /\ d + 1 <= Len(r)
    BY <1>3
  <2>2. Join(r, d + 1, 1) = r[d + 2]
    <3>1. Join(r, d + 1, 1) = r[(d + 1) + 1]
      BY <2>1, JoinIs
    <3>2. QED
      BY <2>1, <3>1
  <2>3. Join(r, d, 1) = r[d + 1]
    BY <2>1, JoinIs
  <2>4. Join(r, d, 2) = r[d + 1] \o r[d + 2]
    BY <1>3, JoinIs
  <2>5. QED
    BY <1>3, <2>1, <2>2, <2>3, <2>4
<1>4. n = 0 \/ n = m \/ (n = 1 /\ m = 2)
  OBVIOUS
<1>5. QED
  BY <1>1, <1>2, <1>3, <1>4, Zenon

\* The smaller of two numbers.
LEMMA MinOfTwo ==
  ASSUME NEW a \in Int, NEW b \in Int
  PROVE  Min({a, b}) = IF a <= b THEN a ELSE b
BY DEF Min

\* What a caller with room for so many bytes gets of some data, and what is left.
LEMMA Dealt ==
  ASSUME NEW data \in Seq(Nat), NEW room \in Nat
  PROVE  LET chunk == SubSeq(data, 1, Min({room, Len(data)}))
             left == SubSeq(data, room + 1, Len(data))
         IN  /\ chunk \in Seq(Nat) /\ Len(chunk) <= room
             /\ left \in Seq(Nat) /\ chunk \o left = data
<1>1. Len(data) \in Nat
  OBVIOUS
<1>2. CASE room <= Len(data)
  <2>1. Min({room, Len(data)}) = room
    BY <1>1, <1>2, MinOfTwo
  <2>2. QED
    <3>1. room \in 0..Len(data)
      BY <1>1, <1>2
    <3>2. /\ SubSeq(data, 1, room) \in Seq(Nat) /\ Len(SubSeq(data, 1, room)) = room
          /\ SubSeq(data, room + 1, Len(data)) \in Seq(Nat)
          /\ SubSeq(data, 1, room) \o SubSeq(data, room + 1, Len(data)) = data
      BY <3>1, CutSeq
    <3>3. room <= room
      OBVIOUS
    <3>4. QED
      BY <2>1, <3>2, <3>3
<1>3. CASE ~(room <= Len(data))
  <2>1. Min({room, Len(data)}) = Len(data)
    BY <1>1, <1>3, MinOfTwo
  <2>2. SubSeq(data, 1, Len(data)) = data
    OBVIOUS
  <2>3. SubSeq(data, room + 1, Len(data)) = << >>
    BY <1>1, <1>3
  <2>4. << >> \in Seq(Nat) /\ data \o << >> = data
    OBVIOUS
  <2>5. QED
    <3>1. Len(data) <= room
      BY <1>1, <1>3
    <3>2. QED
      BY <2>1, <2>2, <2>3, <2>4, <3>1
<1>4. QED
  BY <1>2, <1>3

\* The bytes on their way to a call that reads, behind the stream's buffer: of a socket of
\* kind k whose ends are e and p, with n in the network.
Behind(k, e, p, n) ==
  IF k = "schannel" THEN e.plain \o Join(p.records, e.decrypted, Len(p.records) - e.decrypted)
  ELSE n

\* No response has been asked for.
Unused(e) ==
  /\ e.acc = << >> /\ e.buf = << >> /\ e.plain = << >> /\ e.got = << >>
  /\ e.decrypted = 0 /\ e.requests = 0 /\ e.want \in Nat

\* Nothing is on its way.
Quiet(k, e, p, n) ==
  /\ e.acc = << >> /\ e.buf = << >> /\ e.plain = << >>
  /\ e.decrypted = Len(p.records)
  /\ k # "schannel" => n = << >>

\* The data are of the right kinds; only SChannel keeps plain text, and no last record is
\* empty.
StreamTypes(k, e, p, n) ==
  /\ e.acc \in Seq(Nat) /\ e.buf \in Seq(Nat) /\ e.plain \in Seq(Nat)
  /\ e.want \in Nat /\ e.requests \in Nat
  /\ p.records \in Seq(Seq(Nat)) /\ e.decrypted \in 0..Len(p.records)
  /\ p.records # << >> => p.records[Len(p.records)] # << >>
  /\ k # "schannel" => n \in Seq(Nat) /\ e.plain = << >> /\ p.records = << >>

\* An answer is being read.
ReadingIs(k, e, p, n) ==
  /\ e.val \in Values /\ e.requests # 0
  /\ Len(e.buf) <= e.want /\ Len(p.records) - e.decrypted <= 2
  /\ Progress(e.val, e.got, e.want, e.acc, e.acc \o (e.buf \o Behind(k, e, p, n)))

\* What is said of a connection: an answer is read, or nothing is on its way.
StreamIs(k, e, p, n) ==
  /\ StreamTypes(k, e, p, n)
  /\ e.pc = "reading" => ReadingIs(k, e, p, n)
  /\ e.pc \notin {"reading", "broken"} => Quiet(k, e, p, n)
  /\ e.pc \notin {"open", "reading", "broken"} => Unused(e) /\ p.records = << >>
  /\ e.pc = "open" => e.got = IF e.requests = 0 THEN << >> ELSE Answer(e.val)
  /\ e.pc \in {"setup", "credentials", "dial", "hello", "recv", "handshake"} => k = "schannel"

\* Before the first request.
LEMMA UnusedStream ==
  ASSUME NEW k, NEW e, NEW p, NEW n, Unused(e), p.records = << >>,
         k # "schannel" => n = << >>,
         e.pc \notin {"reading", "broken"},
         e.pc \in {"setup", "credentials", "dial", "hello", "recv", "handshake"} => k = "schannel"
  PROVE  StreamIs(k, e, p, n)
<1>1. << >> \in Seq(Nat) /\ << >> \in Seq(Seq(Nat)) /\ Len(<< >>) = 0 /\ 0 \in 0..0 /\ 0 \in Nat
  OBVIOUS
<1>2. StreamTypes(k, e, p, n)
  BY <1>1 DEF StreamTypes, Unused
<1>3. Quiet(k, e, p, n)
  BY <1>1 DEF Quiet, Unused
<1>4. QED
  BY <1>2, <1>3 DEF StreamIs, Unused

\* What is behind consists of bytes.
LEMMA BehindType ==
  ASSUME NEW k, NEW e, NEW p, NEW n, StreamTypes(k, e, p, n), Len(p.records) - e.decrypted <= 2
  PROVE  Behind(k, e, p, n) \in Seq(Nat)
<1>1. CASE k = "schannel"
  <2>1. PICK r, d : r = p.records /\ d = e.decrypted
    OBVIOUS
  <2>2. r \in Seq(Seq(Nat)) /\ d \in 0..Len(r) /\ Len(r) - d <= 2 /\ Len(r) \in Nat
    BY <2>1 DEF StreamTypes
  <2>3. d \in Nat /\ Len(r) - d \in {0, 1, 2} /\ d + (Len(r) - d) <= Len(r)
    BY <2>2
  <2>4. Join(r, d, Len(r) - d) \in Seq(Nat)
    BY <2>2, <2>3, JoinIs
  <2>5. e.plain \in Seq(Nat)
    BY DEF StreamTypes
  <2>6. e.plain \o Join(r, d, Len(r) - d) \in Seq(Nat)
    BY <2>4, <2>5, FrontOfConcat
  <2>7. QED
    BY <1>1, <2>1, <2>6 DEF Behind
<1>2. CASE k # "schannel"
  BY <1>2 DEF Behind, StreamTypes
<1>3. QED
  BY <1>1, <1>2

\* A read moves bytes towards the application.
LEMMA ReadKeeps ==
  ASSUME NEW k, NEW e, NEW p, NEW n, StreamIs(k, e, p, n), e.pc = "reading", Len(e.buf) < e.want,
         NEW f, NEW m, NEW chunk \in Seq(Nat), Len(chunk) <= e.want - Len(e.buf),
         f.pc = "reading", f.val = e.val, f.got = e.got, f.requests = e.requests,
         f.acc = e.acc \o e.buf, f.want = e.want - Len(e.buf), f.buf = chunk,
         f.plain \in Seq(Nat), f.decrypted \in e.decrypted..Len(p.records),
         k # "schannel" => m \in Seq(Nat) /\ f.plain = << >>,
         Behind(k, e, p, n) = chunk \o Behind(k, f, p, m)
  PROVE  StreamIs(k, f, p, m)
<1>1. StreamTypes(k, e, p, n) /\ ReadingIs(k, e, p, n)
  BY DEF StreamIs
<1>2. /\ e.acc \in Seq(Nat) /\ e.buf \in Seq(Nat) /\ e.want \in Nat /\ e.requests \in Nat
      /\ p.records \in Seq(Seq(Nat)) /\ e.decrypted \in 0..Len(p.records) /\ Len(e.buf) \in Nat
  BY <1>1 DEF StreamTypes
<1>3. e.acc \o e.buf \in Seq(Nat)
  BY <1>2, FrontOfConcat
<1>4. f.want \in Nat /\ f.decrypted \in 0..Len(p.records)
  <2>1. PICK l, d, w, b : l = Len(p.records) /\ d = e.decrypted /\ w = e.want /\ b = Len(e.buf)
    OBVIOUS
  <2>2. l \in Nat /\ d \in 0..l /\ w \in Nat /\ b \in Nat /\ b < w
    BY <1>2, <2>1
  <2>3. w - b \in Nat /\ d..l \subseteq 0..l
    BY <2>2
  <2>4. f.want = w - b /\ f.decrypted \in d..l
    BY <2>1
  <2>5. QED
    BY <2>1, <2>3, <2>4
<1>5. StreamTypes(k, f, p, m)
  BY <1>1, <1>2, <1>3, <1>4 DEF StreamTypes
<1>6. Len(p.records) - f.decrypted <= 2 /\ Len(f.buf) <= f.want /\ f.val \in Values /\ f.requests # 0
  <2>1. Len(p.records) - e.decrypted <= 2 /\ e.val \in Values /\ e.requests # 0
    BY <1>1 DEF ReadingIs
  <2>2. PICK l, d, g : l = Len(p.records) /\ d = e.decrypted /\ g = f.decrypted
    OBVIOUS
  <2>3. l \in Nat /\ d \in 0..l /\ g \in d..l /\ l - d <= 2
    BY <1>2, <2>1, <2>2
  <2>4. l - g <= 2
    BY <2>3
  <2>5. QED
    BY <2>1, <2>2, <2>4
<1>7. PICK behind, rest : behind = Behind(k, e, p, n) /\ rest = Behind(k, f, p, m)
  OBVIOUS
<1>8. behind \in Seq(Nat) /\ rest \in Seq(Nat) /\ behind = chunk \o rest
  BY <1>1, <1>5, <1>6, <1>7, BehindType DEF ReadingIs
<1>9. PICK acc, buf, want : acc = e.acc /\ buf = e.buf /\ want = e.want
  OBVIOUS
<1>10. Progress(e.val, e.got, want, acc, acc \o (buf \o behind))
  BY <1>1, <1>7, <1>9 DEF ReadingIs
<1>11. Progress(e.val, e.got, want - Len(buf), acc \o buf, (acc \o buf) \o behind)
  BY <1>2, <1>8, <1>9, <1>10, RefillProgress
<1>12. Progress(f.val, f.got, f.want, f.acc, f.acc \o (f.buf \o rest))
  BY <1>8, <1>9, <1>11
<1>13. ReadingIs(k, f, p, m)
  BY <1>6, <1>7, <1>12 DEF ReadingIs
<1>14. QED
  BY <1>5, <1>13 DEF StreamIs

\* What a step that takes the wanted bytes starts from.
LEMMA Taken ==
  ASSUME NEW k, NEW e, NEW p, NEW n, StreamIs(k, e, p, n), e.pc = "reading", Len(e.buf) >= e.want
  PROVE  /\ Len(e.buf) = e.want /\ SubSeq(e.buf, 1, e.want) = e.buf
         /\ SubSeq(e.buf, e.want + 1, Len(e.buf)) = << >>
         /\ e.acc \o e.buf \in Seq(Nat)
         /\ Behind(k, e, p, n) \in Seq(Nat)
<1>1. StreamTypes(k, e, p, n) /\ ReadingIs(k, e, p, n)
  BY DEF StreamIs
<1>2. PICK acc, buf, want : acc = e.acc /\ buf = e.buf /\ want = e.want
  OBVIOUS
<1>3. acc \in Seq(Nat) /\ buf \in Seq(Nat) /\ want \in Nat /\ Len(buf) \in Nat /\ Len(buf) <= want
  BY <1>1, <1>2 DEF StreamTypes, ReadingIs
<1>4. Len(buf) = want
  BY <1>2, <1>3
<1>5. SubSeq(buf, 1, want) = buf
  BY <1>3, <1>4
<1>6. SubSeq(buf, want + 1, Len(buf)) = << >>
  BY <1>3, <1>4
<1>7. acc \o buf \in Seq(Nat)
  BY <1>3, FrontOfConcat
<1>8. Behind(k, e, p, n) \in Seq(Nat)
  BY <1>1, BehindType DEF ReadingIs
<1>9. QED
  BY <1>2, <1>4, <1>5, <1>6, <1>7, <1>8

\* No record is left when no byte is behind.
LEMMA NothingBehind ==
  ASSUME NEW k, NEW e, NEW p, NEW n, StreamTypes(k, e, p, n), Len(p.records) - e.decrypted <= 2,
         Behind(k, e, p, n) = << >>
  PROVE  /\ e.plain = << >> /\ e.decrypted = Len(p.records)
         /\ k # "schannel" => n = << >>
<1>1. CASE k = "schannel"
  <2>1. PICK r, d, plain : r = p.records /\ d = e.decrypted /\ plain = e.plain
    OBVIOUS
  <2>2. /\ r \in Seq(Seq(Nat)) /\ d \in 0..Len(r) /\ Len(r) - d <= 2 /\ Len(r) \in Nat
        /\ plain \in Seq(Nat)
        /\ r # << >> => r[Len(r)] # << >>
    BY <2>1 DEF StreamTypes
  <2>3. PICK left : left = Len(r) - d
    OBVIOUS
  <2>4. d \in Nat /\ left \in {0, 1, 2} /\ d + left <= Len(r) /\ d + left = Len(r)
    BY <2>2, <2>3
  <2>5. PICK x : x = Join(r, d, left)
    OBVIOUS
  <2>6. x \in Seq(Nat)
    BY <2>2, <2>4, <2>5, JoinIs
  <2>7. plain \o x = << >>
    BY <1>1, <2>1, <2>3, <2>5 DEF Behind
  <2>8. Len(plain \o x) = Len(plain) + Len(x)
    BY <2>2, <2>6, FrontOfConcat
  <2>9. plain = << >> /\ x = << >>
    BY <2>2, <2>6, <2>7, <2>8
  <2>10. left # 1
    <3> SUFFICES ASSUME left = 1 PROVE FALSE
      OBVIOUS
    <3>0. d + 1 = Len(r) /\ r # << >>
      BY <2>2, <2>4
    <3>a. x = r[d + 1]
      BY <2>2, <2>4, <2>5, JoinIs
    <3>1. x = r[Len(r)] /\ r # << >>
      BY <3>0, <3>a
    <3>2. QED
      BY <2>2, <2>9, <3>1
  <2>11. left # 2
    <3> SUFFICES ASSUME left = 2 PROVE FALSE
      OBVIOUS
    <3>1. x = r[d + 1] \o r[d + 2]
      BY <2>2, <2>4, <2>5, JoinIs
    <3>2. d + 2 = Len(r) /\ r # << >> /\ d + 1 \in 1..Len(r) /\ d + 2 \in 1..Len(r)
      BY <2>2, <2>4
    <3>3. r[d + 1] \in Seq(Nat) /\ r[d + 2] \in Seq(Nat) /\ r[d + 2] # << >>
      BY <2>2, <3>2
    <3>4. Len(r[d + 1] \o r[d + 2]) = Len(r[d + 1]) + Len(r[d + 2])
      BY <3>3, FrontOfConcat
    <3>5. PICK a, b : a = r[d + 1] /\ b = r[d + 2]
      OBVIOUS
    <3>6. a \in Seq(Nat) /\ b \in Seq(Nat) /\ Len(b) # 0 /\ Len(a) \in Nat /\ Len(b) \in Nat
      BY <3>3, <3>5
    <3>7. Len(x) = Len(a) + Len(b)
      BY <3>1, <3>4, <3>5
    <3>8. Len(x) = 0
      BY <2>9
    <3>9. PICK i \in Nat, j \in Nat : i = Len(a) /\ j = Len(b) /\ j # 0 /\ 0 = i + j
      BY <3>6, <3>7, <3>8
    <3>10. QED
      BY <3>9
  <2>12. QED
    BY <1>1, <2>1, <2>2, <2>3, <2>4, <2>9, <2>10, <2>11
<1>2. CASE k # "schannel"
  BY <1>2 DEF Behind, StreamTypes
<1>3. QED
  BY <1>1, <1>2

\* A step that takes the wanted bytes: the array is complete, or the next byte or part of
\* the answer is read.
LEMMA TakeKeepsStream ==
  ASSUME IntegersAgree,
         NEW k, NEW e, NEW p, NEW n, StreamIs(k, e, p, n), e.pc = "reading", Len(e.buf) >= e.want,
         NEW bytes, bytes = e.acc \o e.buf,
         NEW f, f.val = e.val, f.requests = e.requests, f.plain = e.plain,
         f.decrypted = e.decrypted, f.buf = << >>,
         \/ /\ Len(e.got) = 2 /\ f.got = << Head(e.got), bytes >> /\ f.acc = << >> /\ f.want = 0
            /\ f.pc = "open"
         \/ /\ Len(e.got) # 2 /\ More(bytes) /\ f.got = e.got /\ f.acc = bytes /\ f.want = 1
            /\ f.pc = "reading"
         \/ /\ Len(e.got) = 0 /\ ~More(bytes) /\ f.got = << << readVInt(bytes) >> >> /\ f.acc = << >>
            /\ f.want = 1 /\ f.pc = "reading"
         \/ /\ Len(e.got) = 1 /\ ~More(bytes) /\ f.got = Append(e.got, << >>) /\ f.acc = << >>
            /\ f.want = readVInt(bytes) /\ f.pc = "reading"
  PROVE  StreamIs(k, f, p, n)
<1>1. StreamTypes(k, e, p, n) /\ ReadingIs(k, e, p, n)
  BY DEF StreamIs
<1>2. PICK behind : behind = Behind(k, e, p, n)
  OBVIOUS
<1>3. behind \in Seq(Nat) /\ bytes \in Seq(Nat) /\ Len(e.buf) = e.want
  BY <1>2, Taken
<1>4. Behind(k, f, p, n) = behind
  BY <1>2 DEF Behind
<1>5. PICK v, got, acc, buf, want, b :
        /\ v = e.val /\ got = e.got /\ acc = e.acc /\ buf = e.buf /\ want = e.want /\ b = bytes
  OBVIOUS
<1>6. /\ v \in Values /\ want \in Nat /\ acc \in Seq(Nat) /\ buf \in Seq(Nat)
      /\ Len(buf) = want /\ b = acc \o buf
      /\ Progress(v, got, want, acc, acc \o (buf \o behind))
  BY <1>1, <1>2, <1>3, <1>5 DEF StreamTypes, ReadingIs
<1>7. Completes(v, got, bytes, behind)
  <2>1. Completes(v, got, acc \o buf, behind)
    BY <1>3, <1>6, TakeProgress
  <2>2. QED
    BY <1>5, <1>6, <2>1
<1>8. /\ << >> \in Seq(Nat) /\ Len(<< >>) = 0 /\ << >> \o behind = behind
      /\ ArraySize \in Nat /\ 0 <= ArraySize /\ 0 \in Nat /\ 1 \in Nat /\ 0 <= 1
  BY <1>3, ConnectionAssumption
<1>9. << >> \o (<< >> \o behind) = behind
  BY <1>8
<1>10. Len(p.records) - f.decrypted <= 2 /\ f.val \in Values /\ f.requests # 0
  BY <1>1 DEF ReadingIs
<1>11. CASE Len(e.got) = 2 /\ f.got = << Head(e.got), bytes >> /\ f.acc = << >> /\ f.want = 0 /\ f.pc = "open"
  <2>1. got = << << v >>, << >> >> /\ bytes = ArrayData /\ behind = << >>
    BY <1>5, <1>7, <1>11 DEF Completes
  <2>2. Head(got) = << v >>
    BY <2>1
  <2>3. f.got = Answer(f.val)
    BY <1>5, <1>11, <2>1, <2>2 DEF Answer
  <2>4. StreamTypes(k, f, p, n)
    BY <1>1, <1>8, <1>11 DEF StreamTypes
  <2>5. /\ f.plain = << >> /\ f.decrypted = Len(p.records)
        /\ k # "schannel" => n = << >>
    BY <1>4, <1>10, <2>1, <2>4, NothingBehind
  <2>6. Quiet(k, f, p, n)
    BY <1>11, <2>5 DEF Quiet
  <2>7. QED
    BY <1>10, <1>11, <2>3, <2>4, <2>6 DEF StreamIs
<1>12. CASE Len(e.got) # 2 /\ More(bytes) /\ f.got = e.got /\ f.acc = bytes /\ f.want = 1 /\ f.pc = "reading"
  <2>1. Progress(f.val, f.got, f.want, f.acc, f.acc \o (f.buf \o behind))
    BY <1>5, <1>7, <1>8, <1>12 DEF Completes
  <2>2. StreamTypes(k, f, p, n)
    BY <1>1, <1>3, <1>8, <1>12 DEF StreamTypes
  <2>3. ReadingIs(k, f, p, n)
    BY <1>4, <1>8, <1>10, <1>12, <2>1 DEF ReadingIs
  <2>4. QED
    BY <1>12, <2>2, <2>3 DEF StreamIs
<1>13. CASE Len(e.got) = 0 /\ ~More(bytes) /\ f.got = << << readVInt(bytes) >> >> /\ f.acc = << >> /\ f.want = 1 /\ f.pc = "reading"
  <2>1. Progress(f.val, f.got, f.want, f.acc, f.acc \o (f.buf \o behind))
    BY <1>5, <1>7, <1>9, <1>13 DEF Completes
  <2>2. StreamTypes(k, f, p, n)
    BY <1>1, <1>8, <1>13 DEF StreamTypes
  <2>3. ReadingIs(k, f, p, n)
    BY <1>4, <1>8, <1>10, <1>13, <2>1 DEF ReadingIs
  <2>4. QED
    BY <1>13, <2>2, <2>3 DEF StreamIs
<1>14. CASE Len(e.got) = 1 /\ ~More(bytes) /\ f.got = Append(e.got, << >>) /\ f.acc = << >> /\ f.want = readVInt(bytes) /\ f.pc = "reading"
  <2>1. got = << << v >> >> /\ f.want = ArraySize /\ Progress(v, << << v >>, << >> >>, ArraySize, << >>, behind)
    BY <1>5, <1>7, <1>14 DEF Completes
  <2>2. f.got = << << v >>, << >> >>
    <3>1. PICK x, y : x = << v >> /\ y = << >>
      OBVIOUS
    <3>2. Append(<< x >>, y) = << x, y >>
      <4>1. << x >> \in Seq({x, y}) /\ << x, y >> \in Seq({x, y}) /\ y \in {x, y}
        OBVIOUS
      <4>2. PICK s : s = Append(<< x >>, y)
        OBVIOUS
      <4>3. s \in Seq({x, y}) /\ Len(s) = 2 /\ s[1] = x /\ s[2] = y
        BY <4>1, <4>2
      <4>4. s = << x, y >>
        BY <4>1, <4>3
      <4>5. QED
        BY <4>2, <4>4
    <3>3. QED
      BY <1>5, <1>14, <2>1, <3>1, <3>2
  <2>3. Progress(f.val, f.got, f.want, f.acc, f.acc \o (f.buf \o behind))
    BY <1>5, <1>9, <1>14, <2>1, <2>2
  <2>4. StreamTypes(k, f, p, n)
    BY <1>1, <1>8, <1>14, <2>1 DEF StreamTypes
  <2>5. ReadingIs(k, f, p, n)
    BY <1>4, <1>8, <1>10, <1>14, <2>1, <2>3 DEF ReadingIs
  <2>6. QED
    BY <1>14, <2>4, <2>5 DEF StreamIs
<1>15. QED
  BY <1>11, <1>12, <1>13, <1>14

\* A request: nothing is on its way yet, or the whole answer is.
LEMMA FlushKeeps ==
  ASSUME IntegersAgree,
         NEW k, NEW e, NEW p, NEW n, StreamIs(k, e, p, n), e.pc = "open",
         NEW v \in Values,
         NEW f, f.pc = "reading", f.val = v, f.got = << >>, f.acc = << >>, f.want = 1,
         f.requests = e.requests + 1, f.buf = e.buf, f.plain = e.plain, f.decrypted = e.decrypted,
         NEW q, NEW m,
         \/ q.records = p.records /\ m = n
         \/ k = "schannel" /\ q.records = p.records \o << VInt(v), SizedArray >>
         \/ k # "schannel" /\ q.records = p.records /\ m = (n \o VInt(v)) \o SizedArray
  PROVE  StreamIs(k, f, q, m)
<1>1. /\ StreamTypes(k, e, p, n) /\ Quiet(k, e, p, n)
      /\ f.buf = << >> /\ f.plain = << >> /\ f.acc = << >>
  BY DEF StreamIs, Quiet
<1>2. /\ << >> \in Seq(Nat) /\ Len(<< >>) = 0 /\ << >> \o << >> = << >> /\ 1 \in Nat /\ 0 <= 1
  OBVIOUS
<1>3. f.requests \in Nat /\ f.requests # 0
  <2>1. PICK i : i = e.requests
    OBVIOUS
  <2>2. i \in Nat
    BY <1>1, <2>1 DEF StreamTypes
  <2>3. f.requests = i + 1
    BY <2>1
  <2>4. QED
    BY <2>2, <2>3
<1>4. PICK r : r = p.records
  OBVIOUS
<1>5. /\ r \in Seq(Seq(Nat)) /\ Len(r) \in Nat /\ f.decrypted = Len(r)
      /\ r # << >> => r[Len(r)] # << >>
      /\ k # "schannel" => n = << >> /\ r = << >>
  BY <1>1, <1>4 DEF StreamTypes, Quiet
<1>6. ASSUME NEW x, NEW y, StreamTypes(k, f, x, y), Len(x.records) - f.decrypted <= 2,
             \/ Behind(k, f, x, y) = << >>
             \/ Behind(k, f, x, y) = VInt(v) \o SizedArray
      PROVE  StreamIs(k, f, x, y)
  <2>1. PICK behind : behind = Behind(k, f, x, y)
    OBVIOUS
  <2>2. behind \in Seq(Nat)
    BY <1>6, <2>1, BehindType
  <2>3. << >> \o (<< >> \o behind) = behind
    BY <2>2
  <2>4. AllMore(<< >>)
    BY DEF AllMore
  <2>5. Progress(v, << >>, 1, << >>, behind)
    BY <1>6, <2>1, <2>4 DEF Progress
  <2>6. Progress(f.val, f.got, f.want, f.acc, f.acc \o (f.buf \o behind))
    BY <1>1, <2>3, <2>5
  <2>7. ReadingIs(k, f, x, y)
    BY <1>1, <1>2, <1>3, <1>6, <2>1, <2>6 DEF ReadingIs
  <2>8. QED
    BY <1>6, <2>7 DEF StreamIs
<1>7. CASE q.records = p.records /\ m = n
  <2>1. StreamTypes(k, f, q, m)
    BY <1>1, <1>2, <1>3, <1>7 DEF StreamTypes
  <2>2. Len(q.records) - f.decrypted = 0
    BY <1>4, <1>5, <1>7
  <2>3. Join(r, Len(r), 0) = << >>
    <3>1. PICK d : d = Len(r)
      OBVIOUS
    <3>2. d \in Nat /\ d + 0 <= Len(r) /\ 0 \in {0, 1, 2}
      BY <1>5, <3>1
    <3>3. Join(r, d, 0) = << >>
      BY <1>5, <3>2, JoinIs
    <3>4. QED
      BY <3>1, <3>3
  <2>4. Behind(k, f, q, m) = << >>
    BY <1>1, <1>2, <1>4, <1>5, <1>7, <2>2, <2>3 DEF Behind
  <2>5. QED
    BY <1>6, <2>1, <2>2, <2>4
<1>8. PICK a, b : a = VInt(v) /\ b = SizedArray
  OBVIOUS
<1>9. a \in Seq(Nat) /\ b \in Seq(Nat) /\ b # << >>
  BY <1>8, AnswerTypes
<1>10. CASE k = "schannel" /\ q.records = p.records \o << VInt(v), SizedArray >>
  <2>1. PICK s : s = r \o << a, b >>
    OBVIOUS
  <2>2. << a, b >> \in Seq(Seq(Nat)) /\ Len(<< a, b >>) = 2
    BY <1>9
  <2>3. /\ s \in Seq(Seq(Nat)) /\ Len(s) = Len(r) + 2 /\ s[Len(r) + 1] = a /\ s[Len(r) + 2] = b
    BY <1>5, <2>1, <2>2
  <2>4. Join(s, Len(r), 2) = a \o b
    <3>1. PICK d : d = Len(r)
      OBVIOUS
    <3>2. d \in Nat /\ d + 2 <= Len(s) /\ 2 \in {0, 1, 2} /\ s[d + 1] = a /\ s[d + 2] = b
      BY <1>5, <2>3, <3>1
    <3>3. Join(s, d, 2) = s[d + 1] \o s[d + 2]
      BY <2>3, <3>2, JoinIs
    <3>4. QED
      BY <3>1, <3>2, <3>3
  <2>5. q.records = s
    BY <1>4, <1>8, <1>10, <2>1
  <2>6. StreamTypes(k, f, q, m)
    <3>1. f.decrypted \in 0..Len(s) /\ s[Len(s)] = b
      BY <1>5, <2>3
    <3>2. QED
      BY <1>1, <1>2, <1>3, <1>9, <1>10, <2>3, <2>5, <3>1 DEF StreamTypes
  <2>7. Len(q.records) - f.decrypted = 2
    BY <1>5, <2>3, <2>5
  <2>8. Behind(k, f, q, m) = << >> \o (a \o b)
    BY <1>1, <1>5, <1>10, <2>4, <2>5, <2>7 DEF Behind
  <2>9. << >> \o (a \o b) = a \o b
    BY <1>9
  <2>10. QED
    BY <1>6, <1>8, <2>6, <2>7, <2>8, <2>9
<1>11. CASE k # "schannel" /\ q.records = p.records /\ m = (n \o VInt(v)) \o SizedArray
  <2>1. m = a \o b
    BY <1>5, <1>8, <1>9, <1>11
  <2>2. m \in Seq(Nat)
    BY <1>9, <2>1, FrontOfConcat
  <2>3. StreamTypes(k, f, q, m)
    BY <1>1, <1>2, <1>3, <1>11, <2>2 DEF StreamTypes
  <2>4. Len(q.records) - f.decrypted = 0
    BY <1>4, <1>5, <1>11
  <2>5. Behind(k, f, q, m) = a \o b
    BY <1>11, <2>1 DEF Behind
  <2>6. QED
    BY <1>6, <1>8, <2>3, <2>4, <2>5
<1>12. QED
  BY <1>7, <1>10, <1>11

\* The invariant of the streams.
StreamOf(c) == StreamIs(Kind, conn[c], peer[c], net[c])
StreamInv == ShapeOK /\ \A c \in Conn : StreamOf(c)

\* A connection that is being made.
Prepared(e) ==
  /\ Shaped(e) /\ Unused(e) /\ e.pc \notin {"reading", "broken"}
  /\ e.pc \in {"setup", "credentials", "dial", "hello", "recv", "handshake"} => Kind = "schannel"

\* It may learn about its socket and its security.
LEMMA PreparedField ==
  ASSUME NEW e, Prepared(e), NEW x,
         NEW f \in {"addr", "preferred", "fd", "tls", "token", "cb", "verified", "r", "steps",
                    "timeout", "recvBuff"}
  PROVE  Prepared([e EXCEPT ![f] = x])
<1>1. Shaped([e EXCEPT ![f] = x])
  BY ShapedExcept DEF Prepared
<1>2. \A g \in {"acc", "buf", "plain", "got", "decrypted", "requests", "want", "pc"} :
        g # f /\ g \in DOMAIN e
  BY DEF Prepared, Shaped, Fresh
<1>3. \A g \in {"acc", "buf", "plain", "got", "decrypted", "requests", "want", "pc"} :
        [e EXCEPT ![f] = x][g] = e[g]
  BY <1>2 DEF Prepared, Shaped
<1>4. QED
  BY <1>1, <1>3 DEF Prepared, Unused

\* And go on.
LEMMA PreparedGoto ==
  ASSUME NEW e, Prepared(e), NEW l, l \notin {"reading", "broken"},
         l \in {"setup", "credentials", "dial", "hello", "recv", "handshake"} => Kind = "schannel"
  PROVE  Prepared([e EXCEPT !.pc = l])
<1>1. Shaped([e EXCEPT !.pc = l])
  BY ShapedExcept DEF Prepared
<1>2. "pc" \in DOMAIN e
  BY DEF Prepared, Shaped, Fresh
<1>3. /\ [e EXCEPT !.pc = l].pc = l
      /\ \A g \in {"acc", "buf", "plain", "got", "decrypted", "requests", "want"} :
           [e EXCEPT !.pc = l][g] = e[g]
  BY <1>2 DEF Prepared, Shaped, Fresh
<1>4. QED
  BY <1>1, <1>3 DEF Prepared, Unused

\* A new one, and one that could not be made.
LEMMA PreparedFresh == Prepared(Fresh) /\ Prepared([Fresh EXCEPT !.pc = "failed"])
<1>1. Prepared(Fresh)
  BY DEF Prepared, Shaped, Unused, Fresh
<1>2. QED
  BY <1>1, PreparedGoto

\* Its stream is what it has to be.
LEMMA PreparedStream ==
  ASSUME ShapeOK, NEW c \in Conn, NEW e, Prepared(e), Becomes(c, e), Kind' = Kind,
         peer'[c].records = << >>, Kind # "schannel" => net'[c] = << >>
  PROVE  StreamOf(c)'
<1>1. conn'[c] = e
  BY DEF ShapeOK, Becomes
<1>2. StreamIs(Kind, e, peer'[c], net'[c])
  <2>1. PICK p, n : p = peer'[c] /\ n = net'[c]
    OBVIOUS
  <2>2. StreamIs(Kind, e, p, n)
    BY <2>1, UnusedStream DEF Prepared
  <2>3. QED
    BY <2>1, <2>2
<1>3. QED
  BY <1>1, <1>2 DEF StreamOf

\* Every step before the first request.
LEMMA PreparingKeeps ==
  ASSUME NEW c \in Conn, StreamInv, UNCHANGED <<platform, security>>,
         \/ makeObject(c)
         \/ attemptConnect(c)
         \/ connectToHost(c)
         \/ SSL_connect(c)
         \/ setTimeout(c)
         \/ setupCertStoreServer(c)
         \/ setupCertClient(c)
         \/ connectToServer(c)
         \/ performClientHandshake(c)
         \/ handshakeRecv(c)
         \/ clientHandshakeLoop(c)
         \/ connectEnds(c)
         \/ AuthMechListOperation(c)
         \/ saslStart(c)
         \/ saslStartWindows(c)
         \/ saslStep(c)
         \/ AuthOperation(c)
         \/ destroyObject(c)
         \/ forget(c)
  PROVE  StreamOf(c)'
<1>0. /\ ShapeOK /\ Shaped(conn[c]) /\ StreamIs(Kind, conn[c], peer[c], net[c])
      /\ c \in DOMAIN peer /\ c \in DOMAIN net
  BY DEF StreamInv, StreamOf, ShapeOK
<1>a. Kind' = Kind
  BY DEF Kind
<1>b. ASSUME conn[c].pc \notin {"open", "reading", "broken"}
      PROVE  /\ Prepared(conn[c]) /\ peer[c].records = << >>
             /\ Kind # "schannel" => net[c] = << >>
  BY <1>0, <1>b DEF StreamIs, Prepared, Quiet
<1>1. CASE makeObject(c)
  <2>1. /\ Prepared(conn[c]) /\ peer'[c].records = << >>
        /\ Kind # "schannel" => net[c] = << >>
    BY <1>b, <1>1 DEF makeObject, At
  <2>2. PICK e : Prepared(e) /\ Becomes(c, e)
    BY <1>0, <1>1, <2>1, PreparedField, PreparedGoto, PreparedFresh DEF makeObject, Goto
  <2>3. Kind # "schannel" => net'[c] = << >>
    BY <1>0, <1>1, <2>1 DEF makeObject, Goto
  <2>4. QED
    BY <1>0, <1>a, <2>1, <2>2, <2>3, PreparedStream
<1>2. CASE attemptConnect(c)
  <2>1. /\ Prepared(conn[c]) /\ peer'[c].records = << >>
        /\ Kind # "schannel" => net[c] = << >>
    BY <1>b, <1>2 DEF attemptConnect, At
  <2>2. PICK e : Prepared(e) /\ Becomes(c, e)
    BY <1>0, <1>2, <2>1, PreparedField, PreparedGoto, PreparedFresh DEF attemptConnect, Connected
  <2>3. Kind # "schannel" => net'[c] = << >>
    BY <1>0, <1>2, <2>1 DEF attemptConnect, Connected
  <2>4. QED
    BY <1>0, <1>a, <2>1, <2>2, <2>3, PreparedStream
<1>3. CASE connectToHost(c)
  <2>1. /\ Prepared(conn[c]) /\ peer'[c].records = << >>
        /\ Kind # "schannel" => net[c] = << >>
    BY <1>b, <1>3 DEF connectToHost, At
  <2>2. PICK e : Prepared(e) /\ Becomes(c, e)
    BY <1>0, <1>3, <2>1, PreparedField, PreparedGoto, PreparedFresh DEF connectToHost, Throw
  <2>3. Kind # "schannel" => net'[c] = << >>
    BY <1>0, <1>3, <2>1 DEF connectToHost, Throw
  <2>4. QED
    BY <1>0, <1>a, <2>1, <2>2, <2>3, PreparedStream
<1>4. CASE SSL_connect(c)
  <2>1. /\ Prepared(conn[c]) /\ peer'[c].records = << >>
        /\ Kind # "schannel" => net[c] = << >>
    BY <1>b, <1>4 DEF SSL_connect, At
  <2>2. PICK e : Prepared(e) /\ Becomes(c, e)
    BY <1>0, <1>4, <2>1, PreparedField, PreparedGoto, PreparedFresh DEF SSL_connect, Throw
  <2>3. Kind # "schannel" => net'[c] = << >>
    BY <1>0, <1>4, <2>1 DEF SSL_connect, Throw
  <2>4. QED
    BY <1>0, <1>a, <2>1, <2>2, <2>3, PreparedStream
<1>5. CASE setTimeout(c)
  <2>1. /\ Prepared(conn[c]) /\ peer'[c].records = << >>
        /\ Kind # "schannel" => net[c] = << >>
    BY <1>b, <1>5 DEF setTimeout, At
  <2>2. PICK e : Prepared(e) /\ Becomes(c, e)
    BY <1>0, <1>5, <2>1, PreparedField, PreparedGoto, PreparedFresh DEF setTimeout, Throw
  <2>3. Kind # "schannel" => net'[c] = << >>
    BY <1>0, <1>5, <2>1 DEF setTimeout, Throw
  <2>4. QED
    BY <1>0, <1>a, <2>1, <2>2, <2>3, PreparedStream
<1>6. CASE setupCertStoreServer(c)
  <2>1. /\ Prepared(conn[c]) /\ peer'[c].records = << >>
        /\ Kind # "schannel" => net[c] = << >>
    BY <1>b, <1>6 DEF setupCertStoreServer, At
  <2>a. Kind = "schannel"
    BY <2>1, <1>6 DEF setupCertStoreServer, At, Prepared
  <2>2. PICK e : Prepared(e) /\ Becomes(c, e)
    BY <1>0, <1>6, <2>1, <2>a, PreparedField, PreparedGoto, PreparedFresh DEF setupCertStoreServer, Goto, Throw
  <2>3. Kind # "schannel" => net'[c] = << >>
    BY <2>a
  <2>4. QED
    BY <1>0, <1>a, <2>1, <2>2, <2>3, PreparedStream
<1>7. CASE setupCertClient(c)
  <2>1. /\ Prepared(conn[c]) /\ peer'[c].records = << >>
        /\ Kind # "schannel" => net[c] = << >>
    BY <1>b, <1>7 DEF setupCertClient, At
  <2>a. Kind = "schannel"
    BY <2>1, <1>7 DEF setupCertClient, At, Prepared
  <2>2. PICK e : Prepared(e) /\ Becomes(c, e)
    BY <1>0, <1>7, <2>1, <2>a, PreparedField, PreparedGoto, PreparedFresh DEF setupCertClient, Goto, Throw
  <2>3. Kind # "schannel" => net'[c] = << >>
    BY <2>a
  <2>4. QED
    BY <1>0, <1>a, <2>1, <2>2, <2>3, PreparedStream
<1>8. CASE connectToServer(c)
  <2>1. /\ Prepared(conn[c]) /\ peer'[c].records = << >>
        /\ Kind # "schannel" => net[c] = << >>
    BY <1>b, <1>8 DEF connectToServer, At
  <2>a. Kind = "schannel"
    BY <2>1, <1>8 DEF connectToServer, At, Prepared
  <2>2. PICK e : Prepared(e) /\ Becomes(c, e)
    BY <1>0, <1>8, <2>1, <2>a, PreparedField, PreparedGoto, PreparedFresh DEF connectToServer
  <2>3. Kind # "schannel" => net'[c] = << >>
    BY <2>a
  <2>4. QED
    BY <1>0, <1>a, <2>1, <2>2, <2>3, PreparedStream
<1>9. CASE performClientHandshake(c)
  <2>1. /\ Prepared(conn[c]) /\ peer'[c].records = << >>
        /\ Kind # "schannel" => net[c] = << >>
    BY <1>b, <1>9 DEF performClientHandshake, At
  <2>a. Kind = "schannel"
    BY <2>1, <1>9 DEF performClientHandshake, At, Prepared
  <2>2. PICK e : Prepared(e) /\ Becomes(c, e)
    BY <1>0, <1>9, <2>1, <2>a, PreparedField, PreparedGoto, PreparedFresh DEF performClientHandshake, Goto
  <2>3. Kind # "schannel" => net'[c] = << >>
    BY <2>a
  <2>4. QED
    BY <1>0, <1>a, <2>1, <2>2, <2>3, PreparedStream
<1>10. CASE handshakeRecv(c)
  <2>1. /\ Prepared(conn[c]) /\ peer'[c].records = << >>
        /\ Kind # "schannel" => net[c] = << >>
    BY <1>b, <1>10 DEF handshakeRecv, At
  <2>a. Kind = "schannel"
    BY <2>1, <1>10 DEF handshakeRecv, At, Prepared
  <2>2. PICK e : Prepared(e) /\ Becomes(c, e)
    BY <1>0, <1>10, <2>1, <2>a, PreparedField, PreparedGoto, PreparedFresh DEF handshakeRecv
  <2>3. Kind # "schannel" => net'[c] = << >>
    BY <2>a
  <2>4. QED
    BY <1>0, <1>a, <2>1, <2>2, <2>3, PreparedStream
<1>11. CASE clientHandshakeLoop(c)
  <2>1. /\ Prepared(conn[c]) /\ peer'[c].records = << >>
        /\ Kind # "schannel" => net[c] = << >>
    BY <1>b, <1>11 DEF clientHandshakeLoop, At
  <2>a. Kind = "schannel"
    BY <2>1, <1>11 DEF clientHandshakeLoop, At, Prepared
  <2>2. PICK e : Prepared(e) /\ Becomes(c, e)
    BY <1>0, <1>11, <2>1, <2>a, PreparedField, PreparedGoto, PreparedFresh DEF clientHandshakeLoop, Goto
  <2>3. Kind # "schannel" => net'[c] = << >>
    BY <2>a
  <2>4. QED
    BY <1>0, <1>a, <2>1, <2>2, <2>3, PreparedStream
<1>12. CASE connectEnds(c)
  <2>1. /\ Prepared(conn[c]) /\ peer'[c].records = << >>
        /\ Kind # "schannel" => net[c] = << >>
    BY <1>b, <1>12 DEF connectEnds, At
  <2>2. PICK e : Prepared(e) /\ Becomes(c, e)
    BY <1>0, <1>12, <2>1, PreparedField, PreparedGoto, PreparedFresh DEF connectEnds, Throw
  <2>3. Kind # "schannel" => net'[c] = << >>
    BY <1>0, <1>12, <2>1 DEF connectEnds, Throw
  <2>4. QED
    BY <1>0, <1>a, <2>1, <2>2, <2>3, PreparedStream
<1>13. CASE AuthMechListOperation(c)
  <2>1. /\ Prepared(conn[c]) /\ peer'[c].records = << >>
        /\ Kind # "schannel" => net[c] = << >>
    BY <1>b, <1>13 DEF AuthMechListOperation, At
  <2>2. PICK e : Prepared(e) /\ Becomes(c, e)
    BY <1>0, <1>13, <2>1, PreparedField, PreparedGoto, PreparedFresh DEF AuthMechListOperation, Goto, Leak
  <2>3. Kind # "schannel" => net'[c] = << >>
    BY <1>0, <1>13, <2>1 DEF AuthMechListOperation, Goto, Leak
  <2>4. QED
    BY <1>0, <1>a, <2>1, <2>2, <2>3, PreparedStream
<1>14. CASE saslStart(c)
  <2>1. /\ Prepared(conn[c]) /\ peer'[c].records = << >>
        /\ Kind # "schannel" => net[c] = << >>
    BY <1>b, <1>14 DEF saslStart, At
  <2>2. PICK e : Prepared(e) /\ Becomes(c, e)
    BY <1>0, <1>14, <2>1, PreparedField, PreparedGoto, PreparedFresh DEF saslStart, Goto, Leak
  <2>3. Kind # "schannel" => net'[c] = << >>
    BY <1>0, <1>14, <2>1 DEF saslStart, Goto, Leak
  <2>4. QED
    BY <1>0, <1>a, <2>1, <2>2, <2>3, PreparedStream
<1>15. CASE saslStartWindows(c)
  <2>1. /\ Prepared(conn[c]) /\ peer'[c].records = << >>
        /\ Kind # "schannel" => net[c] = << >>
    BY <1>b, <1>15 DEF saslStartWindows, At
  <2>2. PICK e : Prepared(e) /\ Becomes(c, e)
    BY <1>0, <1>15, <2>1, PreparedField, PreparedGoto, PreparedFresh DEF saslStartWindows, Goto, Leak
  <2>3. Kind # "schannel" => net'[c] = << >>
    BY <1>0, <1>15, <2>1 DEF saslStartWindows, Goto, Leak
  <2>4. QED
    BY <1>0, <1>a, <2>1, <2>2, <2>3, PreparedStream
<1>16. CASE saslStep(c)
  <2>1. /\ Prepared(conn[c]) /\ peer'[c].records = << >>
        /\ Kind # "schannel" => net[c] = << >>
    BY <1>b, <1>16 DEF saslStep, At
  <2>2. PICK e : Prepared(e) /\ Becomes(c, e)
    BY <1>0, <1>16, <2>1, PreparedField, PreparedGoto, PreparedFresh DEF saslStep
  <2>3. Kind # "schannel" => net'[c] = << >>
    BY <1>0, <1>16, <2>1 DEF saslStep
  <2>4. QED
    BY <1>0, <1>a, <2>1, <2>2, <2>3, PreparedStream
<1>17. CASE AuthOperation(c)
  <2>1. /\ Prepared(conn[c]) /\ peer'[c].records = << >>
        /\ Kind # "schannel" => net[c] = << >>
    BY <1>b, <1>17 DEF AuthOperation, At
  <2>2. PICK e : Prepared(e) /\ Becomes(c, e)
    BY <1>0, <1>17, <2>1, PreparedField, PreparedGoto, PreparedFresh DEF AuthOperation, Goto, Leak
  <2>3. Kind # "schannel" => net'[c] = << >>
    BY <1>0, <1>17, <2>1 DEF AuthOperation, Goto, Leak
  <2>4. QED
    BY <1>0, <1>a, <2>1, <2>2, <2>3, PreparedStream
<1>18. CASE destroyObject(c)
  <2>1. Becomes(c, Fresh) /\ peer'[c].records = << >>
    BY <1>0, <1>18 DEF destroyObject, NoPeer
  <2>2. Kind # "schannel" => net'[c] = << >>
    BY <1>0, <1>b, <1>18 DEF destroyObject, At
  <2>3. QED
    BY <1>0, <1>a, <2>1, <2>2, PreparedFresh, PreparedStream
<1>19. CASE forget(c)
  <2>1. Becomes(c, Fresh) /\ peer'[c].records = << >>
    BY <1>0, <1>19 DEF forget, NoPeer
  <2>2. Kind # "schannel" => net'[c] = << >>
    BY <1>0, <1>b, <1>19 DEF forget, At
  <2>3. QED
    BY <1>0, <1>a, <2>1, <2>2, PreparedFresh, PreparedStream
<1>20. QED
  BY <1>1, <1>2, <1>3, <1>4, <1>5, <1>6, <1>7, <1>8, <1>9, <1>10, <1>11, <1>12, <1>13, <1>14, <1>15, <1>16, <1>17, <1>18, <1>19

\* The fields of the stream, and of the server's end, are there.
LEMMA StreamFields ==
  ASSUME NEW e, Shaped(e), NEW p, PeerShaped(p)
  PROVE  /\ {"pc", "val", "got", "want", "acc", "buf", "plain", "decrypted", "requests", "recvBuff"}
               \subseteq DOMAIN e
         /\ {"records", "asked", "eof"} \subseteq DOMAIN p
BY DEF Shaped, PeerShaped, Fresh, NoPeer

\* The stream of the connection that moved.
LEMMA MovedStream ==
  ASSUME ShapeOK, NEW c \in Conn, NEW f, Becomes(c, f), Kind' = Kind,
         StreamIs(Kind, f, peer'[c], net'[c])
  PROVE  StreamOf(c)'
<1>1. conn'[c] = f
  BY DEF ShapeOK, Becomes
<1>2. QED
  BY <1>1 DEF StreamOf

\* A connection that is broken or closed by the server.
LEMMA BrokenKeeps ==
  ASSUME NEW k, NEW e, NEW p, NEW n, StreamIs(k, e, p, n), Shaped(e),
         NEW f, f = [e EXCEPT !.pc = "broken"]
  PROVE  StreamIs(k, f, p, n)
<1>1. /\ f.pc = "broken" /\ f.acc = e.acc /\ f.buf = e.buf /\ f.plain = e.plain /\ f.want = e.want
      /\ f.requests = e.requests /\ f.decrypted = e.decrypted
  BY DEF Shaped, Fresh
<1>2. StreamTypes(k, f, p, n)
  BY <1>1 DEF StreamIs, StreamTypes
<1>3. QED
  BY <1>1, <1>2 DEF StreamIs

\* The server closes the connection: what it sent still arrives.
LEMMA ServerClosesKeeps ==
  ASSUME NEW c \in Conn, StreamInv, UNCHANGED <<platform, security>>, ServerCloses(c)
  PROVE  StreamOf(c)'
<1>1. /\ UNCHANGED <<conn, net>> /\ Kind' = Kind /\ c \in DOMAIN peer /\ PeerShaped(peer[c])
      /\ StreamIs(Kind, conn[c], peer[c], net[c])
      /\ peer' = [peer EXCEPT ![c].eof = TRUE]
  BY DEF ServerCloses, Kind, StreamInv, StreamOf, ShapeOK
<1>2. peer'[c].records = peer[c].records
  BY <1>1 DEF PeerShaped, NoPeer
<1>3. PICK k, e, p, q, n : k = Kind /\ e = conn[c] /\ p = peer[c] /\ q = peer'[c] /\ n = net[c]
  OBVIOUS
<1>4. StreamIs(k, e, p, n) /\ q.records = p.records
  BY <1>1, <1>2, <1>3
<1>5. StreamIs(k, e, q, n)
  BY <1>4 DEF StreamIs, StreamTypes, ReadingIs, Quiet, Behind
<1>6. QED
  BY <1>1, <1>3, <1>5 DEF StreamOf

\* OutputStream::flush.
LEMMA FlushStep ==
  ASSUME IntegersAgree, NEW c \in Conn, StreamInv, UNCHANGED <<platform, security>>,
         NEW v \in Values, flush(c, v)
  PROVE  StreamOf(c)'
<1>1. /\ ShapeOK /\ Kind' = Kind /\ c \in DOMAIN peer /\ c \in DOMAIN net
      /\ Shaped(conn[c]) /\ PeerShaped(peer[c])
      /\ StreamIs(Kind, conn[c], peer[c], net[c]) /\ conn[c].pc = "open"
  BY DEF flush, At, Kind, StreamInv, StreamOf, ShapeOK
<1>2. PICK e : e = conn[c]
  OBVIOUS
<1>3. PICK f : f = [e EXCEPT !.pc = "reading", !.val = v, !.got = << >>, !.acc = << >>,
                             !.want = 1, !.requests = e.requests + 1]
  OBVIOUS
<1>4. /\ {"pc", "val", "got", "want", "acc", "buf", "plain", "decrypted", "requests"} \subseteq DOMAIN e
      /\ {"records", "asked", "eof"} \subseteq DOMAIN peer[c]
  BY <1>1, <1>2, StreamFields
<1>5. /\ f.pc = "reading" /\ f.val = v /\ f.got = << >> /\ f.acc = << >> /\ f.want = 1
      /\ f.requests = e.requests + 1 /\ f.buf = e.buf /\ f.plain = e.plain
      /\ f.decrypted = e.decrypted
  BY <1>3, <1>4
<1>6. ServerReads(writeVInt[v]) = v
  BY CodecFacts
<1>7. \/ Becomes(c, f) /\ ServerAnswers(c, v)
      \/ Becomes(c, f) /\ UNCHANGED <<net, peer>>
      \/ Becomes(c, [e EXCEPT !.pc = "broken"]) /\ UNCHANGED <<net, peer>>
  BY <1>2, <1>3, <1>6 DEF flush, Goto
<1>8. CASE Becomes(c, f) /\ UNCHANGED <<net, peer>>
  <2>1. PICK k, p, n : k = Kind /\ p = peer[c] /\ n = net[c]
    OBVIOUS
  <2>2. StreamIs(k, e, p, n) /\ e.pc = "open"
    BY <1>1, <1>2, <2>1
  <2>3. StreamIs(k, f, p, n)
    BY <1>5, <2>2, FlushKeeps
  <2>4. QED
    BY <1>1, <1>8, <2>1, <2>3, MovedStream
<1>9. CASE Becomes(c, [e EXCEPT !.pc = "broken"]) /\ UNCHANGED <<net, peer>>
  <2>1. PICK k, p, n, g : k = Kind /\ p = peer[c] /\ n = net[c] /\ g = [e EXCEPT !.pc = "broken"]
    OBVIOUS
  <2>2. StreamIs(k, g, p, n)
    BY <1>1, <1>2, <2>1, BrokenKeeps
  <2>3. QED
    BY <1>1, <1>9, <2>1, <2>2, MovedStream
<1>10. CASE Becomes(c, f) /\ ServerAnswers(c, v)
  <2>1. Response(v)[1] = VInt(v) /\ Response(v)[2] = SizedArray /\ Response(v) = << VInt(v), SizedArray >>
    BY DEF Response, SizedArray
  <2>2. PICK k, p, n, q, m : k = Kind /\ p = peer[c] /\ n = net[c] /\ q = peer'[c] /\ m = net'[c]
    OBVIOUS
  <2>3. CASE k = "schannel"
    <3>1. peer' = [peer EXCEPT ![c] = [peer[c] EXCEPT !.asked = Append(peer[c].asked, v),
                                                     !.records = peer[c].records \o Response(v)]]
      <4>1. Kind = "schannel"
        BY <2>2, <2>3
      <4>2. QED
        BY <1>10, <4>1 DEF ServerAnswers
    <3>2. q.records = p.records \o Response(v)
      <4>1. PICK x, y : x = Append(peer[c].asked, v) /\ y = peer[c].records \o Response(v)
        OBVIOUS
      <4>2. peer'[c] = [peer[c] EXCEPT !.asked = x, !.records = y]
        BY <1>1, <3>1, <4>1
      <4>3. peer'[c].records = y
        BY <1>4, <4>2
      <4>4. QED
        BY <2>2, <4>1, <4>3
    <3>3. q.records = p.records \o << VInt(v), SizedArray >>
      BY <2>1, <3>2
    <3>4. StreamIs(k, e, p, n) /\ e.pc = "open"
      BY <1>1, <1>2, <2>2
    <3>5. StreamIs(k, f, q, m)
      BY <1>5, <2>3, <3>3, <3>4, FlushKeeps
    <3>6. QED
      BY <1>1, <1>10, <2>2, <3>5, MovedStream
  <2>4. CASE k # "schannel"
    <3>1. /\ peer' = [peer EXCEPT ![c].asked = Append(@, v)]
          /\ net' = [net EXCEPT ![c] = (net[c] \o VInt(v)) \o SizedArray]
      BY <1>10, <2>1, <2>2, <2>4 DEF ServerAnswers
    <3>2. q.records = p.records
      BY <1>1, <1>4, <2>2, <3>1
    <3>3. m = (n \o VInt(v)) \o SizedArray
      BY <1>1, <2>2, <3>1
    <3>4. StreamIs(k, e, p, n) /\ e.pc = "open"
      BY <1>1, <1>2, <2>2
    <3>5. StreamIs(k, f, q, m)
      BY <1>5, <2>4, <3>2, <3>3, <3>4, FlushKeeps
    <3>6. QED
      BY <1>1, <1>10, <2>2, <3>5, MovedStream
  <2>5. QED
    BY <2>3, <2>4
<1>11. QED
  BY <1>7, <1>8, <1>9, <1>10

\* The room in the caller's buffer.
LEMMA RoomIs ==
  ASSUME NEW c \in Conn, StreamTypes(Kind, conn[c], peer[c], net[c]), Len(conn[c].buf) < conn[c].want
  PROVE  Room(c) \in Nat /\ Room(c) <= conn[c].want - Len(conn[c].buf)
<1>1. conn[c].want \in Nat /\ Len(conn[c].buf) \in Nat
  BY DEF StreamTypes
<1>2. BufferSize \in Nat
  BY ConnectionAssumption
<1>3. PICK a : a = conn[c].want - Len(conn[c].buf)
  OBVIOUS
<1>4. a \in Nat
  BY <1>1, <1>3
<1>5. Min({a, BufferSize}) = IF a <= BufferSize THEN a ELSE BufferSize
  BY <1>2, <1>4, MinOfTwo
<1>6. Room(c) = Min({a, BufferSize})
  BY <1>3 DEF Room
<1>7. QED
  BY <1>2, <1>3, <1>4, <1>5, <1>6

\* Socket::read and SSLSocket::read.
LEMMA ReadStep ==
  ASSUME NEW c \in Conn, StreamInv, UNCHANGED <<platform, security>>, read(c)
  PROVE  StreamOf(c)'
<1>1. /\ ShapeOK /\ Kind' = Kind /\ c \in DOMAIN net /\ UNCHANGED peer
      /\ Shaped(conn[c]) /\ PeerShaped(peer[c])
      /\ StreamIs(Kind, conn[c], peer[c], net[c]) /\ conn[c].pc = "reading" /\ Kind # "schannel"
      /\ Len(conn[c].buf) < conn[c].want
  BY DEF read, At, Kind, StreamInv, StreamOf, ShapeOK
<1>2. PICK k, e, p, n : k = Kind /\ e = conn[c] /\ p = peer[c] /\ n = net[c]
  OBVIOUS
<1>3. /\ StreamIs(k, e, p, n) /\ e.pc = "reading" /\ k # "schannel" /\ Len(e.buf) < e.want
      /\ StreamTypes(k, e, p, n) /\ Shaped(e)
  BY <1>1, <1>2 DEF StreamIs
<1>4. CASE Goto(c, "broken") /\ UNCHANGED net
  <2>1. PICK f : f = [e EXCEPT !.pc = "broken"]
    OBVIOUS
  <2>2. StreamIs(k, f, p, n) /\ Becomes(c, f)
    BY <1>2, <1>3, <1>4, <2>1, BrokenKeeps DEF Goto
  <2>3. QED
    BY <1>1, <1>2, <1>4, <2>2, MovedStream
<1>5. ASSUME NEW i \in 1..Min({Room(c), Len(net[c])}), Becomes(c, Refill(c, SubSeq(net[c], 1, i))),
             net' = [net EXCEPT ![c] = SubSeq(@, i + 1, Len(@))]
      PROVE  StreamOf(c)'
  <2>1. Room(c) \in Nat /\ Room(c) <= e.want - Len(e.buf)
    BY <1>1, <1>2, <1>3, RoomIs
  <2>2. n \in Seq(Nat) /\ Len(n) \in Nat
    BY <1>3 DEF StreamTypes
  <2>3. i \in 0..Len(n) /\ i <= e.want - Len(e.buf)
    <3>1. PICK a, b : a = Room(c) /\ b = Len(n)
      OBVIOUS
    <3>a. a \in Nat /\ b \in Nat /\ i \in 1..Min({a, b})
      BY <1>2, <1>5, <2>1, <2>2, <3>1
    <3>b. Min({a, b}) = IF a <= b THEN a ELSE b
      BY <3>a, MinOfTwo
    <3>c. i \in Nat /\ i <= a /\ i <= b
      BY <3>a, <3>b
    <3>2. i \in Nat /\ i <= Room(c) /\ i <= Len(n)
      BY <3>1, <3>c
    <3>3. e.want \in Nat /\ Len(e.buf) \in Nat
      BY <1>3 DEF StreamTypes
    <3>4. QED
      BY <2>1, <2>2, <3>2, <3>3
  <2>4. PICK chunk, m : chunk = SubSeq(n, 1, i) /\ m = SubSeq(n, i + 1, Len(n))
    OBVIOUS
  <2>5. chunk \in Seq(Nat) /\ Len(chunk) = i /\ m \in Seq(Nat) /\ n = chunk \o m
    BY <2>2, <2>3, <2>4, CutSeq
  <2>6. PICK f : f = [e EXCEPT !.acc = e.acc \o e.buf, !.want = e.want - Len(e.buf), !.buf = chunk]
    OBVIOUS
  <2>7. Becomes(c, f) /\ net'[c] = m
    BY <1>1, <1>2, <1>5, <2>4, <2>6 DEF Refill
  <2>8. /\ f.pc = "reading" /\ f.val = e.val /\ f.got = e.got /\ f.requests = e.requests
        /\ f.acc = e.acc \o e.buf /\ f.want = e.want - Len(e.buf) /\ f.buf = chunk
        /\ f.plain = e.plain /\ f.decrypted = e.decrypted
    BY <1>3, <2>6 DEF Shaped, Fresh
  <2>9. /\ f.plain \in Seq(Nat) /\ f.plain = << >> /\ f.decrypted \in e.decrypted..Len(p.records)
    BY <1>3, <2>8 DEF StreamTypes
  <2>10. Behind(k, e, p, n) = chunk \o Behind(k, f, p, m)
    BY <1>3, <2>5 DEF Behind
  <2>11. StreamIs(k, f, p, m)
    BY <1>3, <2>3, <2>5, <2>8, <2>9, <2>10, ReadKeeps
  <2>12. QED
    BY <1>1, <1>2, <2>7, <2>11, MovedStream
<1>6. QED
  BY <1>4, <1>5 DEF read

\* Some decrypted bytes are handed out.
LEMMA DeliverIs ==
  ASSUME NEW c \in Conn, Shaped(conn[c]), StreamTypes(Kind, conn[c], peer[c], net[c]),
         Len(conn[c].buf) < conn[c].want, NEW data \in Seq(Nat)
  PROVE  \E chunk \in Seq(Nat), left \in Seq(Nat) :
           /\ Len(chunk) <= conn[c].want - Len(conn[c].buf) /\ chunk \o left = data
           /\ Deliver(c, data) = [conn[c] EXCEPT !.acc = conn[c].acc \o conn[c].buf,
                                                 !.want = conn[c].want - Len(conn[c].buf),
                                                 !.buf = chunk, !.plain = left]
<1>1. PICK room : room = Room(c)
  OBVIOUS
<1>2. room \in Nat /\ room <= conn[c].want - Len(conn[c].buf)
  BY <1>1, RoomIs
<1>a. PICK free : free = conn[c].want - Len(conn[c].buf)
  OBVIOUS
<1>3. PICK chunk, left : /\ chunk = SubSeq(data, 1, Min({room, Len(data)}))
                         /\ left = SubSeq(data, room + 1, Len(data))
  OBVIOUS
<1>4. /\ chunk \in Seq(Nat) /\ Len(chunk) <= room /\ left \in Seq(Nat) /\ chunk \o left = data
  BY <1>2, <1>3, Dealt
<1>5. Len(chunk) <= conn[c].want - Len(conn[c].buf)
  <2>1. conn[c].want \in Nat /\ Len(conn[c].buf) \in Nat
    BY DEF StreamTypes
  <2>2. free \in Int /\ room <= free
    BY <1>2, <1>a, <2>1
  <2>3. PICK l : l = Len(chunk)
    OBVIOUS
  <2>a. l \in Nat
    BY <1>4, <2>3
  <2>b. l <= room
    BY <1>4, <2>3
  <2>4. l <= free
    BY <1>2, <2>2, <2>a, <2>b
  <2>5. QED
    BY <1>a, <2>3, <2>4
<1>6. Deliver(c, data) = [[conn[c] EXCEPT !.acc = conn[c].acc \o conn[c].buf,
                                          !.want = conn[c].want - Len(conn[c].buf),
                                          !.buf = chunk] EXCEPT !.plain = left]
  BY <1>1, <1>3 DEF Deliver, Refill
<1>7. QED
  BY <1>4, <1>5, <1>6

\* readDecrypt finds some of the records that are left, however garbled the buffer is.
LEMMA WholeIs ==
  ASSUME NEW c \in Conn, NEW buffer, StreamTypes(Kind, conn[c], peer[c], net[c]),
         Len(peer[c].records) - conn[c].decrypted <= 2
  PROVE  Whole(c, buffer) \in 0..(Len(peer[c].records) - conn[c].decrypted)
<1>1. PICK left : left = Len(peer[c].records) - conn[c].decrypted
  OBVIOUS
<1>2. left \in Nat /\ left <= 2
  <2>1. PICK n, d : n = Len(peer[c].records) /\ d = conn[c].decrypted
    OBVIOUS
  <2>2. n \in Nat /\ d \in 0..n
    BY <2>1 DEF StreamTypes
  <2>3. left = n - d /\ n - d <= 2
    BY <1>1, <2>1
  <2>4. QED
    BY <2>2, <2>3
<1>3. PICK S : S = {i \in 0..left : i = 0 \/ IsPrefix(Cipher(c, i), buffer)}
  OBVIOUS
<1>4. S \subseteq 0..left /\ 0 \in S
  BY <1>2, <1>3
<1>6. \E x \in S : \A y \in S : x >= y
  <2>1. S \subseteq {0, 1, 2}
    BY <1>2, <1>4
  <2>2. CASE 2 \in S
    BY <2>1, <2>2
  <2>3. CASE 2 \notin S /\ 1 \in S
    BY <2>1, <2>3
  <2>4. CASE 2 \notin S /\ 1 \notin S
    BY <1>4, <2>1, <2>4
  <2>5. QED
    BY <2>2, <2>3, <2>4
<1>7. Max(S) \in S
  BY <1>6 DEF Max
<1>8. QED
  BY <1>1, <1>3, <1>4, <1>7 DEF Whole

\* SChannelSocket::read: whatever recv made of the buffer, a record is decrypted once or
\* never, and in its turn.
LEMMA SChannelReadStep ==
  ASSUME NEW c \in Conn, StreamInv, UNCHANGED <<platform, security>>, SChannelRead(c)
  PROVE  StreamOf(c)'
<1>1. /\ ShapeOK /\ Kind' = Kind /\ UNCHANGED peer
      /\ Shaped(conn[c])
      /\ StreamIs(Kind, conn[c], peer[c], net[c]) /\ conn[c].pc = "reading" /\ Kind = "schannel"
      /\ Len(conn[c].buf) < conn[c].want
  BY DEF SChannelRead, At, Kind, StreamInv, StreamOf, ShapeOK
<1>2. PICK k, e, p, n : k = Kind /\ e = conn[c] /\ p = peer[c] /\ n = net[c]
  OBVIOUS
<1>3. /\ StreamIs(k, e, p, n) /\ e.pc = "reading" /\ k = "schannel" /\ Len(e.buf) < e.want
      /\ StreamTypes(k, e, p, n) /\ ReadingIs(k, e, p, n) /\ Shaped(e)
  BY <1>1, <1>2 DEF StreamIs
<1>a. StreamTypes(Kind, conn[c], peer[c], net[c])
  BY <1>2, <1>3
<1>4. PICK r, d : r = p.records /\ d = e.decrypted
  OBVIOUS
<1>5. PICK left : left = Len(r) - d
  OBVIOUS
<1>6. /\ r \in Seq(Seq(Nat)) /\ d \in Nat /\ left \in {0, 1, 2} /\ d + left <= Len(r) /\ Len(r) \in Nat
      /\ e.plain \in Seq(Nat)
  <2>1. r \in Seq(Seq(Nat)) /\ d \in 0..Len(r) /\ e.plain \in Seq(Nat)
    BY <1>3, <1>4 DEF StreamTypes
  <2>2. Len(r) - d <= 2
    BY <1>3, <1>4 DEF ReadingIs
  <2>3. PICK l : l = Len(r)
    OBVIOUS
  <2>4. l \in Nat /\ d \in 0..l /\ l - d <= 2 /\ left = l - d
    BY <1>5, <2>1, <2>2, <2>3
  <2>5. d \in Nat /\ left \in {0, 1, 2} /\ d + left <= l
    BY <2>4
  <2>6. QED
    BY <2>1, <2>3, <2>4, <2>5
<1>7. ASSUME NEW chunk \in Seq(Nat), NEW rest \in Seq(Nat), NEW i \in 0..left, NEW m,
             Len(chunk) <= e.want - Len(e.buf),
             e.plain \o Join(r, d, left) = (chunk \o rest) \o Join(r, d + i, left - i),
             NEW f, f.pc = e.pc, f.val = e.val, f.got = e.got, f.requests = e.requests,
             f.acc = e.acc \o e.buf, f.want = e.want - Len(e.buf), f.buf = chunk,
             f.plain = rest, f.decrypted = e.decrypted + i
      PROVE  StreamIs(k, f, p, m)
  <2>1. /\ f.pc = "reading" /\ f.val = e.val /\ f.got = e.got /\ f.requests = e.requests
        /\ f.acc = e.acc \o e.buf /\ f.want = e.want - Len(e.buf) /\ f.buf = chunk
        /\ f.plain = rest /\ f.decrypted = e.decrypted + i
    BY <1>3, <1>7
  <2>2. f.decrypted \in e.decrypted..Len(p.records)
    <3>1. PICK l : l = Len(r)
      OBVIOUS
    <3>2. l \in Nat /\ d \in Nat /\ left = l - d /\ i \in 0..left
      BY <1>5, <1>6, <1>7, <3>1
    <3>3. d + i \in d..l
      BY <3>2
    <3>4. QED
      BY <1>4, <2>1, <3>1, <3>3
  <2>3. d + i \in Nat /\ left - i \in {0, 1, 2} /\ (d + i) + (left - i) <= Len(r)
    BY <1>6, <1>7
  <2>4. PICK y : y = Join(r, d + i, left - i)
    OBVIOUS
  <2>5. y \in Seq(Nat)
    BY <1>6, <2>3, <2>4, JoinIs
  <2>6. Len(r) - (d + i) = left - i
    BY <1>5, <1>6, <1>7
  <2>7. Behind(k, f, p, m) = rest \o y
    BY <1>3, <1>4, <2>1, <2>4, <2>6 DEF Behind
  <2>8. Behind(k, e, p, n) = (chunk \o rest) \o y
    BY <1>3, <1>4, <1>5, <1>7, <2>4 DEF Behind
  <2>9. chunk \o (rest \o y) = (chunk \o rest) \o y
    BY <2>5, Associate
  <2>10. Behind(k, e, p, n) = chunk \o Behind(k, f, p, m)
    BY <2>7, <2>8, <2>9
  <2>11. QED
    BY <1>3, <1>7, <2>1, <2>2, <2>10, ReadKeeps
<1>8. CASE conn[c].plain # << >> /\ Becomes(c, Deliver(c, conn[c].plain)) /\ UNCHANGED net
  <2>1. PICK chunk \in Seq(Nat), rest \in Seq(Nat) :
           /\ Len(chunk) <= e.want - Len(e.buf) /\ chunk \o rest = e.plain
           /\ Deliver(c, e.plain) = [e EXCEPT !.acc = e.acc \o e.buf, !.want = e.want - Len(e.buf),
                                              !.buf = chunk, !.plain = rest]
    <3>1. PICK data : data = e.plain
      OBVIOUS
    <3>2. data \in Seq(Nat)
      BY <1>6, <3>1
    <3>3. \E chunk \in Seq(Nat), rest \in Seq(Nat) :
            /\ Len(chunk) <= conn[c].want - Len(conn[c].buf) /\ chunk \o rest = data
            /\ Deliver(c, data) = [conn[c] EXCEPT !.acc = conn[c].acc \o conn[c].buf,
                                                  !.want = conn[c].want - Len(conn[c].buf),
                                                  !.buf = chunk, !.plain = rest]
      BY <1>1, <1>a, <3>2, DeliverIs
    <3>4. QED
      BY <1>2, <3>1, <3>3
  <2>2. PICK f : f = Deliver(c, e.plain)
    OBVIOUS
  <2>3. /\ f.pc = e.pc /\ f.val = e.val /\ f.got = e.got /\ f.requests = e.requests
        /\ f.acc = e.acc \o e.buf /\ f.want = e.want - Len(e.buf) /\ f.buf = chunk
        /\ f.plain = rest /\ f.decrypted = e.decrypted + 0
    BY <1>3, <1>4, <1>6, <2>1, <2>2 DEF Shaped, Fresh
  <2>4. 0 \in 0..left /\ d + 0 = d /\ left - 0 = left
    BY <1>6
  <2>5. StreamIs(k, f, p, n)
    BY <1>7, <2>1, <2>3, <2>4
  <2>6. QED
    BY <1>1, <1>2, <1>8, <2>2, <2>5, MovedStream
<1>9. ASSUME conn[c].plain = << >>, NEW buffer, Becomes(c, readDecrypt(c, buffer))
      PROVE  StreamOf(c)'
  <2>1. PICK i : i = Whole(c, buffer)
    OBVIOUS
  <2>2. i \in 0..left
    BY <1>1, <1>2, <1>3, <1>4, <1>5, <2>1, WholeIs DEF ReadingIs
  <2>3. PICK data : data = Join(r, d, i)
    OBVIOUS
  <2>4. i \in {0, 1, 2} /\ d + i <= Len(r)
    BY <1>6, <2>2
  <2>5. data \in Seq(Nat) /\ Join(r, d, left) = data \o Join(r, d + i, left - i)
    BY <1>6, <2>2, <2>3, <2>4, JoinIs, JoinSplits
  <2>6. Plain(c, i) = data
    BY <1>2, <1>4, <2>3 DEF Plain, Join
  <2>7. PICK chunk \in Seq(Nat), rest \in Seq(Nat) :
           /\ Len(chunk) <= e.want - Len(e.buf) /\ chunk \o rest = data
           /\ Deliver(c, data) = [e EXCEPT !.acc = e.acc \o e.buf, !.want = e.want - Len(e.buf),
                                           !.buf = chunk, !.plain = rest]
    <3>1. \E s \in Seq(Nat), t \in Seq(Nat) :
            /\ Len(s) <= conn[c].want - Len(conn[c].buf) /\ s \o t = data
            /\ Deliver(c, data) = [conn[c] EXCEPT !.acc = conn[c].acc \o conn[c].buf,
                                                  !.want = conn[c].want - Len(conn[c].buf),
                                                  !.buf = s, !.plain = t]
      BY <1>1, <1>a, <2>5, DeliverIs
    <3>2. QED
      BY <1>2, <3>1
  <2>8. PICK x : x = SubSeq(buffer, Len(Cipher(c, i)) + 1, Len(buffer))
    OBVIOUS
  <2>9. PICK f : f = readDecrypt(c, buffer)
    OBVIOUS
  <2>10. /\ f.pc = e.pc /\ f.val = e.val /\ f.got = e.got /\ f.requests = e.requests
         /\ f.acc = e.acc \o e.buf /\ f.want = e.want - Len(e.buf) /\ f.buf = chunk
         /\ f.plain = rest /\ f.decrypted = e.decrypted + i
    <3>1. PICK g : g = Deliver(c, data)
      OBVIOUS
    <3>2. f = [g EXCEPT !.recvBuff = x, !.decrypted = @ + i]
      BY <2>1, <2>6, <2>8, <2>9, <3>1 DEF readDecrypt
    <3>3. {"pc", "val", "got", "want", "acc", "buf", "plain", "decrypted", "requests", "recvBuff"}
            \subseteq DOMAIN e
      BY <1>3 DEF Shaped, Fresh
    <3>4. /\ g.pc = e.pc /\ g.val = e.val /\ g.got = e.got /\ g.requests = e.requests
          /\ g.acc = e.acc \o e.buf /\ g.want = e.want - Len(e.buf) /\ g.buf = chunk
          /\ g.plain = rest /\ g.decrypted = e.decrypted /\ DOMAIN g = DOMAIN e
      BY <2>7, <3>1, <3>3
    <3>5. QED
      BY <3>2, <3>3, <3>4
  <2>11. PICK y : y = Join(r, d + i, left - i)
    OBVIOUS
  <2>12. y \in Seq(Nat) /\ e.plain = << >> /\ data \o y \in Seq(Nat)
    <3>1. d + i \in Nat /\ left - i \in {0, 1, 2} /\ (d + i) + (left - i) <= Len(r)
      BY <1>6, <2>2
    <3>2. y \in Seq(Nat)
      BY <1>6, <2>11, <3>1, JoinIs
    <3>3. QED
      BY <1>2, <1>9, <2>5, <3>2
  <2>13. e.plain \o Join(r, d, left) = (chunk \o rest) \o y
    BY <2>5, <2>7, <2>11, <2>12
  <2>14. PICK m : m = net'[c]
    OBVIOUS
  <2>15. StreamIs(k, f, p, m)
    BY <1>7, <2>2, <2>7, <2>10, <2>11, <2>13
  <2>16. QED
    BY <1>1, <1>2, <1>9, <2>9, <2>14, <2>15, MovedStream
<1>10. QED
  BY <1>8, <1>9 DEF SChannelRead

\* readByte, readVInt and readArray.
LEMMA TakeStep ==
  ASSUME IntegersAgree, NEW c \in Conn, StreamInv, UNCHANGED <<platform, security>>, take(c)
  PROVE  StreamOf(c)'
<1>1. /\ ShapeOK /\ Kind' = Kind /\ UNCHANGED <<peer, net>>
      /\ Shaped(conn[c])
      /\ StreamIs(Kind, conn[c], peer[c], net[c]) /\ conn[c].pc = "reading"
      /\ Len(conn[c].buf) >= conn[c].want
  BY DEF take, At, Kind, StreamInv, StreamOf, ShapeOK
<1>2. PICK k, e, p, n : k = Kind /\ e = conn[c] /\ p = peer[c] /\ n = net[c]
  OBVIOUS
<1>3. /\ StreamIs(k, e, p, n) /\ e.pc = "reading" /\ Len(e.buf) >= e.want /\ Shaped(e)
  BY <1>1, <1>2
<1>4. /\ SubSeq(e.buf, 1, e.want) = e.buf /\ SubSeq(e.buf, e.want + 1, Len(e.buf)) = << >>
  BY <1>3, Taken
<1>5. PICK bytes, next : bytes = e.acc \o e.buf /\ next = [e EXCEPT !.buf = << >>, !.acc = << >>]
  OBVIOUS
<1>6. \/ /\ Len(e.got) = 2
         /\ Becomes(c, [next EXCEPT !.got = << Head(@), bytes >>, !.want = 0, !.pc = "open"])
      \/ /\ Len(e.got) # 2 /\ More(bytes)
         /\ Becomes(c, [next EXCEPT !.acc = bytes, !.want = 1])
      \/ /\ Len(e.got) = 0 /\ ~More(bytes)
         /\ Becomes(c, [next EXCEPT !.got = << << readVInt(bytes) >> >>, !.want = 1])
      \/ /\ Len(e.got) = 1 /\ ~More(bytes)
         /\ Becomes(c, [next EXCEPT !.got = Append(@, << >>), !.want = readVInt(bytes)])
  BY <1>2, <1>4, <1>5 DEF take
<1>7. /\ {"pc", "got", "want", "acc", "buf"} \subseteq DOMAIN next
      /\ next.pc = "reading" /\ next.val = e.val /\ next.requests = e.requests
      /\ next.plain = e.plain /\ next.decrypted = e.decrypted /\ next.buf = << >>
      /\ next.acc = << >> /\ next.got = e.got
  BY <1>3, <1>5 DEF Shaped, Fresh
<1>8. ASSUME NEW f, Becomes(c, f), f.val = e.val, f.requests = e.requests, f.plain = e.plain,
             f.decrypted = e.decrypted, f.buf = << >>,
             \/ /\ Len(e.got) = 2 /\ f.got = << Head(e.got), bytes >> /\ f.acc = << >> /\ f.want = 0
                /\ f.pc = "open"
             \/ /\ Len(e.got) # 2 /\ More(bytes) /\ f.got = e.got /\ f.acc = bytes /\ f.want = 1
                /\ f.pc = "reading"
             \/ /\ Len(e.got) = 0 /\ ~More(bytes) /\ f.got = << << readVInt(bytes) >> >> /\ f.acc = << >>
                /\ f.want = 1 /\ f.pc = "reading"
             \/ /\ Len(e.got) = 1 /\ ~More(bytes) /\ f.got = Append(e.got, << >>) /\ f.acc = << >>
                /\ f.want = readVInt(bytes) /\ f.pc = "reading"
      PROVE  StreamOf(c)'
  <2>1. StreamIs(k, f, p, n)
    BY <1>3, <1>5, <1>8, TakeKeepsStream
  <2>2. QED
    BY <1>1, <1>2, <1>8, <2>1, MovedStream
<1>9. CASE /\ Len(e.got) = 2
           /\ Becomes(c, [next EXCEPT !.got = << Head(@), bytes >>, !.want = 0, !.pc = "open"])
  <2>1. PICK f : f = [next EXCEPT !.got = << Head(@), bytes >>, !.want = 0, !.pc = "open"]
    OBVIOUS
  <2>2. /\ f.val = e.val /\ f.requests = e.requests /\ f.plain = e.plain
        /\ f.decrypted = e.decrypted /\ f.buf = << >>
        /\ f.got = << Head(e.got), bytes >> /\ f.acc = << >> /\ f.want = 0 /\ f.pc = "open"
    BY <1>7, <2>1
  <2>3. QED
    BY <1>8, <1>9, <2>1, <2>2
<1>10. CASE /\ Len(e.got) # 2 /\ More(bytes)
            /\ Becomes(c, [next EXCEPT !.acc = bytes, !.want = 1])
  <2>1. PICK f : f = [next EXCEPT !.acc = bytes, !.want = 1]
    OBVIOUS
  <2>2. /\ f.val = e.val /\ f.requests = e.requests /\ f.plain = e.plain
        /\ f.decrypted = e.decrypted /\ f.buf = << >>
        /\ f.got = e.got /\ f.acc = bytes /\ f.want = 1 /\ f.pc = "reading"
    BY <1>7, <2>1
  <2>3. QED
    BY <1>8, <1>10, <2>1, <2>2
<1>11. CASE /\ Len(e.got) = 0 /\ ~More(bytes)
            /\ Becomes(c, [next EXCEPT !.got = << << readVInt(bytes) >> >>, !.want = 1])
  <2>1. PICK f : f = [next EXCEPT !.got = << << readVInt(bytes) >> >>, !.want = 1]
    OBVIOUS
  <2>2. /\ f.val = e.val /\ f.requests = e.requests /\ f.plain = e.plain
        /\ f.decrypted = e.decrypted /\ f.buf = << >>
        /\ f.got = << << readVInt(bytes) >> >> /\ f.acc = << >> /\ f.want = 1 /\ f.pc = "reading"
    BY <1>7, <2>1
  <2>3. QED
    BY <1>8, <1>11, <2>1, <2>2
<1>12. CASE /\ Len(e.got) = 1 /\ ~More(bytes)
            /\ Becomes(c, [next EXCEPT !.got = Append(@, << >>), !.want = readVInt(bytes)])
  <2>1. PICK f : f = [next EXCEPT !.got = Append(@, << >>), !.want = readVInt(bytes)]
    OBVIOUS
  <2>2. /\ f.val = e.val /\ f.requests = e.requests /\ f.plain = e.plain
        /\ f.decrypted = e.decrypted /\ f.buf = << >>
        /\ f.got = Append(e.got, << >>) /\ f.acc = << >> /\ f.want = readVInt(bytes) /\ f.pc = "reading"
    BY <1>7, <2>1
  <2>3. QED
    BY <1>8, <1>12, <2>1, <2>2
<1>13. QED
  BY <1>6, <1>9, <1>10, <1>11, <1>12

\* Every operation on c keeps what is said of c, and of the others.
LEMMA StepKeepsStreams ==
  ASSUME IntegersAgree, StreamInv, [Next]_vars
  PROVE  StreamInv'
<1>1. CASE UNCHANGED vars
  BY <1>1 DEF StreamInv, ShapeOK, StreamOf, vars, Kind
<1>2. ASSUME NEW c \in Conn, Step(c), UNCHANGED <<platform, security>>
      PROVE  StreamInv'
  <2>1. ShapeOK' /\ OnlyMoves(c)
    BY <1>2, StepShape DEF StreamInv
  <2>2. StreamOf(c)'
    <3>1. ASSUME NEW v \in Values, flush(c, v) PROVE StreamOf(c)'
      BY <1>2, <3>1, FlushStep
    <3>2. CASE read(c) \/ SChannelRead(c) \/ take(c) \/ ServerCloses(c)
      BY <1>2, <3>2, ReadStep, SChannelReadStep, TakeStep, ServerClosesKeeps
    <3>3. QED
      BY <1>2, <3>1, <3>2, PreparingKeeps DEF Step
  <2>3. ASSUME NEW d \in Conn \ {c} PROVE StreamOf(d)'
    <3>1. conn'[d] = conn[d] /\ peer'[d] = peer[d] /\ net'[d] = net[d] /\ Kind' = Kind
      BY <1>2, <2>1 DEF OnlyMoves, Kind
    <3>2. QED
      BY <3>1 DEF StreamInv, StreamOf
  <2>4. QED
    BY <2>1, <2>2, <2>3 DEF StreamInv
<1>3. QED
  BY <1>1, <1>2 DEF Next

\* What the application reads from a connection is a beginning of what the server answered
\* to what it wrote, however TCP and TLS cut the bytes up: for any connections, settings,
\* buffer size and size of the array, and any Width and GroupBits for which the loops of
\* writeVInt and readVInt agree.
THEOREM ValuesAreKept == IntegersAgree => (Spec => []ValuesSurvive)
<1>1. Init => StreamInv
  <2> SUFFICES ASSUME Init PROVE StreamInv
    OBVIOUS
  <2>1. ShapeOK
    BY DEF Init, ShapeOK, Shaped, PeerShaped, Fresh, NoPeer
  <2>2. ASSUME NEW c \in Conn PROVE StreamOf(c)
    <3>1. conn[c] = Fresh /\ peer[c] = NoPeer /\ net[c] = << >>
      BY DEF Init
    <3>2. PICK e, p, n : e = Fresh /\ p = NoPeer /\ n = << >>
      OBVIOUS
    <3>3. Unused(e) /\ p.records = << >> /\ e.pc = "none"
      BY <3>2 DEF Unused, Fresh, NoPeer
    <3>4. StreamIs(Kind, e, p, n)
      BY <3>2, <3>3, UnusedStream
    <3>5. QED
      BY <3>1, <3>2, <3>4 DEF StreamOf
  <2>3. QED
    BY <2>1, <2>2 DEF StreamInv
<1>2. StreamInv => ValuesSurvive
  <2> SUFFICES ASSUME StreamInv, NEW c \in Conn,
                      conn[c].pc = "reading" \/ conn[c].pc = "open"
               PROVE  LET got == conn[c].got  due == Answer(conn[c].val)
                      IN  /\ Len(got) <= Len(due)
                          /\ \A i \in DOMAIN got :
                               got[i] = due[i] \/ (conn[c].pc = "reading" /\ i = 2 /\ got[i] = << >>)
                          /\ conn[c].pc = "open" /\ conn[c].requests > 0 => got = due
    BY DEF ValuesSurvive, At
  <2>1. PICK e, due, v : e = conn[c] /\ v = e.val /\ due = Answer(v)
    OBVIOUS
  <2>2. StreamIs(Kind, e, peer[c], net[c])
    BY <2>1 DEF StreamInv, StreamOf
  <2>3. Len(due) = 2 /\ due[1] = << v >> /\ DOMAIN due = 1..2
    BY <2>1 DEF Answer
  <2>4. Len(<< >>) = 0 /\ DOMAIN << >> = {}
    OBVIOUS
  <2>5. CASE e.pc = "open"
    <3>1. e.got = << >> \/ e.got = due
      BY <2>1, <2>2, <2>5 DEF StreamIs
    <3>2. e.requests > 0 => e.got = due
      BY <2>1, <2>2, <2>5 DEF StreamIs
    <3>3. Len(e.got) <= Len(due)
      <4>1. Len(e.got) = 0 \/ Len(e.got) = 2
        BY <2>3, <2>4, <3>1, Zenon
      <4>2. PICK i, j : i = Len(e.got) /\ j = Len(due)
        OBVIOUS
      <4>3. i \in {0, 1, 2} /\ j = 2
        BY <2>3, <4>1, <4>2
      <4>4. i <= j
        BY <4>3
      <4>5. QED
        BY <4>2, <4>4
    <3>4. QED
      BY <2>1, <2>4, <2>5, <3>1, <3>2, <3>3
  <2>6. CASE e.pc = "reading"
    <3>1. \E want, acc, coming : Progress(v, e.got, want, acc, coming)
      BY <2>1, <2>2, <2>6 DEF StreamIs, ReadingIs
    <3>2. e.got = << >> \/ e.got = << << v >> >> \/ e.got = << << v >>, << >> >>
      BY <3>1 DEF Progress
    <3>3. PICK a, b : a = << << v >> >> /\ b = << << v >>, << >> >>
      OBVIOUS
    <3>4. /\ Len(a) = 1 /\ DOMAIN a = {1} /\ a[1] = << v >>
          /\ Len(b) = 2 /\ DOMAIN b = {1, 2} /\ b[1] = << v >> /\ b[2] = << >>
      BY <3>3
    <3>5. Len(e.got) <= Len(due)
      <4>1. Len(e.got) = 0 \/ Len(e.got) = 1 \/ Len(e.got) = 2
        BY <2>4, <3>2, <3>3, <3>4, Zenon
      <4>2. PICK i, j : i = Len(e.got) /\ j = Len(due)
        OBVIOUS
      <4>3. i \in {0, 1, 2} /\ j = 2
        BY <2>3, <4>1, <4>2
      <4>4. i <= j
        BY <4>3
      <4>5. QED
        BY <4>2, <4>4
    <3>6. \A i \in DOMAIN e.got : e.got[i] = due[i] \/ (i = 2 /\ e.got[i] = << >>)
      BY <2>3, <2>4, <3>2, <3>3, <3>4
    <3>7. QED
      BY <2>1, <2>6, <3>5, <3>6
  <2>7. QED
    BY <2>1, <2>5, <2>6
<1>3. QED
  <2> SUFFICES ASSUME IntegersAgree PROVE Spec => []ValuesSurvive
    OBVIOUS
  <2>1. StreamInv /\ [Next]_vars => StreamInv'
    BY StepKeepsStreams
  <2>2. QED
    BY <1>1, <1>2, <2>1, PTL DEF Spec

==============================================================================
