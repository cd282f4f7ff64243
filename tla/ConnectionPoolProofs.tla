------------------------ MODULE ConnectionPoolProofs ------------------------
(***************************************************************************)
(* Proofs about the connection pool, for any threads, servers and          *)
(* configuration: types and locals; no transport is shared; idle and lent  *)
(* transports live and are counted; the pool implements TransportLoan.     *)
(***************************************************************************)
EXTENDS ConnectionPool, SequenceTheorems, FiniteSetTheorems, TLAPS

-----------------------------------------------------------------------------
(* Types.  LocalsOK is needed with TypeOK: that the queues keep holding    *)
(* transports depends on a thread in a locked section having the key, the  *)
(* transport and the queues that its place in the code promises.           *)

\* Taking the front of an idle queue leaves queues of transports (BlockingQueue::pop).
LEMMA PollOK ==
  ASSUME QueuesOK, NEW k \in DOMAIN idle, idle[k] # <<>>, Poll(k)
  PROVE  /\ DOMAIN idle' = DOMAIN idle
         /\ \A j \in DOMAIN idle : idle'[j] \in Seq(Transport)
         /\ Head(idle[k]) \in Transport
<1>1. idle[k] \in Seq(Transport)
  BY DEF QueuesOK
<1>2. Head(idle[k]) \in Transport /\ Tail(idle[k]) \in Seq(Transport)
  BY <1>1, HeadTailProperties
<1>3. QED
  BY <1>2 DEF Poll, QueuesOK

\* Appending a transport leaves queues of transports (BlockingQueue::push, offer).
LEMMA PushOK ==
  ASSUME QueuesOK, NEW k \in DOMAIN idle, NEW tr \in Transport, Push(k, tr)
  PROVE  /\ DOMAIN idle' = DOMAIN idle
         /\ \A j \in DOMAIN idle : idle'[j] \in Seq(Transport)
<1>1. idle[k] \in Seq(Transport)
  BY DEF QueuesOK
<1>2. Append(idle[k], tr) \in Seq(Transport)
  BY <1>1, AppendProperties
<1>3. QED
  BY <1>2 DEF Push, QueuesOK

\* makeObject returns a transport.
LEMMA MakableOK ==
  ASSUME NEW k \in Key, NEW tr \in Makable(k)
  PROVE  tr \in Transport /\ tr # None
  BY NoneAssumption DEF Makable, Transport

\* tryRemoveIdle chooses a queue the map has, and one that is not empty.
LEMMA VictimsOK ==
  ASSUME QueuesOK, NEW v \in Victims
  PROVE  v \in DOMAIN idle /\ idle[v] # <<>>
<1>1. v \in DOMAIN idle
  BY DEF Victims
<1>2. ASSUME MinIdle > 0, Len(idle[v]) > MinIdle PROVE idle[v] # <<>>
  <2>1. idle[v] \in Seq(Transport)
    BY <1>1 DEF QueuesOK
  <2>2. Len(idle[v]) # 0
    BY <1>2, ConfigAssumption
  <2>3. QED
    BY <2>1, <2>2, EmptySeq
<1>3. QED
  BY <1>1, <1>2 DEF Victims

\* A new pool has the types, and no thread is inside it.
LEMMA InitOK ==
  ASSUME Init
  PROVE  TypeOK /\ LocalsOK
<1> USE DEF Init, Empty
<1>1. QueuesOK
  <2>1. idle = Empty /\ busy = Empty /\ DOMAIN idle = {} /\ DOMAIN busy = {}
    OBVIOUS
  <2>2. allocationQueue \in Seq(Key)
    BY EmptySeq
  <2>3. dropped \in [Key -> SUBSET Transport]
    OBVIOUS
  <2>4. QED
    BY <2>1, <2>2, <2>3 DEF QueuesOK
<1>2. CountersOK
  <2>1. closed \in BOOLEAN /\ lock \in Thread \cup {None}
    OBVIOUS
  <2>2. totalIdle \in Int /\ totalActive \in Int /\ grown \in Nat
    OBVIOUS
  <2>3. QED
    BY <2>1, <2>2 DEF CountersOK
<1>3. CallsOK
  BY ConfigAssumption DEF CallsOK, Labels, Jobs
<1>4. LocalsOK
  BY NoneAssumption DEF LocalsOK, Locked, Carrying, Borrowing
<1>5. QED
  BY <1>1, <1>2, <1>3, <1>4 DEF TypeOK

\* ValidateObject keeps the types and the locals.
LEMMA ValidateObjectOK ==
  ASSUME TypeOK, LocalsOK, NEW t \in Thread, ValidateObject(t)
  PROVE  TypeOK' /\ LocalsOK'
<1> USE DEF ValidateObject, DestroyObject, Goto, callVars, loopVars, poolVars
<1>1. QueuesOK'
  BY NoneAssumption DEF TypeOK, QueuesOK, CountersOK, CallsOK, LocalsOK, Locked,
     Carrying, Borrowing
<1>2. CountersOK'
  BY ConfigAssumption, NoneAssumption DEF TypeOK, QueuesOK, CountersOK, CallsOK
<1>3. CallsOK'
  <2>1. pc' \in [Thread -> Labels]
    BY DEF TypeOK, QueuesOK, CountersOK, CallsOK, Labels
  <2>2. obj' \in [Thread -> Transport \cup {None}]
    BY DEF TypeOK, QueuesOK, CountersOK, CallsOK
  <2>3. QED
    BY <2>1, <2>2 DEF TypeOK, QueuesOK, CountersOK, CallsOK
<1>4. LocalsOK'
  BY NoneAssumption DEF TypeOK, QueuesOK, CountersOK, CallsOK, LocalsOK, Locked,
     Carrying, Borrowing
<1>5. QED
  BY <1>1, <1>2, <1>3, <1>4 DEF TypeOK

\* ValidateThrows keeps the types and the locals.
LEMMA ValidateThrowsOK ==
  ASSUME TypeOK, LocalsOK, NEW t \in Thread, ValidateThrows(t)
  PROVE  TypeOK' /\ LocalsOK'
<1> USE DEF ValidateThrows, EndCall, loopVars, poolVars
<1>1. QueuesOK'
  BY NoneAssumption DEF TypeOK, QueuesOK, CountersOK, CallsOK, LocalsOK, Locked,
     Carrying, Borrowing
<1>2. CountersOK'
  BY ConfigAssumption, NoneAssumption DEF TypeOK, QueuesOK, CountersOK, CallsOK
<1>3. CallsOK'
  BY NoneAssumption, ConfigAssumption DEF TypeOK, QueuesOK, CountersOK, CallsOK,
     LocalsOK, Locked, Carrying, Borrowing,
     Labels, Jobs
<1>4. LocalsOK'
  BY NoneAssumption DEF TypeOK, QueuesOK, CountersOK, CallsOK, LocalsOK, Locked,
     Carrying, Borrowing
<1>5. QED
  BY <1>1, <1>2, <1>3, <1>4 DEF TypeOK

\* LoopCreate keeps the types and the locals.
LEMMA LoopCreateOK ==
  ASSUME TypeOK, LocalsOK, NEW t \in Thread, LoopCreate(t)
  PROVE  TypeOK' /\ LocalsOK'
<1> USE DEF LoopCreate, BusyQ, CanCreate, Goto, HasReachedMaxTotal, IdleQ, callVars,
        loopVars, poolVars
<1>1. QueuesOK'
  BY NoneAssumption DEF TypeOK, QueuesOK, CountersOK, CallsOK, LocalsOK, Locked,
     Carrying, Borrowing
<1>2. CountersOK'
  BY ConfigAssumption, NoneAssumption DEF TypeOK, QueuesOK, CountersOK, CallsOK
<1>3. CallsOK'
  BY NoneAssumption, ConfigAssumption DEF TypeOK, QueuesOK, CountersOK, CallsOK,
     LocalsOK, Locked, Carrying, Borrowing,
     Labels, Jobs
<1>4. LocalsOK'
  BY NoneAssumption DEF TypeOK, QueuesOK, CountersOK, CallsOK, LocalsOK, Locked,
     Carrying, Borrowing
<1>5. QED
  BY <1>1, <1>2, <1>3, <1>4 DEF TypeOK

\* LoopSteal keeps the types and the locals.
LEMMA LoopStealOK ==
  ASSUME TypeOK, LocalsOK, NEW t \in Thread, LoopSteal(t)
  PROVE  TypeOK' /\ LocalsOK'
<1> USE DEF LoopSteal, BusyQ, CanCreate, DestroyObject, Goto, HasReachedMaxTotal, IdleQ,
        callVars, loopVars
<1>0. PICK v \in Victims : DestroyObject(Head(idle[v])) /\ Poll(v)
  OBVIOUS
<1>a. v \in DOMAIN idle /\ idle[v] # <<>>
  BY VictimsOK DEF TypeOK
<1>b. DOMAIN idle' = DOMAIN idle /\ \A j \in DOMAIN idle : idle'[j] \in Seq(Transport)
  BY <1>0, <1>a, PollOK DEF TypeOK
<1>1. QueuesOK'
  BY <1>b DEF TypeOK, QueuesOK, CountersOK, CallsOK
<1>2. CountersOK'
  BY ConfigAssumption, NoneAssumption DEF TypeOK, QueuesOK, CountersOK, CallsOK
<1>3. CallsOK'
  BY PollOK, NoneAssumption, ConfigAssumption DEF TypeOK, QueuesOK, CountersOK, CallsOK,
     LocalsOK, Locked, Carrying, Borrowing,
     Labels, Jobs
<1>4. LocalsOK'
  BY <1>b, NoneAssumption DEF TypeOK, QueuesOK, CountersOK, CallsOK, LocalsOK, Locked,
     Carrying, Borrowing
<1>5. QED
  BY <1>1, <1>2, <1>3, <1>4 DEF TypeOK

\* LoopAskAllocate keeps the types and the locals.
LEMMA LoopAskAllocateOK ==
  ASSUME TypeOK, LocalsOK, NEW t \in Thread, LoopAskAllocate(t)
  PROVE  TypeOK' /\ LocalsOK'
<1> USE DEF LoopAskAllocate, BusyQ, CanCreate, Goto, HasReachedMaxTotal, IdleQ, callVars,
        loopVars
<1>1. QueuesOK'
  BY NoneAssumption DEF TypeOK, QueuesOK, CountersOK, CallsOK, LocalsOK, Locked,
     Carrying, Borrowing
<1>2. CountersOK'
  BY ConfigAssumption, NoneAssumption DEF TypeOK, QueuesOK, CountersOK, CallsOK
<1>3. CallsOK'
  BY NoneAssumption, ConfigAssumption DEF TypeOK, QueuesOK, CountersOK, CallsOK,
     LocalsOK, Locked, Carrying, Borrowing,
     Labels, Jobs
<1>4. LocalsOK'
  BY NoneAssumption DEF TypeOK, QueuesOK, CountersOK, CallsOK, LocalsOK, Locked,
     Carrying, Borrowing
<1>5. QED
  BY <1>1, <1>2, <1>3, <1>4 DEF TypeOK

\* LoopWait keeps the types and the locals.
LEMMA LoopWaitOK ==
  ASSUME TypeOK, LocalsOK, NEW t \in Thread, LoopWait(t)
  PROVE  TypeOK' /\ LocalsOK'
<1> USE DEF LoopWait, BusyQ, CanCreate, Goto, IdleQ, callVars, loopVars, poolVars
<1>1. QueuesOK'
  BY NoneAssumption DEF TypeOK, QueuesOK, CountersOK, CallsOK, LocalsOK, Locked,
     Carrying, Borrowing
<1>2. CountersOK'
  BY ConfigAssumption, NoneAssumption DEF TypeOK, QueuesOK, CountersOK, CallsOK
<1>3. CallsOK'
  BY NoneAssumption, ConfigAssumption DEF TypeOK, QueuesOK, CountersOK, CallsOK,
     LocalsOK, Locked, Carrying, Borrowing,
     Labels, Jobs
<1>4. LocalsOK'
  BY NoneAssumption DEF TypeOK, QueuesOK, CountersOK, CallsOK, LocalsOK, Locked,
     Carrying, Borrowing
<1>5. QED
  BY <1>1, <1>2, <1>3, <1>4 DEF TypeOK

\* MakeObject keeps the types and the locals.
LEMMA MakeObjectOK ==
  ASSUME TypeOK, LocalsOK, NEW t \in Thread, MakeObject(t)
  PROVE  TypeOK' /\ LocalsOK'
<1> USE DEF MakeObject, Goto, Obtained, callVars, loopVars, poolVars
<1>0. PICK tr \in Makable(key[t]) : obj' = [obj EXCEPT ![t] = tr] /\ live' = live \cup {tr}
  OBVIOUS
<1>a. tr \in Transport /\ tr # None
  BY MakableOK DEF LocalsOK, Locked, Carrying, Borrowing
<1>1. QueuesOK'
  BY <1>0, <1>a DEF TypeOK, QueuesOK, CountersOK, CallsOK
<1>2. CountersOK'
  BY ConfigAssumption, NoneAssumption DEF TypeOK, QueuesOK, CountersOK, CallsOK
<1>3. CallsOK'
  <2>1. pc' \in [Thread -> Labels]
    BY DEF TypeOK, QueuesOK, CountersOK, CallsOK, Labels
  <2>2. obj' \in [Thread -> Transport \cup {None}]
    BY <1>0, <1>a DEF TypeOK, QueuesOK, CountersOK, CallsOK
  <2>3. QED
    BY <2>1, <2>2 DEF TypeOK, QueuesOK, CountersOK, CallsOK
<1>4. LocalsOK'
  BY <1>0, <1>a, NoneAssumption DEF TypeOK, QueuesOK, CountersOK, CallsOK, LocalsOK,
     Locked, Carrying, Borrowing
<1>5. QED
  BY <1>1, <1>2, <1>3, <1>4 DEF TypeOK

\* MakeObjectThrows keeps the types and the locals.
LEMMA MakeObjectThrowsOK ==
  ASSUME TypeOK, LocalsOK, NEW t \in Thread, MakeObjectThrows(t)
  PROVE  TypeOK' /\ LocalsOK'
<1> USE DEF MakeObjectThrows, EndCall, loopVars, poolVars
<1>1. QueuesOK'
  BY NoneAssumption DEF TypeOK, QueuesOK, CountersOK, CallsOK, LocalsOK, Locked,
     Carrying, Borrowing
<1>2. CountersOK'
  BY ConfigAssumption, NoneAssumption DEF TypeOK, QueuesOK, CountersOK, CallsOK
<1>3. CallsOK'
  BY NoneAssumption, ConfigAssumption DEF TypeOK, QueuesOK, CountersOK, CallsOK,
     LocalsOK, Locked, Carrying, Borrowing,
     Labels, Jobs
<1>4. LocalsOK'
  BY NoneAssumption DEF TypeOK, QueuesOK, CountersOK, CallsOK, LocalsOK, Locked,
     Carrying, Borrowing
<1>5. QED
  BY <1>1, <1>2, <1>3, <1>4 DEF TypeOK

\* Pop keeps the types and the locals.
LEMMA PopOK ==
  ASSUME TypeOK, LocalsOK, NEW t \in Thread, Pop(t)
  PROVE  TypeOK' /\ LocalsOK'
<1> USE DEF Pop, Goto, IdleQ, callVars, loopVars
<1>1. QueuesOK'
  BY PollOK, NoneAssumption DEF TypeOK, QueuesOK, CountersOK, CallsOK, LocalsOK, Locked,
     Carrying, Borrowing
<1>2. CountersOK'
  BY ConfigAssumption, NoneAssumption DEF TypeOK, QueuesOK, CountersOK, CallsOK
<1>3. CallsOK'
  BY PollOK, NoneAssumption, ConfigAssumption DEF TypeOK, QueuesOK, CountersOK, CallsOK,
     LocalsOK, Locked, Carrying, Borrowing,
     Labels, Jobs
<1>4. LocalsOK'
  BY PollOK, NoneAssumption DEF TypeOK, QueuesOK, CountersOK, CallsOK, LocalsOK, Locked,
     Carrying, Borrowing
<1>5. QED
  BY <1>1, <1>2, <1>3, <1>4 DEF TypeOK

\* PopThrows keeps the types and the locals.
LEMMA PopThrowsOK ==
  ASSUME TypeOK, LocalsOK, NEW t \in Thread, PopThrows(t)
  PROVE  TypeOK' /\ LocalsOK'
<1> USE DEF PopThrows, Goto, IdleQ, callVars, loopVars, poolVars
<1>1. QueuesOK'
  BY NoneAssumption DEF TypeOK, QueuesOK, CountersOK, CallsOK, LocalsOK, Locked,
     Carrying, Borrowing
<1>2. CountersOK'
  BY ConfigAssumption, NoneAssumption DEF TypeOK, QueuesOK, CountersOK, CallsOK
<1>3. CallsOK'
  BY NoneAssumption, ConfigAssumption DEF TypeOK, QueuesOK, CountersOK, CallsOK,
     LocalsOK, Locked, Carrying, Borrowing,
     Labels, Jobs
<1>4. LocalsOK'
  BY NoneAssumption DEF TypeOK, QueuesOK, CountersOK, CallsOK, LocalsOK, Locked,
     Carrying, Borrowing
<1>5. QED
  BY <1>1, <1>2, <1>3, <1>4 DEF TypeOK

\* Unwind keeps the types and the locals.
LEMMA UnwindOK ==
  ASSUME TypeOK, LocalsOK, NEW t \in Thread, Unwind(t)
  PROVE  TypeOK' /\ LocalsOK'
<1> USE DEF Unwind, EndCall, loopVars, poolVars
<1>1. QueuesOK'
  BY NoneAssumption DEF TypeOK, QueuesOK, CountersOK, CallsOK, LocalsOK, Locked,
     Carrying, Borrowing
<1>2. CountersOK'
  BY ConfigAssumption, NoneAssumption DEF TypeOK, QueuesOK, CountersOK, CallsOK
<1>3. CallsOK'
  BY NoneAssumption, ConfigAssumption DEF TypeOK, QueuesOK, CountersOK, CallsOK,
     LocalsOK, Locked, Carrying, Borrowing,
     Labels, Jobs
<1>4. LocalsOK'
  BY NoneAssumption DEF TypeOK, QueuesOK, CountersOK, CallsOK, LocalsOK, Locked,
     Carrying, Borrowing
<1>5. QED
  BY <1>1, <1>2, <1>3, <1>4 DEF TypeOK

\* DecrementRead keeps the types and the locals.
LEMMA DecrementReadOK ==
  ASSUME TypeOK, LocalsOK, NEW t \in Thread, DecrementRead(t)
  PROVE  TypeOK' /\ LocalsOK'
<1> USE DEF DecrementRead, Goto, loopVars, poolVars
<1>1. QueuesOK'
  BY NoneAssumption DEF TypeOK, QueuesOK, CountersOK, CallsOK, LocalsOK, Locked,
     Carrying, Borrowing
<1>2. CountersOK'
  BY ConfigAssumption, NoneAssumption DEF TypeOK, QueuesOK, CountersOK, CallsOK
<1>3. CallsOK'
  BY NoneAssumption, ConfigAssumption DEF TypeOK, QueuesOK, CountersOK, CallsOK,
     LocalsOK, Locked, Carrying, Borrowing,
     Labels, Jobs
<1>4. LocalsOK'
  BY NoneAssumption DEF TypeOK, QueuesOK, CountersOK, CallsOK, LocalsOK, Locked,
     Carrying, Borrowing
<1>5. QED
  BY <1>1, <1>2, <1>3, <1>4 DEF TypeOK

\* DecrementWrite keeps the types and the locals.
LEMMA DecrementWriteOK ==
  ASSUME TypeOK, LocalsOK, NEW t \in Thread, DecrementWrite(t)
  PROVE  TypeOK' /\ LocalsOK'
<1> USE DEF DecrementWrite, Goto, loopVars
<1>1. QueuesOK'
  BY NoneAssumption DEF TypeOK, QueuesOK, CountersOK, CallsOK, LocalsOK, Locked,
     Carrying, Borrowing
<1>2. CountersOK'
  BY ConfigAssumption, NoneAssumption DEF TypeOK, QueuesOK, CountersOK, CallsOK
<1>3. CallsOK'
  BY NoneAssumption, ConfigAssumption DEF TypeOK, QueuesOK, CountersOK, CallsOK,
     LocalsOK, Locked, Carrying, Borrowing,
     Labels, Jobs
<1>4. LocalsOK'
  BY NoneAssumption DEF TypeOK, QueuesOK, CountersOK, CallsOK, LocalsOK, Locked,
     Carrying, Borrowing
<1>5. QED
  BY <1>1, <1>2, <1>3, <1>4 DEF TypeOK

\* Relock keeps the types and the locals.
LEMMA RelockOK ==
  ASSUME TypeOK, LocalsOK, NEW t \in Thread, Relock(t)
  PROVE  TypeOK' /\ LocalsOK'
<1> USE DEF Relock, Goto, Obtained, callVars, loopVars, poolVars
<1>1. QueuesOK'
  BY NoneAssumption DEF TypeOK, QueuesOK, CountersOK, CallsOK, LocalsOK, Locked,
     Carrying, Borrowing
<1>2. CountersOK'
  BY ConfigAssumption, NoneAssumption DEF TypeOK, QueuesOK, CountersOK, CallsOK
<1>3. CallsOK'
  BY NoneAssumption, ConfigAssumption DEF TypeOK, QueuesOK, CountersOK, CallsOK,
     LocalsOK, Locked, Carrying, Borrowing,
     Labels, Jobs
<1>4. LocalsOK'
  BY NoneAssumption DEF TypeOK, QueuesOK, CountersOK, CallsOK, LocalsOK, Locked,
     Carrying, Borrowing
<1>5. QED
  BY <1>1, <1>2, <1>3, <1>4 DEF TypeOK

\* Activate keeps the types and the locals.
LEMMA ActivateOK ==
  ASSUME TypeOK, LocalsOK, NEW t \in Thread, Activate(t)
  PROVE  TypeOK' /\ LocalsOK'
<1> USE DEF Activate, Goto
<1>1. QueuesOK'
  <2>0. obj[t] \in Transport /\ key[t] \in Key
    BY NoneAssumption DEF TypeOK, QueuesOK, CountersOK, CallsOK, LocalsOK, Locked,
       Carrying, Borrowing
  <2>1. CASE "busy" \in linked[t]
    <3>1. key[t] \in DOMAIN busy
      BY <2>1 DEF LocalsOK, Locked, Carrying, Borrowing
    <3>2. busy[key[t]] \cup {obj[t]} \subseteq Transport
      BY <2>0, <3>1 DEF TypeOK, QueuesOK, CountersOK, CallsOK
    <3>3. busy' = [busy EXCEPT ![key[t]] = busy[key[t]] \cup {obj[t]}]
      BY <2>1
    <3>4. DOMAIN busy' = DOMAIN busy
      BY <3>3
    <3>5. \A j \in DOMAIN busy : busy'[j] \subseteq Transport
      BY <3>2, <3>3 DEF TypeOK, QueuesOK, CountersOK, CallsOK
    <3>6. QED
      BY <2>1, <3>4, <3>5 DEF TypeOK, QueuesOK, CountersOK, CallsOK
  <2>2. CASE "busy" \notin linked[t]
    <3>1. dropped[key[t]] \cup {obj[t]} \in SUBSET Transport
      BY <2>0 DEF TypeOK, QueuesOK, CountersOK, CallsOK
    <3>2. dropped' = [dropped EXCEPT ![key[t]] = dropped[key[t]] \cup {obj[t]}]
      BY <2>2
    <3>3. dropped' \in [Key -> SUBSET Transport]
      BY <2>0, <3>1, <3>2 DEF TypeOK, QueuesOK, CountersOK, CallsOK
    <3>4. QED
      BY <2>2, <3>3 DEF TypeOK, QueuesOK, CountersOK, CallsOK
  <2>3. QED
    BY <2>1, <2>2
<1>2. CountersOK'
  BY ConfigAssumption, NoneAssumption DEF TypeOK, QueuesOK, CountersOK, CallsOK
<1>3. CallsOK'
  BY NoneAssumption, ConfigAssumption DEF TypeOK, QueuesOK, CountersOK, CallsOK,
     LocalsOK, Locked, Carrying, Borrowing,
     Labels, Jobs
<1>4. LocalsOK'
  BY NoneAssumption DEF TypeOK, QueuesOK, CountersOK, CallsOK, LocalsOK, Locked,
     Carrying, Borrowing
<1>5. QED
  BY <1>1, <1>2, <1>3, <1>4 DEF TypeOK

\* Allocate keeps the types and the locals.
LEMMA AllocateOK ==
  ASSUME TypeOK, LocalsOK, NEW t \in Thread, Allocate(t)
  PROVE  TypeOK' /\ LocalsOK'
<1> USE DEF Allocate, EndCall, loopVars
<1> DEFINE a == Head(allocationQueue)
<1>0. PICK tr \in Makable(a) : Push(a, tr) /\ live' = (live \cup {tr}) \ {obj[t]}
  OBVIOUS
<1>a. a \in DOMAIN idle /\ a \in Key
  BY DEF TypeOK, QueuesOK
<1>b. tr \in Transport
  BY <1>a, MakableOK
<1>c. DOMAIN idle' = DOMAIN idle /\ \A j \in DOMAIN idle : idle'[j] \in Seq(Transport)
  BY <1>0, <1>a, <1>b, PushOK DEF TypeOK
<1>d. allocationQueue' \in Seq(Key)
  BY HeadTailProperties DEF TypeOK, QueuesOK, LocalsOK
<1> HIDE DEF a
<1>1. QueuesOK'
  BY <1>0, <1>b, <1>c, <1>d DEF TypeOK, QueuesOK, CountersOK, CallsOK
<1>2. CountersOK'
  BY ConfigAssumption, NoneAssumption DEF TypeOK, QueuesOK, CountersOK, CallsOK
<1>3. CallsOK'
  BY NoneAssumption, ConfigAssumption DEF TypeOK, QueuesOK, CountersOK, CallsOK,
     LocalsOK, Locked, Carrying, Borrowing,
     Labels, Jobs
<1>4. LocalsOK'
  BY <1>c, NoneAssumption DEF TypeOK, QueuesOK, CountersOK, CallsOK, LocalsOK, Locked,
     Carrying, Borrowing
<1>5. QED
  BY <1>1, <1>2, <1>3, <1>4 DEF TypeOK

\* AllocateThrows keeps the types and the locals.
LEMMA AllocateThrowsOK ==
  ASSUME TypeOK, LocalsOK, NEW t \in Thread, AllocateThrows(t)
  PROVE  TypeOK' /\ LocalsOK'
<1> USE DEF AllocateThrows, EndCall, loopVars
<1>1. QueuesOK'
  BY NoneAssumption DEF TypeOK, QueuesOK, CountersOK, CallsOK, LocalsOK, Locked,
     Carrying, Borrowing
<1>2. CountersOK'
  BY ConfigAssumption, NoneAssumption DEF TypeOK, QueuesOK, CountersOK, CallsOK
<1>3. CallsOK'
  BY NoneAssumption, ConfigAssumption DEF TypeOK, QueuesOK, CountersOK, CallsOK,
     LocalsOK, Locked, Carrying, Borrowing,
     Labels, Jobs
<1>4. LocalsOK'
  BY NoneAssumption DEF TypeOK, QueuesOK, CountersOK, CallsOK, LocalsOK, Locked,
     Carrying, Borrowing
<1>5. QED
  BY <1>1, <1>2, <1>3, <1>4 DEF TypeOK

\* AllocateNull keeps the types and the locals.
LEMMA AllocateNullOK ==
  ASSUME TypeOK, LocalsOK, NEW t \in Thread, AllocateNull(t)
  PROVE  TypeOK' /\ LocalsOK'
<1> USE DEF AllocateNull, Goto, callVars, loopVars, poolVars
<1>1. QueuesOK'
  BY NoneAssumption DEF TypeOK, QueuesOK, CountersOK, CallsOK, LocalsOK, Locked,
     Carrying, Borrowing
<1>2. CountersOK'
  BY ConfigAssumption, NoneAssumption DEF TypeOK, QueuesOK, CountersOK, CallsOK
<1>3. CallsOK'
  BY NoneAssumption, ConfigAssumption DEF TypeOK, QueuesOK, CountersOK, CallsOK,
     LocalsOK, Locked, Carrying, Borrowing,
     Labels, Jobs
<1>4. LocalsOK'
  BY NoneAssumption DEF TypeOK, QueuesOK, CountersOK, CallsOK, LocalsOK, Locked,
     Carrying, Borrowing
<1>5. QED
  BY <1>1, <1>2, <1>3, <1>4 DEF TypeOK

\* EnsureMinIdle keeps the types and the locals.
LEMMA EnsureMinIdleOK ==
  ASSUME TypeOK, LocalsOK, NEW t \in Thread, EnsureMinIdle(t)
  PROVE  TypeOK' /\ LocalsOK'
<1> USE DEF EnsureMinIdle, callVars
<1>0. PICK tr \in Makable(key[t]) : Push(key[t], tr) /\ live' = live \cup {tr}
  OBVIOUS
<1>a. key[t] \in DOMAIN idle /\ key[t] \in Key
  BY DEF TypeOK, QueuesOK, LocalsOK
<1>b. tr \in Transport
  BY <1>a, MakableOK
<1>c. DOMAIN idle' = DOMAIN idle /\ \A j \in DOMAIN idle : idle'[j] \in Seq(Transport)
  BY <1>0, <1>a, <1>b, PushOK DEF TypeOK
<1>1. QueuesOK'
  BY <1>0, <1>b, <1>c DEF TypeOK, QueuesOK, CountersOK, CallsOK
<1>2. CountersOK'
  BY ConfigAssumption, NoneAssumption DEF TypeOK, QueuesOK, CountersOK, CallsOK
<1>3. CallsOK'
  BY NoneAssumption, ConfigAssumption DEF TypeOK, QueuesOK, CountersOK, CallsOK,
     LocalsOK, Locked, Carrying, Borrowing,
     Labels, Jobs
<1>4. LocalsOK'
  BY <1>c, NoneAssumption DEF TypeOK, QueuesOK, CountersOK, CallsOK, LocalsOK, Locked,
     Carrying, Borrowing
<1>5. QED
  BY <1>1, <1>2, <1>3, <1>4 DEF TypeOK

\* AddObjectEnd keeps the types and the locals.
LEMMA AddObjectEndOK ==
  ASSUME TypeOK, LocalsOK, NEW t \in Thread, AddObjectEnd(t)
  PROVE  TypeOK' /\ LocalsOK'
<1> USE DEF AddObjectEnd, EndCall, poolVars
<1>1. QueuesOK'
  BY NoneAssumption DEF TypeOK, QueuesOK, CountersOK, CallsOK, LocalsOK, Locked,
     Carrying, Borrowing
<1>2. CountersOK'
  BY ConfigAssumption, NoneAssumption DEF TypeOK, QueuesOK, CountersOK, CallsOK
<1>3. CallsOK'
  BY NoneAssumption, ConfigAssumption DEF TypeOK, QueuesOK, CountersOK, CallsOK,
     LocalsOK, Locked, Carrying, Borrowing,
     Labels, Jobs
<1>4. LocalsOK'
  BY NoneAssumption DEF TypeOK, QueuesOK, CountersOK, CallsOK, LocalsOK, Locked,
     Carrying, Borrowing
<1>5. QED
  BY <1>1, <1>2, <1>3, <1>4 DEF TypeOK

\* DestroyClose keeps the types and the locals.
LEMMA DestroyCloseOK ==
  ASSUME TypeOK, LocalsOK, NEW t \in Thread, DestroyClose(t)
  PROVE  TypeOK' /\ LocalsOK'
<1> USE DEF DestroyClose, Goto, loopVars
<1>1. QueuesOK'
  BY NoneAssumption DEF TypeOK, QueuesOK, CountersOK, CallsOK, LocalsOK, Locked,
     Carrying, Borrowing
<1>2. CountersOK'
  BY ConfigAssumption, NoneAssumption DEF TypeOK, QueuesOK, CountersOK, CallsOK
<1>3. CallsOK'
  BY NoneAssumption, ConfigAssumption DEF TypeOK, QueuesOK, CountersOK, CallsOK,
     LocalsOK, Locked, Carrying, Borrowing,
     Labels, Jobs
<1>4. LocalsOK'
  BY NoneAssumption DEF TypeOK, QueuesOK, CountersOK, CallsOK, LocalsOK, Locked,
     Carrying, Borrowing
<1>5. QED
  BY <1>1, <1>2, <1>3, <1>4 DEF TypeOK

\* Clear keeps the types and the locals.
LEMMA ClearOK ==
  ASSUME TypeOK, LocalsOK, NEW t \in Thread, Clear(t)
  PROVE  TypeOK' /\ LocalsOK'
<1> USE DEF Clear, Goto, callVars, poolVars
<1>1. QueuesOK'
  BY NoneAssumption DEF TypeOK, QueuesOK, CountersOK, CallsOK, LocalsOK, Locked,
     Carrying, Borrowing
<1>2. CountersOK'
  BY ConfigAssumption, NoneAssumption DEF TypeOK, QueuesOK, CountersOK, CallsOK
<1>3. CallsOK'
  BY NoneAssumption, ConfigAssumption DEF TypeOK, QueuesOK, CountersOK, CallsOK,
     LocalsOK, Locked, Carrying, Borrowing,
     Labels, Jobs
<1>4. LocalsOK'
  BY NoneAssumption DEF TypeOK, QueuesOK, CountersOK, CallsOK, LocalsOK, Locked,
     Carrying, Borrowing
<1>5. QED
  BY <1>1, <1>2, <1>3, <1>4 DEF TypeOK

\* DrainSize keeps the types and the locals.
LEMMA DrainSizeOK ==
  ASSUME TypeOK, LocalsOK, NEW t \in Thread, DrainSize(t)
  PROVE  TypeOK' /\ LocalsOK'
<1> USE DEF DrainSize, Goto, poolVars
<1>1. QueuesOK'
  BY NoneAssumption DEF TypeOK, QueuesOK, CountersOK, CallsOK, LocalsOK, Locked,
     Carrying, Borrowing
<1>2. CountersOK'
  <2>1. UNCHANGED <<closed, totalIdle, totalActive, grown, lock>>
    OBVIOUS
  <2>2. QED
    BY <2>1 DEF TypeOK, QueuesOK, CountersOK, CallsOK
<1>3. CallsOK'
  <2>1. pc' \in [Thread -> Labels]
    BY DEF TypeOK, QueuesOK, CountersOK, CallsOK, Labels
  <2>2. key' \in [Thread -> Key \cup {None}]
    BY DEF TypeOK, QueuesOK, CountersOK, CallsOK
  <2>3. QED
    BY <2>1, <2>2 DEF TypeOK, QueuesOK, CountersOK, CallsOK
<1>4. LocalsOK'
  <2>0. PICK k \in drain :
            IF idle[k] = <<>> THEN UNCHANGED <<key, pc>>
            ELSE key' = [key EXCEPT ![t] = k] /\ Goto(t, "drainPop")
    OBVIOUS
  <2>a. k \in DOMAIN idle /\ k \in Key
    BY <2>0 DEF TypeOK, QueuesOK, CountersOK, CallsOK
  <2>b. CASE idle[k] = <<>>
    BY <2>0, <2>b DEF LocalsOK, Locked, Carrying, Borrowing
  <2>c. CASE idle[k] # <<>>
    <3> SUFFICES ASSUME NEW u \in Thread
                 PROVE  LocalsOK!(u)'
      BY DEF LocalsOK
    <3>1. CASE u = t
      <4>1. pc'[t] = "drainPop" /\ key'[t] = k
        BY <2>0, <2>c DEF TypeOK, QueuesOK, CountersOK, CallsOK
      <4>2. linked[t] = {} /\ obj[t] = None
        BY NoneAssumption DEF TypeOK, QueuesOK, CountersOK, CallsOK, LocalsOK, Locked,
           Carrying, Borrowing
      <4>3. QED
        BY <4>1, <4>2, <3>1, <2>a, NoneAssumption DEF TypeOK, QueuesOK, CountersOK,
           CallsOK, LocalsOK, Locked, Carrying, Borrowing
    <3>2. CASE u # t
      BY <2>0, <2>c, <3>2 DEF TypeOK, QueuesOK, CountersOK, CallsOK, LocalsOK, Locked,
         Carrying, Borrowing
    <3>3. QED
      BY <3>1, <3>2
  <2>d. QED
    BY <2>b, <2>c
<1>5. QED
  BY <1>1, <1>2, <1>3, <1>4 DEF TypeOK

\* DrainPop keeps the types and the locals.
LEMMA DrainPopOK ==
  ASSUME TypeOK, LocalsOK, NEW t \in Thread, DrainPop(t)
  PROVE  TypeOK' /\ LocalsOK'
<1> USE DEF DrainPop, DestroyObject, Goto, callVars, loopVars
<1>1. QueuesOK'
  BY PollOK, NoneAssumption DEF TypeOK, QueuesOK, CountersOK, CallsOK, LocalsOK, Locked,
     Carrying, Borrowing
<1>2. CountersOK'
  BY ConfigAssumption, NoneAssumption DEF TypeOK, QueuesOK, CountersOK, CallsOK
<1>3. CallsOK'
  BY PollOK, NoneAssumption, ConfigAssumption DEF TypeOK, QueuesOK, CountersOK, CallsOK,
     LocalsOK, Locked, Carrying, Borrowing,
     Labels, Jobs
<1>4. LocalsOK'
  BY PollOK, NoneAssumption DEF TypeOK, QueuesOK, CountersOK, CallsOK, LocalsOK, Locked,
     Carrying, Borrowing
<1>5. QED
  BY <1>1, <1>2, <1>3, <1>4 DEF TypeOK

\* ClearKeyEnd keeps the types and the locals.
LEMMA ClearKeyEndOK ==
  ASSUME TypeOK, LocalsOK, NEW t \in Thread, ClearKeyEnd(t)
  PROVE  TypeOK' /\ LocalsOK'
<1> USE DEF ClearKeyEnd, loopVars
<1>1. QueuesOK'
  BY NoneAssumption DEF TypeOK, QueuesOK, CountersOK, CallsOK, LocalsOK, Locked,
     Carrying, Borrowing
<1>2. CountersOK'
  BY ConfigAssumption, NoneAssumption DEF TypeOK, QueuesOK, CountersOK, CallsOK
<1>3. CallsOK'
  BY NoneAssumption, ConfigAssumption DEF TypeOK, QueuesOK, CountersOK, CallsOK,
     LocalsOK, Locked, Carrying, Borrowing,
     Labels, Jobs
<1>4. LocalsOK'
  <2> SUFFICES ASSUME NEW u \in Thread
               PROVE  LocalsOK!(u)'
    BY DEF LocalsOK
  <2>1. CASE u = t
    <3>1. linked[t] = {} /\ obj[t] = None
      BY NoneAssumption DEF TypeOK, QueuesOK, CountersOK, CallsOK, LocalsOK, Locked,
         Carrying, Borrowing
    <3>2. QED
      BY <2>1, <3>1, NoneAssumption DEF TypeOK, QueuesOK, CountersOK, CallsOK, LocalsOK,
         Locked, Carrying, Borrowing
  <2>2. CASE u # t
    BY <2>2, NoneAssumption DEF TypeOK, QueuesOK, CountersOK, CallsOK, LocalsOK, Locked,
       Carrying, Borrowing
  <2>3. QED
    BY <2>1, <2>2
<1>5. QED
  BY <1>1, <1>2, <1>3, <1>4 DEF TypeOK

\* ClearEnd keeps the types and the locals.
LEMMA ClearEndOK ==
  ASSUME TypeOK, LocalsOK, NEW t \in Thread, ClearEnd(t)
  PROVE  TypeOK' /\ LocalsOK'
<1> USE DEF ClearEnd, BusySet, Empty, Goto, loopVars
<1>1. QueuesOK'
  BY NoneAssumption DEF TypeOK, QueuesOK, CountersOK, CallsOK, LocalsOK, Locked,
     Carrying, Borrowing
<1>2. CountersOK'
  BY ConfigAssumption, NoneAssumption DEF TypeOK, QueuesOK, CountersOK, CallsOK
<1>3. CallsOK'
  <2>1. pc' \in [Thread -> Labels] /\ job' \in [Thread -> Jobs]
    BY DEF TypeOK, QueuesOK, CountersOK, CallsOK, Labels, Jobs
  <2>2. linked' \in [Thread -> SUBSET {"idle", "busy"}]
    OBVIOUS
  <2>3. QED
    BY <2>1, <2>2 DEF TypeOK, QueuesOK, CountersOK, CallsOK
<1>4. LocalsOK'
  BY NoneAssumption DEF TypeOK, QueuesOK, CountersOK, CallsOK, LocalsOK, Locked,
     Carrying, Borrowing
<1>5. QED
  BY <1>1, <1>2, <1>3, <1>4 DEF TypeOK

\* ReturnObject keeps the types and the locals.
LEMMA ReturnObjectOK ==
  ASSUME TypeOK, LocalsOK, NEW t \in Thread, ReturnObject(t)
  PROVE  TypeOK' /\ LocalsOK'
<1> USE DEF ReturnObject, Accepts, DestroyObject, EndCall, HasReachedMaxTotal,
        MustAllocate, RemoveBusy, loopVars
<1>1. QueuesOK'
  <2>1. busy' = [j \in DOMAIN busy |->
                   IF j = key[t] THEN busy[j] \ {obj[t]} ELSE busy[j]]
    OBVIOUS
  <2>2. DOMAIN busy' \subseteq Key /\ \A j \in DOMAIN busy' : busy'[j] \subseteq Transport
    BY <2>1 DEF TypeOK, QueuesOK, CountersOK, CallsOK
  <2>3. CASE idle' = idle
    BY <2>2, <2>3 DEF TypeOK, QueuesOK, CountersOK, CallsOK
  <2>4. CASE Push(key[t], obj[t]) /\ key[t] \in DOMAIN idle
    <3>1. obj[t] \in Transport
      BY NoneAssumption DEF TypeOK, QueuesOK, CountersOK, CallsOK, LocalsOK, Locked,
         Carrying, Borrowing
    <3>2. DOMAIN idle' = DOMAIN idle /\ \A j \in DOMAIN idle : idle'[j] \in Seq(Transport)
      BY <2>4, <3>1, PushOK DEF TypeOK
    <3>3. QED
      BY <2>2, <3>2 DEF TypeOK, QueuesOK, CountersOK, CallsOK
  <2>5. QED
    BY <2>3, <2>4
<1>2. CountersOK'
  BY ConfigAssumption, NoneAssumption DEF TypeOK, QueuesOK, CountersOK, CallsOK
<1>3. CallsOK'
  BY NoneAssumption, ConfigAssumption DEF TypeOK, QueuesOK, CountersOK, CallsOK,
     LocalsOK, Locked, Carrying, Borrowing,
     Labels, Jobs
<1>4. LocalsOK'
  <2>1. DOMAIN idle' = DOMAIN idle /\ DOMAIN busy' = DOMAIN busy
    BY DEF Push
  <2>2. QED
    BY <2>1, NoneAssumption DEF TypeOK, QueuesOK, CountersOK, CallsOK, LocalsOK, Locked,
       Carrying, Borrowing
<1>5. QED
  BY <1>1, <1>2, <1>3, <1>4 DEF TypeOK

\* ReturnThrows keeps the types and the locals.
LEMMA ReturnThrowsOK ==
  ASSUME TypeOK, LocalsOK, NEW t \in Thread, ReturnThrows(t)
  PROVE  TypeOK' /\ LocalsOK'
<1> USE DEF ReturnThrows, EndCall, RemoveBusy, loopVars
<1>1. QueuesOK'
  BY NoneAssumption DEF TypeOK, QueuesOK, CountersOK, CallsOK, LocalsOK, Locked,
     Carrying, Borrowing
<1>2. CountersOK'
  BY ConfigAssumption, NoneAssumption DEF TypeOK, QueuesOK, CountersOK, CallsOK
<1>3. CallsOK'
  BY NoneAssumption, ConfigAssumption DEF TypeOK, QueuesOK, CountersOK, CallsOK,
     LocalsOK, Locked, Carrying, Borrowing,
     Labels, Jobs
<1>4. LocalsOK'
  BY NoneAssumption DEF TypeOK, QueuesOK, CountersOK, CallsOK, LocalsOK, Locked,
     Carrying, Borrowing
<1>5. QED
  BY <1>1, <1>2, <1>3, <1>4 DEF TypeOK

\* ReturnToAllocate keeps the types and the locals.
LEMMA ReturnToAllocateOK ==
  ASSUME TypeOK, LocalsOK, NEW t \in Thread, ReturnToAllocate(t)
  PROVE  TypeOK' /\ LocalsOK'
<1> USE DEF ReturnToAllocate, Goto, HasReachedMaxTotal, MustAllocate, RemoveBusy, loopVars
<1>1. QueuesOK'
  BY NoneAssumption DEF TypeOK, QueuesOK, CountersOK, CallsOK, LocalsOK, Locked,
     Carrying, Borrowing
<1>2. CountersOK'
  BY ConfigAssumption, NoneAssumption DEF TypeOK, QueuesOK, CountersOK, CallsOK
<1>3. CallsOK'
  BY NoneAssumption, ConfigAssumption DEF TypeOK, QueuesOK, CountersOK, CallsOK,
     LocalsOK, Locked, Carrying, Borrowing,
     Labels, Jobs
<1>4. LocalsOK'
  BY NoneAssumption DEF TypeOK, QueuesOK, CountersOK, CallsOK, LocalsOK, Locked,
     Carrying, Borrowing
<1>5. QED
  BY <1>1, <1>2, <1>3, <1>4 DEF TypeOK

\* Close keeps the types and the locals.
LEMMA CloseOK ==
  ASSUME TypeOK, LocalsOK, NEW t \in Thread, Close(t)
  PROVE  TypeOK' /\ LocalsOK'
<1> USE DEF Close, Call, Goto, loopVars
<1>1. QueuesOK'
  BY NoneAssumption DEF TypeOK, QueuesOK, CountersOK, CallsOK, LocalsOK, Locked,
     Carrying, Borrowing
<1>2. CountersOK'
  BY ConfigAssumption, NoneAssumption DEF TypeOK, QueuesOK, CountersOK, CallsOK
<1>3. CallsOK'
  BY NoneAssumption, ConfigAssumption DEF TypeOK, QueuesOK, CountersOK, CallsOK,
     LocalsOK, Locked, Carrying, Borrowing,
     Labels, Jobs
<1>4. LocalsOK'
  BY NoneAssumption DEF TypeOK, QueuesOK, CountersOK, CallsOK, LocalsOK, Locked,
     Carrying, Borrowing
<1>5. QED
  BY <1>1, <1>2, <1>3, <1>4 DEF TypeOK

\* Destroy keeps the types and the locals.
LEMMA DestroyOK ==
  ASSUME TypeOK, LocalsOK, NEW t \in Thread, Destroy(t)
  PROVE  TypeOK' /\ LocalsOK'
<1> USE DEF Destroy, Call, FactoryLockFree, Goto, loopVars, poolVars
<1>1. QueuesOK'
  BY NoneAssumption DEF TypeOK, QueuesOK, CountersOK, CallsOK, LocalsOK, Locked,
     Carrying, Borrowing
<1>2. CountersOK'
  BY ConfigAssumption, NoneAssumption DEF TypeOK, QueuesOK, CountersOK, CallsOK
<1>3. CallsOK'
  BY NoneAssumption, ConfigAssumption DEF TypeOK, QueuesOK, CountersOK, CallsOK,
     LocalsOK, Locked, Carrying, Borrowing,
     Labels, Jobs
<1>4. LocalsOK'
  BY NoneAssumption DEF TypeOK, QueuesOK, CountersOK, CallsOK, LocalsOK, Locked,
     Carrying, Borrowing
<1>5. QED
  BY <1>1, <1>2, <1>3, <1>4 DEF TypeOK

\* BorrowRefused keeps the types and the locals.
LEMMA BorrowRefusedOK ==
  ASSUME TypeOK, LocalsOK, NEW t \in Thread, NEW k \in Key, BorrowRefused(t, k)
  PROVE  TypeOK' /\ LocalsOK'
<1> USE DEF BorrowRefused, Call, callVars, loopVars, poolVars
<1>1. QueuesOK'
  BY NoneAssumption DEF TypeOK, QueuesOK, CountersOK, CallsOK, LocalsOK, Locked,
     Carrying, Borrowing
<1>2. CountersOK'
  BY ConfigAssumption, NoneAssumption DEF TypeOK, QueuesOK, CountersOK, CallsOK
<1>3. CallsOK'
  BY NoneAssumption, ConfigAssumption DEF TypeOK, QueuesOK, CountersOK, CallsOK,
     LocalsOK, Locked, Carrying, Borrowing,
     Labels, Jobs
<1>4. LocalsOK'
  BY NoneAssumption DEF TypeOK, QueuesOK, CountersOK, CallsOK, LocalsOK, Locked,
     Carrying, Borrowing
<1>5. QED
  BY <1>1, <1>2, <1>3, <1>4 DEF TypeOK

\* BorrowObject keeps the types and the locals.
LEMMA BorrowObjectOK ==
  ASSUME TypeOK, LocalsOK, NEW t \in Thread, NEW k \in Key, BorrowObject(t, k)
  PROVE  TypeOK' /\ LocalsOK'
<1> USE DEF BorrowObject, Call, Goto, Obtained, loopVars
<1>1. QueuesOK'
  BY PollOK, NoneAssumption DEF TypeOK, QueuesOK, CountersOK, CallsOK, LocalsOK, Locked,
     Carrying, Borrowing
<1>2. CountersOK'
  BY ConfigAssumption, NoneAssumption DEF TypeOK, QueuesOK, CountersOK, CallsOK
<1>3. CallsOK'
  <2>1. pc' \in [Thread -> Labels] /\ key' \in [Thread -> Key \cup {None}]
    BY DEF TypeOK, QueuesOK, CountersOK, CallsOK, Labels
  <2>2. obj' \in [Thread -> Transport \cup {None}]
    <3>1. CASE idle[k] # <<>>
      <4>1. Head(idle[k]) \in Transport
        BY <3>1, PollOK DEF TypeOK, QueuesOK, CountersOK, CallsOK
      <4>2. QED
        BY <3>1, <4>1 DEF TypeOK, QueuesOK, CountersOK, CallsOK
    <3>2. CASE idle[k] = <<>>
      BY <3>2 DEF TypeOK, QueuesOK, CountersOK, CallsOK
    <3>3. QED
      BY <3>1, <3>2
  <2>3. linked' \in [Thread -> SUBSET {"idle", "busy"}] /\ ops' \in [Thread -> 0..MaxOps]
    BY ConfigAssumption DEF TypeOK, QueuesOK, CountersOK, CallsOK
  <2>4. QED
    BY <2>1, <2>2, <2>3 DEF TypeOK, QueuesOK, CountersOK, CallsOK
<1>4. LocalsOK'
  BY PollOK, NoneAssumption DEF TypeOK, QueuesOK, CountersOK, CallsOK, LocalsOK, Locked,
     Carrying, Borrowing
<1>5. QED
  BY <1>1, <1>2, <1>3, <1>4 DEF TypeOK

\* AddObject keeps the types and the locals.
LEMMA AddObjectOK ==
  ASSUME TypeOK, LocalsOK, NEW t \in Thread, NEW k \in Key, AddObject(t, k)
  PROVE  TypeOK' /\ LocalsOK'
<1> USE DEF AddObject, CalculateMinIdleGrow, FactoryLockFree, Goto
<1>1. QueuesOK'
  BY NoneAssumption DEF TypeOK, QueuesOK, CountersOK, CallsOK, LocalsOK, Locked,
     Carrying, Borrowing
<1>2. CountersOK'
  BY ConfigAssumption, NoneAssumption DEF TypeOK, QueuesOK, CountersOK, CallsOK
<1>3. CallsOK'
  BY NoneAssumption, ConfigAssumption DEF TypeOK, QueuesOK, CountersOK, CallsOK,
     LocalsOK, Locked, Carrying, Borrowing,
     Labels, Jobs
<1>4. LocalsOK'
  BY NoneAssumption DEF TypeOK, QueuesOK, CountersOK, CallsOK, LocalsOK, Locked,
     Carrying, Borrowing
<1>5. QED
  BY <1>1, <1>2, <1>3, <1>4 DEF TypeOK

\* ClearKey keeps the types and the locals.
LEMMA ClearKeyOK ==
  ASSUME TypeOK, LocalsOK, NEW t \in Thread, NEW k \in Key, ClearKey(t, k)
  PROVE  TypeOK' /\ LocalsOK'
<1> USE DEF ClearKey, Call, FactoryLockFree, Goto
<1>1. QueuesOK'
  BY NoneAssumption DEF TypeOK, QueuesOK, CountersOK, CallsOK, LocalsOK, Locked,
     Carrying, Borrowing
<1>2. CountersOK'
  BY ConfigAssumption, NoneAssumption DEF TypeOK, QueuesOK, CountersOK, CallsOK
<1>3. CallsOK'
  BY NoneAssumption, ConfigAssumption DEF TypeOK, QueuesOK, CountersOK, CallsOK,
     LocalsOK, Locked, Carrying, Borrowing,
     Labels, Jobs
<1>4. LocalsOK'
  <2> SUFFICES ASSUME NEW u \in Thread
               PROVE  LocalsOK!(u)'
    BY DEF LocalsOK
  <2>1. CASE u = t
    <3>1. linked[t] = {} /\ obj[t] = None
      BY NoneAssumption DEF TypeOK, QueuesOK, CountersOK, CallsOK, LocalsOK, Locked,
         Carrying, Borrowing
    <3>2. QED
      BY <2>1, <3>1, NoneAssumption DEF TypeOK, QueuesOK, CountersOK, CallsOK, LocalsOK,
         Locked, Carrying, Borrowing
  <2>2. CASE u # t
    BY <2>2, NoneAssumption DEF TypeOK, QueuesOK, CountersOK, CallsOK, LocalsOK, Locked,
       Carrying, Borrowing
  <2>3. QED
    BY <2>1, <2>2
<1>5. QED
  BY <1>1, <1>2, <1>3, <1>4 DEF TypeOK

\* InvalidateNoBusy keeps the types and the locals.
LEMMA InvalidateNoBusyOK ==
  ASSUME TypeOK, LocalsOK, NEW t \in Thread, NEW k \in Key, InvalidateNoBusy(t, k)
  PROVE  TypeOK' /\ LocalsOK'
<1> USE DEF InvalidateNoBusy, EndCall, InvalidKeys, loopVars, poolVars
<1>1. QueuesOK'
  BY NoneAssumption DEF TypeOK, QueuesOK, CountersOK, CallsOK, LocalsOK, Locked,
     Carrying, Borrowing
<1>2. CountersOK'
  BY ConfigAssumption, NoneAssumption DEF TypeOK, QueuesOK, CountersOK, CallsOK
<1>3. CallsOK'
  BY NoneAssumption, ConfigAssumption DEF TypeOK, QueuesOK, CountersOK, CallsOK,
     LocalsOK, Locked, Carrying, Borrowing,
     Labels, Jobs
<1>4. LocalsOK'
  BY NoneAssumption DEF TypeOK, QueuesOK, CountersOK, CallsOK, LocalsOK, Locked,
     Carrying, Borrowing
<1>5. QED
  BY <1>1, <1>2, <1>3, <1>4 DEF TypeOK

\* InvalidateNoIdle keeps the types and the locals.
LEMMA InvalidateNoIdleOK ==
  ASSUME TypeOK, LocalsOK, NEW t \in Thread, NEW k \in Key, InvalidateNoIdle(t, k)
  PROVE  TypeOK' /\ LocalsOK'
<1> USE DEF InvalidateNoIdle, EndCall, InvalidKeys, RemoveBusy, loopVars
<1>1. QueuesOK'
  BY NoneAssumption DEF TypeOK, QueuesOK, CountersOK, CallsOK, LocalsOK, Locked,
     Carrying, Borrowing
<1>2. CountersOK'
  BY ConfigAssumption, NoneAssumption DEF TypeOK, QueuesOK, CountersOK, CallsOK
<1>3. CallsOK'
  BY NoneAssumption, ConfigAssumption DEF TypeOK, QueuesOK, CountersOK, CallsOK,
     LocalsOK, Locked, Carrying, Borrowing,
     Labels, Jobs
<1>4. LocalsOK'
  BY NoneAssumption DEF TypeOK, QueuesOK, CountersOK, CallsOK, LocalsOK, Locked,
     Carrying, Borrowing
<1>5. QED
  BY <1>1, <1>2, <1>3, <1>4 DEF TypeOK

\* InvalidateObject keeps the types and the locals.
LEMMA InvalidateObjectOK ==
  ASSUME TypeOK, LocalsOK, NEW t \in Thread, NEW k \in Key, InvalidateObject(t, k)
  PROVE  TypeOK' /\ LocalsOK'
<1> USE DEF InvalidateObject, DestroyObject, EndCall, Goto, HasReachedMaxTotal,
        InvalidKeys, MustAllocate, RemoveBusy, loopVars
<1>1. QueuesOK'
  BY NoneAssumption DEF TypeOK, QueuesOK, CountersOK, CallsOK, LocalsOK, Locked,
     Carrying, Borrowing
<1>2. CountersOK'
  BY ConfigAssumption, NoneAssumption DEF TypeOK, QueuesOK, CountersOK, CallsOK
<1>3. CallsOK'
  <2>1. pc' \in [Thread -> Labels] /\ job' \in [Thread -> Jobs]
    BY DEF TypeOK, QueuesOK, CountersOK, CallsOK, Labels, Jobs
  <2>2. /\ key' \in [Thread -> Key \cup {None}]
        /\ obj' \in [Thread -> Transport \cup {None}]
    BY DEF TypeOK, QueuesOK, CountersOK, CallsOK
  <2>3. tmp' \in [Thread -> Int]
    BY DEF TypeOK, QueuesOK, CountersOK, CallsOK
  <2>4. linked' \in [Thread -> SUBSET {"idle", "busy"}]
    <3>1. linked' = linked \/ linked' = [linked EXCEPT ![t] = {}]
      OBVIOUS
    <3>2. QED
      BY <3>1 DEF TypeOK, QueuesOK, CountersOK, CallsOK
  <2>5. QED
    BY <2>1, <2>2, <2>3, <2>4 DEF TypeOK, QueuesOK, CountersOK, CallsOK
<1>4. LocalsOK'
  BY NoneAssumption DEF TypeOK, QueuesOK, CountersOK, CallsOK, LocalsOK, Locked,
     Carrying, Borrowing
<1>5. QED
  BY <1>1, <1>2, <1>3, <1>4 DEF TypeOK

\* Every step keeps the types and the locals.
LEMMA NextOK ==
  ASSUME TypeOK, LocalsOK, [Next]_vars
  PROVE  TypeOK' /\ LocalsOK'
<1>1. ASSUME NEW t \in Thread, Step(t)
      PROVE  TypeOK' /\ LocalsOK'
  BY <1>1, ValidateObjectOK, ValidateThrowsOK, LoopCreateOK, LoopStealOK, LoopAskAllocateOK,
     LoopWaitOK, MakeObjectOK, MakeObjectThrowsOK, PopOK,
     PopThrowsOK, UnwindOK, DecrementReadOK, DecrementWriteOK,
     RelockOK, ActivateOK, AllocateOK, AllocateThrowsOK,
     AllocateNullOK, EnsureMinIdleOK, AddObjectEndOK, DestroyCloseOK,
     ClearOK, DrainSizeOK, DrainPopOK, ClearKeyEndOK,
     ClearEndOK
     DEF Step
<1>2. ASSUME NEW t \in Thread, Release(t)
      PROVE  TypeOK' /\ LocalsOK'
  BY <1>2, ReturnObjectOK, ReturnThrowsOK, ReturnToAllocateOK, InvalidateNoBusyOK, InvalidateNoIdleOK,
     InvalidateObjectOK DEF Release
<1>3. ASSUME NEW t \in Thread, Start(t)
      PROVE  TypeOK' /\ LocalsOK'
  BY <1>3, BorrowRefusedOK, BorrowObjectOK, AddObjectOK, ClearKeyOK, CloseOK, DestroyOK
     DEF Start
<1>4. CASE UNCHANGED vars
  BY <1>4 DEF vars, TypeOK, QueuesOK, CountersOK, CallsOK, LocalsOK
<1>5. QED
  BY <1>1, <1>2, <1>3, <1>4 DEF Next, Done

\* Every reachable state of the pool is well typed and the locals of every thread agree
\* with its place in the code: the mutex is held in the locked sections and only there,
\* captured queues are those of the key, and the allocation branch finds a request.
THEOREM TypeCorrect == Spec => [](TypeOK /\ LocalsOK)
<1>1. Init => TypeOK /\ LocalsOK
  BY InitOK
<1>2. TypeOK /\ LocalsOK /\ [Next]_vars => TypeOK' /\ LocalsOK'
  BY NextOK
<1>3. QED
  BY <1>1, <1>2, PTL DEF Spec

-----------------------------------------------------------------------------
(* Sharing: NoSharing and RightServer, which are inductive together.  Two  *)
(* queues are disjoint because their transports are connected to different *)
(* servers.                                                                *)

NoDup(q) == \A i, j \in DOMAIN q : q[i] = q[j] => i = j

\* pop_front() of a queue without duplicates removes its front and nothing else.
LEMMA TailFacts ==
  ASSUME NEW S, NEW q \in Seq(S), q # <<>>, NoDup(q)
  PROVE  /\ NoDup(Tail(q))
         /\ Head(q) \in Range(q)
         /\ Range(Tail(q)) = Range(q) \ {Head(q)}
<1>1. /\ Len(q) \in Nat /\ Len(q) > 0 /\ DOMAIN q = 1..Len(q) /\ Head(q) = q[1]
      /\ Tail(q) \in Seq(S) /\ Len(Tail(q)) = Len(q) - 1
      /\ \A i \in 1..Len(Tail(q)) : Tail(q)[i] = q[i + 1]
  BY HeadTailProperties
<1>2. DOMAIN Tail(q) = 1..(Len(q) - 1)
  BY <1>1
<1>3. \A i \in 1..(Len(q) - 1) : Tail(q)[i] = q[i + 1] /\ i + 1 \in DOMAIN q /\ i + 1 # 1
  BY <1>1
<1>4. NoDup(Tail(q))
  BY <1>1, <1>2, <1>3 DEF NoDup
<1>5. Head(q) \in Range(q)
  BY <1>1 DEF Range
<1>6. ASSUME NEW x \in Range(Tail(q)) PROVE x \in Range(q) \ {Head(q)}
  <2>1. PICK i \in 1..(Len(q) - 1) : x = Tail(q)[i]
    BY <1>2 DEF Range
  <2>2. x = q[i + 1] /\ i + 1 \in DOMAIN q /\ i + 1 # 1
    BY <1>3, <2>1
  <2>3. x # q[1]
    BY <1>1, <2>2 DEF NoDup
  <2>4. QED
    BY <1>1, <2>2, <2>3 DEF Range
<1>7. ASSUME NEW x \in Range(q) \ {Head(q)} PROVE x \in Range(Tail(q))
  <2>1. PICK i \in 1..Len(q) : x = q[i]
    BY <1>1 DEF Range
  <2>2. i # 1 /\ i - 1 \in 1..(Len(q) - 1) /\ (i - 1) + 1 = i
    BY <1>1, <2>1
  <2>3. x = Tail(q)[i - 1]
    BY <1>3, <2>1, <2>2
  <2>4. QED
    BY <1>2, <2>2, <2>3 DEF Range
<1>8. QED
  BY <1>4, <1>5, <1>6, <1>7

\* push_back() of a new element keeps a queue free of duplicates.
LEMMA AppendFacts ==
  ASSUME NEW S, NEW q \in Seq(S), NEW e \in S, e \notin Range(q), NoDup(q)
  PROVE  /\ NoDup(Append(q, e))
         /\ Range(Append(q, e)) = Range(q) \cup {e}
<1>1. /\ Len(q) \in Nat /\ DOMAIN q = 1..Len(q)
      /\ Append(q, e) \in Seq(S) /\ Len(Append(q, e)) = Len(q) + 1
      /\ \A i \in 1..Len(q) : Append(q, e)[i] = q[i]
      /\ Append(q, e)[Len(q) + 1] = e
  BY AppendProperties
<1>2. DOMAIN Append(q, e) = 1..(Len(q) + 1)
  BY <1>1
<1>3. \A i \in 1..Len(q) : q[i] # e
  BY <1>1 DEF Range
<1>4. NoDup(Append(q, e))
  BY <1>1, <1>2, <1>3 DEF NoDup
<1>5. ASSUME NEW x \in Range(Append(q, e)) PROVE x \in Range(q) \cup {e}
  BY <1>1, <1>2 DEF Range
<1>6. ASSUME NEW x \in Range(q) \cup {e} PROVE x \in Range(Append(q, e))
  BY <1>1, <1>2 DEF Range
<1>7. QED
  BY <1>4, <1>5, <1>6

-----------------------------------------------------------------------------
Sharing == NoSharing /\ RightServer

\* The part of Sharing that is about the idle queues.
QueuesDistinct ==
    \A k \in DOMAIN idle : NoDup(idle[k]) /\ \A tr \in Range(idle[k]) : tr[1] = k

\* Taking the front of an idle queue removes that transport from the idle ones, and
\* the transport is connected to the server of the queue.
LEMMA PollFacts ==
  ASSUME TypeOK, Sharing, NEW k \in DOMAIN idle, idle[k] # <<>>, Poll(k)
  PROVE  /\ QueuesDistinct'
         /\ Head(idle[k]) \in IdleSet
         /\ Head(idle[k])[1] = k
         /\ IdleSet' = IdleSet \ {Head(idle[k])}
<1> DEFINE h == Head(idle[k])
<1>1. idle[k] \in Seq(Transport) /\ NoDup(idle[k])
  BY DEF TypeOK, QueuesOK, Sharing, NoSharing, NoDup
<1>2. /\ NoDup(Tail(idle[k])) /\ h \in Range(idle[k])
      /\ Range(Tail(idle[k])) = Range(idle[k]) \ {h}
  BY <1>1, TailFacts
<1>3. h[1] = k /\ h \in IdleSet
  BY <1>2 DEF Sharing, RightServer, IdleSet
<1>4. DOMAIN idle' = DOMAIN idle /\ idle'[k] = Tail(idle[k])
      /\ \A j \in DOMAIN idle : j # k => idle'[j] = idle[j] /\ h \notin Range(idle[j])
  BY <1>3 DEF Poll, Sharing, RightServer
<1>5. \A j \in DOMAIN idle : Range(idle'[j]) = Range(idle[j]) \ {h}
  BY <1>2, <1>4
<1>6. \A j \in DOMAIN idle : NoDup(idle'[j])
  BY <1>2, <1>4 DEF Sharing, NoSharing, NoDup
<1>7. QueuesDistinct'
  BY <1>4, <1>5, <1>6 DEF QueuesDistinct, Sharing, RightServer
<1>8. IdleSet' = IdleSet \ {h}
  BY <1>4, <1>5 DEF IdleSet
<1>9. QED
  BY <1>3, <1>7, <1>8

\* Putting back a transport that is not idle, under its own server, adds just it.
LEMMA PushFacts ==
  ASSUME TypeOK, Sharing, NEW k \in DOMAIN idle, NEW tr \in Transport, tr \notin IdleSet,
         tr[1] = k, Push(k, tr)
  PROVE  /\ QueuesDistinct'
         /\ IdleSet' = IdleSet \cup {tr}
<1>1. idle[k] \in Seq(Transport) /\ NoDup(idle[k]) /\ tr \notin Range(idle[k])
  BY DEF TypeOK, QueuesOK, Sharing, NoSharing, NoDup, IdleSet
<1>2. NoDup(Append(idle[k], tr)) /\ Range(Append(idle[k], tr)) = Range(idle[k]) \cup {tr}
  BY <1>1, AppendFacts
<1>3. DOMAIN idle' = DOMAIN idle /\ idle'[k] = Append(idle[k], tr)
      /\ \A j \in DOMAIN idle : j # k => idle'[j] = idle[j]
  BY DEF Push
<1>4. \A j \in DOMAIN idle : NoDup(idle'[j])
  BY <1>2, <1>3 DEF Sharing, NoSharing, NoDup
<1>5. QueuesDistinct'
  BY <1>2, <1>3, <1>4, ZenonT(30) DEF QueuesDistinct, Sharing, RightServer
<1>6. IdleSet' = IdleSet \cup {tr}
  <2>1. ASSUME NEW x \in IdleSet' PROVE x \in IdleSet \cup {tr}
    <3>1. PICK j \in DOMAIN idle : x \in Range(idle'[j])
      BY <1>3 DEF IdleSet
    <3>2. QED
      BY <1>2, <1>3, <3>1 DEF IdleSet
  <2>2. ASSUME NEW x \in IdleSet PROVE x \in IdleSet'
    <3>1. PICK j \in DOMAIN idle : x \in Range(idle[j])
      BY DEF IdleSet
    <3>2. x \in Range(idle'[j])
      BY <1>2, <1>3, <3>1
    <3>3. QED
      BY <1>3, <3>1, <3>2 DEF IdleSet
  <2>3. tr \in IdleSet'
    BY <1>2, <1>3, ZenonT(30) DEF IdleSet
  <2>4. QED
    BY <2>1, <2>2, <2>3
<1>7. QED
  BY <1>5, <1>6

\* A transport makeObject returns is new and connected to the server it is made for.
LEMMA Fresh ==
  ASSUME NEW k \in Key, NEW tr \in Makable(k)
  PROVE  /\ tr \in Transport /\ tr # None /\ tr[1] = k
         /\ tr \notin IdleSet /\ tr \notin live
         /\ \A u \in Thread : obj[u] # tr
<1>1. tr \in {k} \X Id /\ tr \notin InUse
  BY DEF Makable
<1>2. tr \in Transport /\ tr[1] = k
  BY <1>1 DEF Transport
<1>3. tr # None
  BY <1>2, NoneAssumption
<1>4. tr \notin IdleSet /\ tr \notin live /\ tr \notin {obj[u] : u \in Thread}
  BY <1>1 DEF InUse
<1>5. QED
  BY <1>2, <1>3, <1>4

\* Steps that take transports out of queues and threads, and put none in.
LEMMA Fewer ==
  ASSUME Sharing, QueuesDistinct', IdleSet' \subseteq IdleSet, None \notin IdleSet,
         \A u \in Thread : obj'[u] = None \/ (obj'[u] = obj[u] /\ key'[u] = key[u])
  PROVE  Sharing'
<1>1. NoSharing'
  BY DEF Sharing, NoSharing, QueuesDistinct, NoDup
<1>2. RightServer'
  BY DEF Sharing, RightServer, QueuesDistinct
<1>3. QED
  BY <1>1, <1>2 DEF Sharing

\* A thread obtains a transport nobody has: from an idle queue or from makeObject.
LEMMA Gains ==
  ASSUME Sharing, CallsOK, NEW t \in Thread, NEW tr, tr # None,
         QueuesDistinct', IdleSet' \subseteq IdleSet \ {tr},
         obj' = [obj EXCEPT ![t] = tr], tr[1] = key'[t],
         \A u \in Thread : obj[u] # tr,
         \A u \in Thread \ {t} : key'[u] = key[u]
  PROVE  Sharing'
<1>1. obj'[t] = tr /\ \A u \in Thread \ {t} : obj'[u] = obj[u]
  BY DEF CallsOK
<1>2. NoSharing'
  BY <1>1 DEF Sharing, NoSharing, QueuesDistinct, NoDup
<1>3. RightServer'
  BY <1>1 DEF Sharing, RightServer, QueuesDistinct
<1>4. QED
  BY <1>2, <1>3 DEF Sharing

\* A transport nobody keeps becomes idle: returned, allocated or made by ensureMinIdle.
LEMMA Pools ==
  ASSUME Sharing, NEW tr, tr # None, None \notin IdleSet,
         QueuesDistinct', IdleSet' \subseteq IdleSet \cup {tr},
         \A u \in Thread : \/ obj'[u] = None
                           \/ obj'[u] = obj[u] /\ key'[u] = key[u] /\ obj[u] # tr
  PROVE  Sharing'
<1>1. NoSharing'
  BY DEF Sharing, NoSharing, QueuesDistinct, NoDup
<1>2. RightServer'
  BY DEF Sharing, RightServer, QueuesDistinct
<1>3. QED
  BY <1>1, <1>2 DEF Sharing

\* Queues that do not change keep what is known of them.
LEMMA SameQueues ==
  ASSUME Sharing, UNCHANGED idle
  PROVE  QueuesDistinct' /\ IdleSet' = IdleSet
  BY DEF Sharing, NoSharing, RightServer, QueuesDistinct, NoDup, IdleSet

\* The idle queues hold transports, never NULL.
LEMMA NoneNotIdle ==
  ASSUME TypeOK
  PROVE  IdleSet \subseteq Transport /\ None \notin IdleSet
<1>1. \A k \in DOMAIN idle : Range(idle[k]) \subseteq Transport
  BY DEF TypeOK, QueuesOK, Range
<1>2. QED
  BY <1>1, NoneAssumption DEF IdleSet

\* The steps that leave the idle queues alone and give no thread a transport.
Quiet(t) ==
    \/ ValidateObject(t) \/ ValidateThrows(t) \/ ReturnThrows(t)
    \/ LoopCreate(t) \/ LoopAskAllocate(t) \/ LoopWait(t)
    \/ MakeObjectThrows(t) \/ PopThrows(t) \/ Unwind(t) \/ DecrementRead(t)
    \/ DecrementWrite(t) \/ Relock(t) \/ Activate(t) \/ ReturnToAllocate(t)
    \/ AllocateThrows(t) \/ AllocateNull(t) \/ AddObjectEnd(t) \/ Close(t) \/ Destroy(t)
    \/ DestroyClose(t) \/ Clear(t) \/ DrainSize(t)
    \/ \E k \in Key : \/ InvalidateNoBusy(t, k) \/ InvalidateNoIdle(t, k)
                      \/ InvalidateObject(t, k) \/ BorrowRefused(t, k) \/ ClearKey(t, k)

\* The quiet steps keep transports apart.
LEMMA QuietSharing ==
  ASSUME TypeOK, LocalsOK, Sharing, NEW t \in Thread, Quiet(t)
  PROVE  Sharing'
<1> DEFINE Kept == /\ UNCHANGED idle
                   /\ \A u \in Thread :
                         obj'[u] = None \/ (obj'[u] = obj[u] /\ key'[u] = key[u])
<1>0. Kept => Sharing'
  BY Fewer, SameQueues, NoneNotIdle
<1>a. ASSUME ValidateThrows(t) PROVE Kept
  BY <1>a DEF ValidateThrows, EndCall, loopVars, poolVars, TypeOK, CallsOK
<1>b. ASSUME ReturnThrows(t) PROVE Kept
  BY <1>b DEF ReturnThrows, EndCall, loopVars, TypeOK, CallsOK
<1>1. ASSUME LoopCreate(t) PROVE Kept
  BY <1>1 DEF LoopCreate, Goto, callVars, loopVars, poolVars, TypeOK, CallsOK
<1>2. ASSUME LoopAskAllocate(t) PROVE Kept
  BY <1>2 DEF LoopAskAllocate, Goto, callVars, loopVars, TypeOK, CallsOK
<1>3. ASSUME LoopWait(t) PROVE Kept
  BY <1>3 DEF LoopWait, Goto, callVars, loopVars, poolVars, TypeOK, CallsOK
<1>4. ASSUME MakeObjectThrows(t) PROVE Kept
  BY <1>4 DEF MakeObjectThrows, EndCall, loopVars, poolVars, TypeOK, CallsOK
<1>5. ASSUME PopThrows(t) PROVE Kept
  BY <1>5 DEF PopThrows, Goto, callVars, loopVars, poolVars, TypeOK, CallsOK
<1>6. ASSUME Unwind(t) PROVE Kept
  BY <1>6 DEF Unwind, EndCall, loopVars, poolVars, TypeOK, CallsOK
<1>7. ASSUME DecrementRead(t) PROVE Kept
  BY <1>7 DEF DecrementRead, Goto, loopVars, poolVars, TypeOK, CallsOK
<1>8. ASSUME DecrementWrite(t) PROVE Kept
  BY <1>8 DEF DecrementWrite, Goto, loopVars, TypeOK, CallsOK
<1>9. ASSUME Relock(t) PROVE Kept
  BY <1>9 DEF Relock, Goto, callVars, loopVars, poolVars, TypeOK, CallsOK
<1>10. ASSUME Activate(t) PROVE Kept
  BY <1>10 DEF Activate, Goto, TypeOK, CallsOK
<1>11. ASSUME ReturnToAllocate(t) PROVE Kept
  BY <1>11 DEF ReturnToAllocate, Goto, loopVars, TypeOK, CallsOK
<1>12. ASSUME AllocateThrows(t) PROVE Kept
  BY <1>12 DEF AllocateThrows, EndCall, loopVars, TypeOK, CallsOK
<1>13. ASSUME AllocateNull(t) PROVE Kept
  BY <1>13 DEF AllocateNull, Goto, callVars, loopVars, poolVars, TypeOK, CallsOK
<1>14. ASSUME AddObjectEnd(t) PROVE Kept
  BY <1>14 DEF AddObjectEnd, EndCall, poolVars, TypeOK, CallsOK
<1>15. ASSUME Close(t) PROVE Kept
  BY <1>15 DEF Close, Call, Goto, loopVars, TypeOK, CallsOK
<1>16. ASSUME Destroy(t) PROVE Kept
  BY <1>16 DEF Destroy, Call, Goto, loopVars, poolVars, TypeOK, CallsOK
<1>17. ASSUME DestroyClose(t) PROVE Kept
  BY <1>17 DEF DestroyClose, Goto, loopVars, TypeOK, CallsOK
<1>18. ASSUME Clear(t) PROVE Kept
  BY <1>18 DEF Clear, Goto, callVars, poolVars, TypeOK, CallsOK
<1>19. ASSUME ValidateObject(t) PROVE Kept
  BY <1>19 DEF ValidateObject, DestroyObject, Goto, callVars, loopVars, poolVars, TypeOK,
     CallsOK
<1>20. ASSUME DrainSize(t) PROVE Kept
  BY <1>20 DEF DrainSize, Goto, poolVars, TypeOK, CallsOK, LocalsOK, Carrying
<1>21. ASSUME NEW k \in Key, InvalidateNoBusy(t, k) PROVE Kept
  BY <1>21 DEF InvalidateNoBusy, EndCall, loopVars, poolVars, TypeOK, CallsOK
<1>22. ASSUME NEW k \in Key, InvalidateNoIdle(t, k) PROVE Kept
  BY <1>22 DEF InvalidateNoIdle, EndCall, loopVars, TypeOK, CallsOK
<1>23. ASSUME NEW k \in Key, InvalidateObject(t, k) PROVE Kept
  BY <1>23 DEF InvalidateObject, DestroyObject, EndCall, Goto, loopVars, TypeOK, CallsOK
<1>24. ASSUME NEW k \in Key, BorrowRefused(t, k) PROVE Kept
  BY <1>24 DEF BorrowRefused, Call, callVars, loopVars, poolVars, TypeOK, CallsOK
<1>25. ASSUME NEW k \in Key, ClearKey(t, k) PROVE Kept
  BY <1>25 DEF ClearKey, Call, Goto, TypeOK, CallsOK, LocalsOK, Carrying
<1> QED
  BY <1>0, <1>a, <1>b, <1>1, <1>2, <1>3, <1>4, <1>5, <1>6, <1>7, <1>8, <1>9, <1>10, <1>11, <1>12,
     <1>13, <1>14, <1>15, <1>16, <1>17, <1>18, <1>19, <1>20, <1>21, <1>22, <1>23, <1>24,
     <1>25 DEF Quiet

\* BorrowObject keeps transports apart, each under its server.
LEMMA BorrowObjectSharing ==
  ASSUME TypeOK, LocalsOK, Sharing, NEW t \in Thread, NEW k \in Key, BorrowObject(t, k)
  PROVE  Sharing'
<1> USE DEF BorrowObject
<1>1. CASE idle[k] # <<>>
  <2>1. Poll(k) /\ obj' = [obj EXCEPT ![t] = Head(idle[k])]
        /\ key'[t] = k /\ \A u \in Thread \ {t} : key'[u] = key[u]
    BY <1>1 DEF TypeOK, CallsOK
  <2>2. /\ QueuesDistinct' /\ Head(idle[k]) \in IdleSet /\ Head(idle[k])[1] = k
        /\ IdleSet' = IdleSet \ {Head(idle[k])}
    BY <1>1, <2>1, PollFacts
  <2>3. Head(idle[k]) # None /\ \A u \in Thread : obj[u] # Head(idle[k])
    BY <2>2, NoneNotIdle DEF Sharing, NoSharing
  <2>4. QED
    BY <2>1, <2>2, <2>3, Gains DEF TypeOK
<1>2. CASE idle[k] = <<>>
  <2>1. UNCHANGED <<idle,
  obj>> /\ obj[t] = None /\ \A u \in Thread \ {t} : key'[u] = key[u]
    BY <1>2 DEF TypeOK, CallsOK, LocalsOK, Carrying, Call
  <2>2. QED
    BY <2>1, SameQueues, NoneNotIdle, Fewer
<1>3. QED
  BY <1>1, <1>2

\* Pop keeps transports apart, each under its server.
LEMMA PopSharing ==
  ASSUME TypeOK, LocalsOK, Sharing, NEW t \in Thread, Pop(t)
  PROVE  Sharing'
<1> DEFINE k == key[t]
<1>1. /\ k \in DOMAIN idle /\ idle[k] # <<>> /\ Poll(k)
      /\ obj' = [obj EXCEPT ![t] = Head(idle[k])] /\ UNCHANGED key
  BY DEF Pop, IdleQ, LocalsOK, callVars
<1>2. /\ QueuesDistinct' /\ Head(idle[k]) \in IdleSet /\ Head(idle[k])[1] = k
      /\ IdleSet' = IdleSet \ {Head(idle[k])}
  BY <1>1, PollFacts
<1>3. Head(idle[k]) # None /\ \A u \in Thread : obj[u] # Head(idle[k])
  BY <1>2, NoneNotIdle DEF Sharing, NoSharing
<1>4. QED
  BY <1>1, <1>2, <1>3, Gains DEF TypeOK

\* MakeObject keeps transports apart, each under its server.
LEMMA MakeObjectSharing ==
  ASSUME TypeOK, LocalsOK, Sharing, NEW t \in Thread, MakeObject(t)
  PROVE  Sharing'
<1>1. PICK tr \in Makable(key[t]) : obj' = [obj EXCEPT ![t] = tr]
  BY DEF MakeObject
<1>2. key[t] \in Key /\ UNCHANGED <<idle, key>>
  BY DEF MakeObject, LocalsOK, Borrowing, poolVars, callVars
<1>3. tr # None /\ tr[1] = key[t] /\ tr \notin IdleSet /\ \A u \in Thread : obj[u] # tr
  BY <1>2, Fresh
<1>4. QED
  BY <1>1, <1>2, <1>3, SameQueues, Gains DEF TypeOK

\* ReturnObject keeps transports apart, each under its server.
LEMMA ReturnObjectSharing ==
  ASSUME TypeOK, LocalsOK, Sharing, NEW t \in Thread, ReturnObject(t)
  PROVE  Sharing'
<1>1. obj[t] \in Transport /\ obj[t] # None /\ obj[t][1] = key[t] /\ obj[t] \notin IdleSet
  BY NoneAssumption
     DEF ReturnObject, TypeOK, CallsOK, LocalsOK, Carrying, Sharing, NoSharing,
     RightServer
<1>2. obj'[t] = None /\ \A u \in Thread \ {t} : obj'[u] = obj[u] /\ key'[u] = key[u]
  BY DEF ReturnObject, EndCall, TypeOK, CallsOK
<1>3. \A u \in Thread \ {t} : obj[u] # obj[t]
  BY <1>1 DEF Sharing, NoSharing
<1>4. CASE UNCHANGED idle
  BY <1>2, <1>4, SameQueues, NoneNotIdle, Fewer
<1>5. CASE key[t] \in DOMAIN idle /\ Push(key[t], obj[t])
  <2>1. QueuesDistinct' /\ IdleSet' = IdleSet \cup {obj[t]}
    BY <1>1, <1>5, PushFacts
  <2>2. QED
    BY <1>1, <1>2, <1>3, <2>1, NoneNotIdle, Pools
<1>6. QED
  BY <1>4, <1>5 DEF ReturnObject, Accepts

\* Allocate keeps transports apart, each under its server.
LEMMA AllocateSharing ==
  ASSUME TypeOK, LocalsOK, Sharing, NEW t \in Thread, Allocate(t)
  PROVE  Sharing'
<1> DEFINE k == Head(allocationQueue)
<1>1. k \in DOMAIN idle /\ k \in Key
  BY DEF Allocate, TypeOK, QueuesOK
<1>2. PICK tr \in Makable(k) : Push(k, tr)
  BY DEF Allocate
<1>3. /\ tr \in Transport /\ tr # None /\ tr[1] = k /\ tr \notin IdleSet
      /\ \A u \in Thread : obj[u] # tr
  BY <1>1, Fresh
<1>4. QueuesDistinct' /\ IdleSet' = IdleSet \cup {tr}
  BY <1>1, <1>2, <1>3, PushFacts
<1>5. obj'[t] = None /\ \A u \in Thread \ {t} : obj'[u] = obj[u] /\ key'[u] = key[u]
  BY DEF Allocate, EndCall, TypeOK, CallsOK
<1>6. QED
  BY <1>3, <1>4, <1>5, NoneNotIdle, Pools

\* EnsureMinIdle keeps transports apart, each under its server.
LEMMA EnsureMinIdleSharing ==
  ASSUME TypeOK, LocalsOK, Sharing, NEW t \in Thread, EnsureMinIdle(t)
  PROVE  Sharing'
<1> DEFINE k == key[t]
<1>1. k \in DOMAIN idle /\ k \in Key
  BY DEF EnsureMinIdle, LocalsOK, TypeOK, QueuesOK
<1>2. PICK tr \in Makable(k) : Push(k, tr)
  BY DEF EnsureMinIdle
<1>3. /\ tr \in Transport /\ tr # None /\ tr[1] = k /\ tr \notin IdleSet
      /\ \A u \in Thread : obj[u] # tr
  BY <1>1, Fresh
<1>4. QueuesDistinct' /\ IdleSet' = IdleSet \cup {tr}
  BY <1>1, <1>2, <1>3, PushFacts
<1>5. UNCHANGED <<obj, key>>
  BY DEF EnsureMinIdle, callVars
<1>6. QED
  BY <1>3, <1>4, <1>5, NoneNotIdle, Pools

\* LoopSteal keeps transports apart, each under its server.
LEMMA LoopStealSharing ==
  ASSUME TypeOK, LocalsOK, Sharing, NEW t \in Thread, LoopSteal(t)
  PROVE  Sharing'
<1>1. PICK v \in Victims : Poll(v)
  BY DEF LoopSteal
<1>2. v \in DOMAIN idle /\ idle[v] # <<>>
  BY VictimsOK DEF TypeOK
<1>3. QueuesDistinct' /\ IdleSet' \subseteq IdleSet
  BY <1>1, <1>2, PollFacts
<1>4. UNCHANGED <<obj, key>>
  BY DEF LoopSteal, callVars
<1>5. QED
  BY <1>3, <1>4, NoneNotIdle, Fewer

\* DrainPop keeps transports apart, each under its server.
LEMMA DrainPopSharing ==
  ASSUME TypeOK, LocalsOK, Sharing, NEW t \in Thread, DrainPop(t)
  PROVE  Sharing'
<1>1. key[t] \in DOMAIN idle /\ idle[key[t]] # <<>> /\ Poll(key[t]) /\ UNCHANGED <<obj,
key>>
  BY DEF DrainPop, LocalsOK, callVars
<1>2. QueuesDistinct' /\ IdleSet' \subseteq IdleSet
  BY <1>1, PollFacts
<1>3. QED
  BY <1>1, <1>2, NoneNotIdle, Fewer

\* AddObject keeps transports apart, each under its server.
LEMMA AddObjectSharing ==
  ASSUME TypeOK, LocalsOK, Sharing, NEW t \in Thread, NEW k \in Key, AddObject(t, k)
  PROVE  Sharing'
<1>1. /\ DOMAIN idle' = DOMAIN idle \cup {k} /\ idle'[k] = <<>>
      /\ \A j \in DOMAIN idle : idle'[j] = idle[j]
  BY DEF AddObject
<1>2. Range(idle'[k]) = {} /\ NoDup(idle'[k])
  BY <1>1 DEF Range, NoDup
<1>3. QueuesDistinct'
  BY <1>1, <1>2 DEF QueuesDistinct, Sharing, NoSharing, RightServer, NoDup
<1>4. IdleSet' \subseteq IdleSet
  BY <1>1, <1>2 DEF IdleSet
<1>5. UNCHANGED obj /\ obj[t] = None /\ \A u \in Thread \ {t} : key'[u] = key[u]
  BY DEF AddObject, TypeOK, CallsOK, LocalsOK, Carrying
<1>6. QED
  BY <1>3, <1>4, <1>5, NoneNotIdle, Fewer

\* ClearKeyEnd keeps transports apart, each under its server.
LEMMA ClearKeyEndSharing ==
  ASSUME TypeOK, LocalsOK, Sharing, NEW t \in Thread, ClearKeyEnd(t)
  PROVE  Sharing'
<1>1. /\ DOMAIN idle' \subseteq DOMAIN idle
      /\ \A j \in DOMAIN idle' : idle'[j] = idle[j]
  BY DEF ClearKeyEnd
<1>2. QueuesDistinct' /\ IdleSet' \subseteq IdleSet
  BY <1>1 DEF QueuesDistinct, Sharing, NoSharing, RightServer, NoDup, IdleSet
<1>3. UNCHANGED obj /\ obj[t] = None /\ \A u \in Thread \ {t} : key'[u] = key[u]
  BY DEF ClearKeyEnd, TypeOK, CallsOK, LocalsOK, Carrying
<1>4. QED
  BY <1>2, <1>3, NoneNotIdle, Fewer

\* ClearEnd keeps transports apart, each under its server.
LEMMA ClearEndSharing ==
  ASSUME TypeOK, LocalsOK, Sharing, NEW t \in Thread, ClearEnd(t)
  PROVE  Sharing'
<1>1. DOMAIN idle' = {}
  BY DEF ClearEnd, Empty
<1>2. QueuesDistinct' /\ IdleSet' \subseteq IdleSet
  BY <1>1 DEF QueuesDistinct, IdleSet
<1>3. UNCHANGED obj /\ obj[t] = None /\ \A u \in Thread \ {t} : key'[u] = key[u]
  BY DEF ClearEnd, TypeOK, CallsOK, LocalsOK, Carrying
<1>4. QED
  BY <1>2, <1>3, NoneNotIdle, Fewer

\* A new pool shares nothing.
LEMMA InitSharing ==
  ASSUME Init
  PROVE  Sharing
<1>1. DOMAIN idle = {} /\ \A t \in Thread : obj[t] = None
  BY DEF Init, Empty
<1>2. IdleSet = {}
  BY <1>1 DEF IdleSet
<1>3. QED
  BY <1>1, <1>2 DEF Sharing, NoSharing, RightServer

\* No step shares a transport or pools it under another server.
LEMMA NextSharing ==
  ASSUME TypeOK, LocalsOK, Sharing, [Next]_vars
  PROVE  Sharing'
<1>1. ASSUME NEW t \in Thread, Step(t) PROVE Sharing'
  BY <1>1, QuietSharing, LoopStealSharing, MakeObjectSharing, PopSharing, AllocateSharing,
     EnsureMinIdleSharing, DrainPopSharing, ClearKeyEndSharing, ClearEndSharing
     DEF Step, Quiet
<1>2. ASSUME NEW t \in Thread, Release(t) PROVE Sharing'
  BY <1>2, QuietSharing, ReturnObjectSharing DEF Release, Quiet
<1>3. ASSUME NEW t \in Thread, Start(t) PROVE Sharing'
  BY <1>3, QuietSharing, BorrowObjectSharing, AddObjectSharing DEF Start, Quiet
<1>4. CASE UNCHANGED vars
  <2>1. UNCHANGED <<idle, obj, key>>
    BY <1>4 DEF vars
  <2>2. QED
    BY <2>1, SameQueues, NoneNotIdle, Fewer
<1>5. QED
  BY <1>1, <1>2, <1>3, <1>4 DEF Next, Done

\* For any number of threads and servers and any configuration, borrowObject never
\* lends one transport twice, never keeps a lent one idle, and lends and pools each
\* under the server it is connected to.
THEOREM NoSharingHolds == Spec => [](NoSharing /\ RightServer)
<1>1. Init => Sharing
  BY InitSharing
<1>2. TypeOK /\ LocalsOK /\ Sharing /\ [Next]_vars => Sharing'
  BY NextSharing
<1>3. Sharing => NoSharing /\ RightServer
  BY DEF Sharing
<1>4. QED
  BY <1>1, <1>2, <1>3, TypeCorrect, PTL DEF Spec

\* What connects a transport, pools it, lends it and destroys it for another key all
\* agree on its server: a caller of borrowObject(key) talks to the server it asked for.
THEOREM TransportsServeTheirKey == Spec => []RightServer
BY NoSharingHolds, PTL

-----------------------------------------------------------------------------
(* The lifetime of transports and the count of the lent ones, from the     *)
(* order of a shutdown (ShutdownOK) and what is known of a loan in an open *)
(* pool (LoansOK).                                                         *)

\* Every step keeps the order of a shutdown, and no step reopens the pool.
LEMMA NextShutdown ==
  ASSUME TypeOK, LocalsOK, ShutdownOK, [Next]_vars
  PROVE  ShutdownOK' /\ (Open' => Open)
<1> DEFINE Kept == ShutdownOK' /\ (Open' => Open)
<1>b. ASSUME NEW t \in Thread, ValidateThrows(t) PROVE Kept
  BY <1>b DEF ValidateThrows, EndCall, loopVars, poolVars, TypeOK, CallsOK, ShutdownOK, Open
<1>c. ASSUME NEW t \in Thread, ReturnThrows(t) PROVE Kept
  BY <1>c DEF ReturnThrows, EndCall, loopVars, TypeOK, CallsOK, ShutdownOK, Open
<1>1. ASSUME NEW t \in Thread, ValidateObject(t) PROVE Kept
  BY <1>1 DEF ValidateObject, Goto, callVars, loopVars, poolVars, TypeOK, CallsOK,
     ShutdownOK, Open
<1>2. ASSUME NEW t \in Thread, LoopCreate(t) PROVE Kept
  BY <1>2 DEF LoopCreate, Goto, callVars, loopVars, poolVars, TypeOK, CallsOK,
     ShutdownOK, Open
<1>3. ASSUME NEW t \in Thread, LoopSteal(t) PROVE Kept
  BY <1>3 DEF LoopSteal, Goto, callVars, loopVars, Poll, TypeOK, CallsOK, ShutdownOK, Open
<1>4. ASSUME NEW t \in Thread, LoopAskAllocate(t) PROVE Kept
  BY <1>4 DEF LoopAskAllocate, Goto, callVars, loopVars, TypeOK, CallsOK, ShutdownOK, Open
<1>5. ASSUME NEW t \in Thread, LoopWait(t) PROVE Kept
  BY <1>5 DEF LoopWait, Goto, callVars, loopVars, poolVars, TypeOK, CallsOK, ShutdownOK,
     Open
<1>6. ASSUME NEW t \in Thread, MakeObject(t) PROVE Kept
  BY <1>6 DEF MakeObject, Goto, callVars, loopVars, poolVars, Obtained, TypeOK, CallsOK,
     ShutdownOK, Open
<1>7. ASSUME NEW t \in Thread, MakeObjectThrows(t) PROVE Kept
  BY <1>7 DEF MakeObjectThrows, EndCall, loopVars, poolVars, TypeOK, CallsOK, ShutdownOK,
     Open
<1>8. ASSUME NEW t \in Thread, Pop(t) PROVE Kept
  BY <1>8 DEF Pop, Goto, callVars, loopVars, Poll, TypeOK, CallsOK, ShutdownOK, Open
<1>9. ASSUME NEW t \in Thread, PopThrows(t) PROVE Kept
  BY <1>9 DEF PopThrows, Goto, callVars, loopVars, poolVars, TypeOK, CallsOK, ShutdownOK,
     Open
<1>10. ASSUME NEW t \in Thread, Unwind(t) PROVE Kept
  BY <1>10 DEF Unwind, EndCall, loopVars, poolVars, TypeOK, CallsOK, ShutdownOK, Open
<1>11. ASSUME NEW t \in Thread, DecrementRead(t) PROVE Kept
  BY <1>11 DEF DecrementRead, Goto, loopVars, poolVars, TypeOK, CallsOK, ShutdownOK, Open
<1>12. ASSUME NEW t \in Thread, DecrementWrite(t) PROVE Kept
  BY <1>12 DEF DecrementWrite, Goto, loopVars, TypeOK, CallsOK, ShutdownOK, Open
<1>13. ASSUME NEW t \in Thread, Relock(t) PROVE Kept
  BY <1>13 DEF Relock, Goto, callVars, loopVars, poolVars, Obtained, TypeOK, CallsOK,
     ShutdownOK, Open
<1>14. ASSUME NEW t \in Thread, Activate(t) PROVE Kept
  BY <1>14 DEF Activate, Goto, TypeOK, CallsOK, ShutdownOK, Open
<1>15. ASSUME NEW t \in Thread, Allocate(t) PROVE Kept
  BY <1>15 DEF Allocate, EndCall, loopVars, Push, TypeOK, CallsOK, ShutdownOK, Open
<1>16. ASSUME NEW t \in Thread, AllocateThrows(t) PROVE Kept
  BY <1>16 DEF AllocateThrows, EndCall, loopVars, TypeOK, CallsOK, ShutdownOK, Open
<1>17. ASSUME NEW t \in Thread, AllocateNull(t) PROVE Kept
  BY <1>17 DEF AllocateNull, Goto, callVars, loopVars, poolVars, TypeOK, CallsOK,
     ShutdownOK, Open
<1>18. ASSUME NEW t \in Thread, EnsureMinIdle(t) PROVE Kept
  BY <1>18 DEF EnsureMinIdle, callVars, Push, TypeOK, CallsOK, ShutdownOK, Open
<1>19. ASSUME NEW t \in Thread, AddObjectEnd(t) PROVE Kept
  BY <1>19 DEF AddObjectEnd, EndCall, poolVars, TypeOK, CallsOK, ShutdownOK, Open
<1>20. ASSUME NEW t \in Thread, DestroyClose(t) PROVE Kept
  BY <1>20 DEF DestroyClose, Goto, loopVars, TypeOK, CallsOK, ShutdownOK, Open
<1>21. ASSUME NEW t \in Thread, Clear(t) PROVE Kept
  BY <1>21 DEF Clear, Goto, callVars, poolVars, TypeOK, CallsOK, ShutdownOK, Open
<1>22. ASSUME NEW t \in Thread, DrainSize(t) PROVE Kept
  BY <1>22 DEF DrainSize, Goto, poolVars, TypeOK, CallsOK, ShutdownOK, Open
<1>23. ASSUME NEW t \in Thread, DrainPop(t) PROVE Kept
  BY <1>23 DEF DrainPop, Goto, callVars, loopVars, Poll, TypeOK, CallsOK, ShutdownOK, Open
<1>24. ASSUME NEW t \in Thread, ClearKeyEnd(t) PROVE Kept
  BY <1>24 DEF ClearKeyEnd, loopVars, TypeOK, CallsOK, ShutdownOK, Open
<1>25. ASSUME NEW t \in Thread, ClearEnd(t) PROVE Kept
  BY <1>25 DEF ClearEnd, Empty, Goto, loopVars, TypeOK, CallsOK, ShutdownOK, Open
<1>26. ASSUME NEW t \in Thread, ReturnObject(t) PROVE Kept
  BY <1>26 DEF ReturnObject, EndCall, loopVars, Push, TypeOK, CallsOK, ShutdownOK, Open
<1>27. ASSUME NEW t \in Thread, ReturnToAllocate(t) PROVE Kept
  BY <1>27 DEF ReturnToAllocate, Goto, loopVars, TypeOK, CallsOK, ShutdownOK, Open
<1>28. ASSUME NEW t \in Thread, Close(t) PROVE Kept
  BY <1>28 DEF Close, Call, Goto, loopVars, TypeOK, CallsOK, ShutdownOK, Open
<1>29. ASSUME NEW t \in Thread, Destroy(t) PROVE Kept
  BY <1>29 DEF Destroy, Call, FactoryLockFree, Goto, loopVars, poolVars, TypeOK, CallsOK,
     ShutdownOK, Open
<1>30. ASSUME NEW t \in Thread, NEW k \in Key, BorrowRefused(t, k) PROVE Kept
  BY <1>30 DEF BorrowRefused, Call, callVars, loopVars, poolVars, TypeOK, CallsOK,
     ShutdownOK, Open
<1>31. ASSUME NEW t \in Thread, NEW k \in Key, BorrowObject(t, k) PROVE Kept
  BY <1>31 DEF BorrowObject, Call, Goto, loopVars, Poll, Obtained, TypeOK, CallsOK,
     ShutdownOK, Open
<1>32. ASSUME NEW t \in Thread, NEW k \in Key, AddObject(t, k) PROVE Kept
  BY <1>32 DEF AddObject, FactoryLockFree, Goto, TypeOK, CallsOK, ShutdownOK, Open
<1>33. ASSUME NEW t \in Thread, NEW k \in Key, ClearKey(t, k) PROVE Kept
  BY <1>33 DEF ClearKey, Call, FactoryLockFree, Goto, TypeOK, CallsOK, ShutdownOK, Open
<1>34. ASSUME NEW t \in Thread, NEW k \in Key, InvalidateNoBusy(t, k) PROVE Kept
  BY <1>34 DEF InvalidateNoBusy, EndCall, loopVars, poolVars, TypeOK, CallsOK,
     ShutdownOK, Open
<1>35. ASSUME NEW t \in Thread, NEW k \in Key, InvalidateNoIdle(t, k) PROVE Kept
  BY <1>35 DEF InvalidateNoIdle, EndCall, loopVars, TypeOK, CallsOK, ShutdownOK, Open
<1>36. ASSUME NEW t \in Thread, NEW k \in Key, InvalidateObject(t, k) PROVE Kept
  BY <1>36 DEF InvalidateObject, EndCall, Goto, loopVars, TypeOK, CallsOK, ShutdownOK,
     Open
<1> HIDE DEF Kept
<1>a. CASE UNCHANGED vars
  BY <1>a DEF vars, Kept, ShutdownOK, Open
<1> QED
  BY <1>a, <1>b, <1>c, <1>1, <1>2, <1>3, <1>4, <1>5, <1>6, <1>7, <1>8, <1>9, <1>10, <1>11, <1>12,
     <1>13, <1>14, <1>15, <1>16, <1>17, <1>18, <1>19, <1>20, <1>21, <1>22, <1>23, <1>24,
     <1>25, <1>26, <1>27, <1>28, <1>29, <1>30, <1>31, <1>32, <1>33, <1>34, <1>35,
     <1>36 DEF Next, Step, Release, Start, Done, Kept

\* The transports nobody may destroy: the idle ones, and while the pool is open the ones
\* the threads have.
Loans == LoansOK /\ IdleIsLive

\* A pool that is open after a step was open before it.
LEMMA OpenBefore ==
  ASSUME TypeOK, LocalsOK, ShutdownOK, [Next]_vars, Open'
  PROVE  Open
  BY NextShutdown

\* The steps that neither make, destroy nor move a transport.
Silent(t) ==
    \/ ValidateThrows(t) \/ ReturnThrows(t)
    \/ LoopCreate(t) \/ LoopAskAllocate(t) \/ LoopWait(t) \/ MakeObjectThrows(t)
    \/ PopThrows(t) \/ Unwind(t) \/ DecrementRead(t) \/ DecrementWrite(t) \/ Relock(t)
    \/ Activate(t) \/ AllocateThrows(t) \/ AllocateNull(t) \/ AddObjectEnd(t)
    \/ DestroyClose(t) \/ Clear(t) \/ DrainSize(t) \/ ReturnToAllocate(t) \/ Close(t)
    \/ Destroy(t)
    \/ \E k \in Key : \/ BorrowRefused(t, k) \/ ClearKey(t, k)
                      \/ InvalidateNoBusy(t, k) \/ InvalidateNoIdle(t, k)

\* Steps that neither make nor destroy a transport, nor move an idle one.
LEMMA SilentLoans ==
  ASSUME TypeOK, LocalsOK, Loans, Open' => Open, UNCHANGED <<idle, live>>,
         \A u \in Thread : obj'[u] # None => obj'[u] = obj[u],
         \A u \in Thread : pc'[u] \in Borrowing => pc[u] \in Borrowing /\ key'[u] = key[u],
         DOMAIN busy \subseteq DOMAIN busy'
  PROVE  Loans'
<1>1. LoansOK'
  BY DEF Loans, LoansOK
<1>2. IdleIsLive'
  BY DEF Loans, IdleIsLive, IdleSet
<1>3. QED
  BY <1>1, <1>2 DEF Loans

\* The silent steps keep lent and idle transports alive.
LEMMA QuietLoans ==
  ASSUME TypeOK, LocalsOK, Loans, Open' => Open, NEW t \in Thread, Silent(t)
  PROVE  Loans'
<1> DEFINE Kept == /\ UNCHANGED <<idle, live>>
                   /\ \A u \in Thread : obj'[u] # None => obj'[u] = obj[u]
                   /\ \A u \in Thread :
                         pc'[u] \in Borrowing => pc[u] \in Borrowing /\ key'[u] = key[u]
                   /\ DOMAIN busy \subseteq DOMAIN busy'
<1>0. Kept => Loans'
  BY SilentLoans
<1>a. ASSUME ValidateThrows(t) PROVE Kept
  BY <1>a DEF ValidateThrows, EndCall, loopVars, poolVars, TypeOK, CallsOK, Borrowing,
     Carrying
<1>b. ASSUME ReturnThrows(t) PROVE Kept
  BY <1>b DEF ReturnThrows, RemoveBusy, EndCall, loopVars, TypeOK, CallsOK, Borrowing,
     Carrying
<1>1. ASSUME LoopCreate(t) PROVE Kept
  BY <1>1 DEF LoopCreate, Goto, callVars, loopVars, poolVars, TypeOK, CallsOK, Borrowing,
     Carrying
<1>2. ASSUME LoopAskAllocate(t) PROVE Kept
  BY <1>2 DEF LoopAskAllocate, Goto, callVars, loopVars, TypeOK, CallsOK, Borrowing,
     Carrying
<1>3. ASSUME LoopWait(t) PROVE Kept
  BY <1>3 DEF LoopWait, Goto, callVars, loopVars, poolVars, TypeOK, CallsOK, Borrowing,
     Carrying
<1>4. ASSUME MakeObjectThrows(t) PROVE Kept
  BY <1>4 DEF MakeObjectThrows, EndCall, loopVars, poolVars, TypeOK, CallsOK, Borrowing,
     Carrying
<1>5. ASSUME PopThrows(t) PROVE Kept
  BY <1>5 DEF PopThrows, Goto, callVars, loopVars, poolVars, TypeOK, CallsOK, Borrowing,
     Carrying
<1>6. ASSUME Unwind(t) PROVE Kept
  BY <1>6 DEF Unwind, EndCall, loopVars, poolVars, TypeOK, CallsOK, Borrowing, Carrying
<1>7. ASSUME DecrementRead(t) PROVE Kept
  BY <1>7 DEF DecrementRead, Goto, loopVars, poolVars, TypeOK, CallsOK, Borrowing,
     Carrying
<1>8. ASSUME DecrementWrite(t) PROVE Kept
  BY <1>8 DEF DecrementWrite, Goto, loopVars, TypeOK, CallsOK, Borrowing, Carrying
<1>9. ASSUME Relock(t) PROVE Kept
  BY <1>9 DEF Relock, Goto, callVars, loopVars, poolVars, Obtained, TypeOK, CallsOK,
     Borrowing, Carrying
<1>10. ASSUME Activate(t) PROVE Kept
  BY <1>10 DEF Activate, Goto, TypeOK, CallsOK, Borrowing, Carrying
<1>11. ASSUME AllocateThrows(t) PROVE Kept
  BY <1>11 DEF AllocateThrows, EndCall, loopVars, TypeOK, CallsOK, Borrowing, Carrying
<1>12. ASSUME AllocateNull(t) PROVE Kept
  BY <1>12 DEF AllocateNull, Goto, callVars, loopVars, poolVars, TypeOK, CallsOK,
     Borrowing, Carrying
<1>13. ASSUME AddObjectEnd(t) PROVE Kept
  BY <1>13 DEF AddObjectEnd, EndCall, poolVars, TypeOK, CallsOK, Borrowing, Carrying
<1>14. ASSUME DestroyClose(t) PROVE Kept
  BY <1>14 DEF DestroyClose, Goto, loopVars, TypeOK, CallsOK, Borrowing, Carrying
<1>15. ASSUME Clear(t) PROVE Kept
  BY <1>15 DEF Clear, Goto, callVars, poolVars, TypeOK, CallsOK, Borrowing, Carrying
<1>16. ASSUME DrainSize(t) PROVE Kept
  BY <1>16 DEF DrainSize, Goto, poolVars, TypeOK, CallsOK, Borrowing, Carrying
<1>17. ASSUME ReturnToAllocate(t) PROVE Kept
  BY <1>17 DEF ReturnToAllocate, Goto, loopVars, RemoveBusy, TypeOK, CallsOK, Borrowing,
     Carrying
<1>18. ASSUME Close(t) PROVE Kept
  BY <1>18 DEF Close, Call, Goto, loopVars, TypeOK, CallsOK, Borrowing, Carrying
<1>19. ASSUME Destroy(t) PROVE Kept
  BY <1>19 DEF Destroy, Call, FactoryLockFree, Goto, loopVars, poolVars, TypeOK, CallsOK,
     Borrowing, Carrying
<1>20. ASSUME NEW k \in Key, BorrowRefused(t, k) PROVE Kept
  BY <1>20 DEF BorrowRefused, Call, callVars, loopVars, poolVars, TypeOK, CallsOK,
     Borrowing, Carrying
<1>21. ASSUME NEW k \in Key, ClearKey(t, k) PROVE Kept
  BY <1>21 DEF ClearKey, Call, FactoryLockFree, Goto, TypeOK, CallsOK, Borrowing, Carrying
<1>22. ASSUME NEW k \in Key, InvalidateNoBusy(t, k) PROVE Kept
  BY <1>22 DEF InvalidateNoBusy, EndCall, loopVars, poolVars, TypeOK, CallsOK, Borrowing,
     Carrying
<1>23. ASSUME NEW k \in Key, InvalidateNoIdle(t, k) PROVE Kept
  BY <1>23 DEF InvalidateNoIdle, EndCall, loopVars, RemoveBusy, TypeOK, CallsOK,
     Borrowing, Carrying
<1> QED
  BY <1>0, <1>a, <1>b, <1>1, <1>2, <1>3, <1>4, <1>5, <1>6, <1>7, <1>8, <1>9, <1>10, <1>11, <1>12,
     <1>13, <1>14, <1>15, <1>16, <1>17, <1>18, <1>19, <1>20, <1>21, <1>22,
     <1>23 DEF Silent

\* The front of an idle queue goes to a thread, or is destroyed and goes to nobody.
LEMMA TakeLoans ==
  ASSUME TypeOK, LocalsOK, Sharing, Loans, Open' => Open, NEW k \in DOMAIN idle,
         idle[k] # <<>>, Poll(k),
         live' \in {live, live \ {Head(idle[k])}},
         \A u \in Thread : obj'[u] # None =>
             obj'[u] = obj[u] \/ (obj'[u] = Head(idle[k]) /\ live' = live),
         \A u \in Thread : pc'[u] \in Borrowing =>
             key'[u] \in DOMAIN busy \/ (pc[u] \in Borrowing /\ key'[u] = key[u]),
         DOMAIN busy \subseteq DOMAIN busy'
  PROVE  Loans'
<1>1. Head(idle[k]) \in IdleSet /\ IdleSet' = IdleSet \ {Head(idle[k])}
  BY PollFacts
<1>2. \A u \in Thread : obj[u] # Head(idle[k])
  BY <1>1, NoneNotIdle DEF Sharing, NoSharing
<1>3. LoansOK'
  BY <1>1, <1>2 DEF Loans, LoansOK, IdleIsLive
<1>4. IdleIsLive'
  BY <1>1 DEF Loans, IdleIsLive
<1>5. QED
  BY <1>3, <1>4 DEF Loans

\* LoopSteal keeps lent and idle transports alive.
LEMMA LoopStealLoans ==
  ASSUME TypeOK, LocalsOK, Sharing, Loans, Open' => Open, NEW t \in Thread, LoopSteal(t)
  PROVE  Loans'
<1>1. PICK v \in Victims : live' = live \ {Head(idle[v])} /\ Poll(v)
  BY DEF LoopSteal, DestroyObject
<1>2. v \in DOMAIN idle /\ idle[v] # <<>>
  BY VictimsOK DEF TypeOK
<1>3. /\ UNCHANGED <<obj, key, busy>>
      /\ \A u \in Thread : pc'[u] \in Borrowing => pc[u] \in Borrowing
  BY DEF LoopSteal, Goto, TypeOK, CallsOK, Borrowing, callVars
<1>4. QED
  BY <1>1, <1>2, <1>3, TakeLoans

\* DrainPop keeps lent and idle transports alive.
LEMMA DrainPopLoans ==
  ASSUME TypeOK, LocalsOK, Sharing, Loans, Open' => Open, NEW t \in Thread, DrainPop(t)
  PROVE  Loans'
<1>1. /\ key[t] \in DOMAIN idle /\ idle[key[t]] # <<>> /\ Poll(key[t])
      /\ live' = live \ {Head(idle[key[t]])}
  BY DEF DrainPop, LocalsOK, DestroyObject
<1>2. /\ UNCHANGED <<obj, key, busy>>
      /\ \A u \in Thread : pc'[u] \in Borrowing => pc[u] \in Borrowing
  BY DEF DrainPop, Goto, TypeOK, CallsOK, Borrowing, Carrying, callVars
<1>3. QED
  BY <1>1, <1>2, TakeLoans

\* BorrowObject keeps lent and idle transports alive.
LEMMA BorrowObjectLoans ==
  ASSUME TypeOK, LocalsOK, Sharing, Loans, Open' => Open, NEW t \in Thread, NEW k \in Key,
         BorrowObject(t, k)
  PROVE  Loans'
<1> USE DEF BorrowObject
<1>1. UNCHANGED <<busy, live>> /\ key'[t] \in DOMAIN busy
  BY DEF TypeOK, CallsOK
<1>2. \A u \in Thread \ {t} : pc'[u] = pc[u] /\ key'[u] = key[u] /\ obj'[u] = obj[u]
  BY DEF TypeOK, CallsOK, Goto
<1>3. CASE idle[k] # <<>>
  <2>1. Poll(k) /\ obj'[t] = Head(idle[k])
    BY <1>3 DEF TypeOK, CallsOK
  <2>2. QED
    BY <1>1, <1>2, <1>3, <2>1, TakeLoans
<1>4. CASE idle[k] = <<>>
  <2>1. UNCHANGED <<idle, obj>>
    BY <1>4
  <2>2. LoansOK'
    BY <1>1, <1>2, <2>1 DEF Loans, LoansOK
  <2>3. IdleIsLive'
    BY <1>1, <2>1 DEF Loans, IdleIsLive, IdleSet
  <2>4. QED
    BY <2>2, <2>3 DEF Loans
<1>5. QED
  BY <1>3, <1>4

\* Pop keeps lent and idle transports alive.
LEMMA PopLoans ==
  ASSUME TypeOK, LocalsOK, Sharing, Loans, Open' => Open, NEW t \in Thread, Pop(t)
  PROVE  Loans'
<1>1. key[t] \in DOMAIN idle /\ idle[key[t]] # <<>> /\ Poll(key[t]) /\ UNCHANGED <<key,
live, busy>>
  BY DEF Pop, IdleQ, LocalsOK, callVars
<1>2. /\ \A u \in Thread : obj'[u] = obj[u] \/ obj'[u] = Head(idle[key[t]])
      /\ \A u \in Thread : pc'[u] \in Borrowing => pc[u] \in Borrowing
  BY DEF Pop, Goto, TypeOK, CallsOK, Borrowing
<1>3. QED
  BY <1>1, <1>2, TakeLoans

\* A thread gives its transport up; only that transport may be destroyed.
LEMMA GiveUpLoans ==
  ASSUME TypeOK, LocalsOK, Sharing, Loans, Open' => Open, NEW t \in Thread,
         obj[t] # None, UNCHANGED idle,
         live' \in {live, live \ {obj[t]}},
         obj'[t] # None => live' = live /\ obj'[t] = obj[t],
         \A u \in Thread \ {t} : obj'[u] = obj[u],
         \A u \in Thread : pc'[u] \in Borrowing => pc[u] \in Borrowing /\ key'[u] = key[u],
         DOMAIN busy \subseteq DOMAIN busy'
  PROVE  Loans'
<1>1. obj[t] \notin IdleSet /\ \A u \in Thread \ {t} : obj[u] # obj[t]
  BY DEF Sharing, NoSharing
<1>2. LoansOK'
  BY <1>1 DEF Loans, LoansOK
<1>3. IdleIsLive'
  BY <1>1 DEF Loans, IdleIsLive, IdleSet
<1>4. QED
  BY <1>2, <1>3 DEF Loans

\* ValidateObject keeps lent and idle transports alive.
LEMMA ValidateObjectLoans ==
  ASSUME TypeOK, LocalsOK, Sharing, Loans, Open' => Open, NEW t \in Thread,
         ValidateObject(t)
  PROVE  Loans'
<1>1. obj[t] # None
  BY DEF ValidateObject, LocalsOK, Carrying
<1>2. /\ UNCHANGED <<idle, busy, key>>
      /\ live' \in {live, live \ {obj[t]}}
      /\ obj'[t] # None => live' = live /\ obj'[t] = obj[t]
      /\ \A u \in Thread \ {t} : obj'[u] = obj[u]
  BY DEF ValidateObject, DestroyObject, TypeOK, CallsOK, poolVars, callVars
<1>3. \A u \in Thread : pc'[u] \in Borrowing => pc[u] \in Borrowing
  BY DEF ValidateObject, Goto, TypeOK, CallsOK, Borrowing, Carrying
<1>4. QED
  BY <1>1, <1>2, <1>3, GiveUpLoans

\* InvalidateObject keeps lent and idle transports alive.
LEMMA InvalidateObjectLoans ==
  ASSUME TypeOK, LocalsOK, Sharing, Loans, Open' => Open, NEW t \in Thread, NEW k \in Key,
         InvalidateObject(t, k)
  PROVE  Loans'
<1>1. obj[t] # None /\ pc[t] \in Borrowing
  BY DEF InvalidateObject, LocalsOK, Carrying, Borrowing
<1>2. UNCHANGED idle /\ DOMAIN busy' = DOMAIN busy
  BY DEF InvalidateObject, RemoveBusy
<1>3. CASE MustAllocate
  <2>1. UNCHANGED <<live, obj, key>> /\ \A u \in Thread \ {t} : pc'[u] = pc[u]
    BY <1>3 DEF InvalidateObject, Goto, TypeOK, CallsOK
  <2>2. QED
    BY <1>1, <1>2, <2>1, GiveUpLoans
<1>4. CASE ~MustAllocate
  <2>1. /\ live' = live \ {obj[t]} /\ obj'[t] = None /\ pc'[t] = "ready"
        /\ \A u \in Thread \ {t} : pc'[u] = pc[u] /\ obj'[u] = obj[u] /\ key'[u] = key[u]
    BY <1>4 DEF InvalidateObject, DestroyObject, EndCall, TypeOK, CallsOK
  <2>2. "ready" \notin Borrowing
    BY DEF Borrowing, Carrying
  <2>3. QED
    BY <1>1, <1>2, <2>1, <2>2, GiveUpLoans
<1>5. QED
  BY <1>3, <1>4

\* ReturnObject keeps lent and idle transports alive.
LEMMA ReturnObjectLoans ==
  ASSUME TypeOK, LocalsOK, Sharing, ShutdownOK, Loans, Open' => Open, NEW t \in Thread,
         ReturnObject(t)
  PROVE  Loans'
<1>1. obj[t] \in Transport /\ obj[t] # None /\ obj[t][1] = key[t] /\ obj[t] \notin IdleSet
  BY NoneAssumption
     DEF ReturnObject, TypeOK, CallsOK, LocalsOK, Carrying, Sharing, NoSharing,
     RightServer
<1>2. DOMAIN busy' = DOMAIN busy
  BY DEF ReturnObject, RemoveBusy
<1>3. /\ obj'[t] = None /\ pc'[t] = "ready"
      /\ \A u \in Thread \ {t} : pc'[u] = pc[u] /\ obj'[u] = obj[u] /\ key'[u] = key[u]
  BY DEF ReturnObject, EndCall, TypeOK, CallsOK
<1>4. "ready" \notin Borrowing
  BY DEF Borrowing, Carrying
<1>5. CASE UNCHANGED idle /\ live' = live \ {obj[t]}
  BY <1>1, <1>2, <1>3, <1>4, <1>5, GiveUpLoans
<1>6. CASE ~closed /\ key[t] \in DOMAIN idle /\ Push(key[t], obj[t]) /\ UNCHANGED live
  <2>1. IdleSet' = IdleSet \cup {obj[t]}
    BY <1>1, <1>6, PushFacts
  <2>2. Open
    BY <1>6 DEF Open, ShutdownOK
  <2>3. obj[t] \in live
    BY <1>1, <2>2 DEF Loans, LoansOK
  <2>4. IdleIsLive'
    BY <1>6, <2>1, <2>3 DEF Loans, IdleIsLive
  <2>5. LoansOK'
    BY <1>2, <1>3, <1>4, <1>6 DEF Loans, LoansOK
  <2>6. QED
    BY <2>4, <2>5 DEF Loans
<1>7. QED
  BY <1>5, <1>6 DEF ReturnObject, Accepts, DestroyObject

\* Allocate keeps lent and idle transports alive.
LEMMA AllocateLoans ==
  ASSUME TypeOK, LocalsOK, Sharing, Loans, Open' => Open, NEW t \in Thread, Allocate(t)
  PROVE  Loans'
<1> DEFINE k == Head(allocationQueue)
<1>1. k \in DOMAIN idle /\ k \in Key
  BY DEF Allocate, TypeOK, QueuesOK
<1>2. PICK tr \in Makable(k) : Push(k, tr) /\ live' = (live \cup {tr}) \ {obj[t]}
  BY DEF Allocate
<1>3. /\ tr \in Transport /\ tr[1] = k /\ tr \notin IdleSet
      /\ \A u \in Thread : obj[u] # tr
  BY <1>1, Fresh
<1>4. IdleSet' = IdleSet \cup {tr}
  BY <1>1, <1>2, <1>3, PushFacts
<1>5. /\ obj'[t] = None /\ pc'[t] = "ready" /\ UNCHANGED busy
      /\ \A u \in Thread \ {t} : pc'[u] = pc[u] /\ obj'[u] = obj[u] /\ key'[u] = key[u]
  BY DEF Allocate, EndCall, TypeOK, CallsOK
<1>6. obj[t] # None /\ obj[t] \notin IdleSet /\ \A u \in Thread \ {t} : obj[u] # obj[t]
  BY DEF Allocate, LocalsOK, Carrying, Sharing, NoSharing
<1>7. IdleIsLive'
  BY <1>2, <1>3, <1>4, <1>6 DEF Loans, IdleIsLive
<1>8. LoansOK'
  <2>1. "ready" \notin Borrowing
    BY DEF Borrowing, Carrying
  <2>2. QED
    BY <1>2, <1>5, <1>6, <2>1 DEF Loans, LoansOK
<1>9. QED
  BY <1>7, <1>8 DEF Loans

\* EnsureMinIdle keeps lent and idle transports alive.
LEMMA EnsureMinIdleLoans ==
  ASSUME TypeOK, LocalsOK, Sharing, Loans, Open' => Open, NEW t \in Thread,
         EnsureMinIdle(t)
  PROVE  Loans'
<1> DEFINE k == key[t]
<1>1. k \in DOMAIN idle /\ k \in Key
  BY DEF EnsureMinIdle, LocalsOK, TypeOK, QueuesOK
<1>2. PICK tr \in Makable(k) : Push(k, tr) /\ live' = live \cup {tr}
  BY DEF EnsureMinIdle
<1>3. tr \in Transport /\ tr[1] = k /\ tr \notin IdleSet
  BY <1>1, Fresh
<1>4. IdleSet' = IdleSet \cup {tr}
  BY <1>1, <1>2, <1>3, PushFacts
<1>5. UNCHANGED <<obj, key, pc, busy>>
  BY DEF EnsureMinIdle, callVars
<1>6. IdleIsLive'
  BY <1>2, <1>4 DEF Loans, IdleIsLive
<1>7. LoansOK'
  BY <1>2, <1>5 DEF Loans, LoansOK
<1>8. QED
  BY <1>6, <1>7 DEF Loans

\* MakeObject keeps lent and idle transports alive.
LEMMA MakeObjectLoans ==
  ASSUME TypeOK, LocalsOK, Sharing, Loans, Open' => Open, NEW t \in Thread, MakeObject(t)
  PROVE  Loans'
<1>1. PICK tr \in Makable(key[t]) : obj' = [obj EXCEPT ![t] = tr] /\ live' = live \cup {tr}
  BY DEF MakeObject
<1>2. /\ UNCHANGED <<idle, busy, key>>
      /\ \A u \in Thread : pc'[u] \in Borrowing => pc[u] \in Borrowing
  BY DEF MakeObject, Goto, TypeOK, CallsOK, Borrowing, poolVars, callVars
<1>3. \A u \in Thread : obj'[u] = tr \/ obj'[u] = obj[u]
  BY <1>1 DEF TypeOK, CallsOK
<1>4. IdleIsLive'
  BY <1>1, <1>2 DEF Loans, IdleIsLive, IdleSet
<1>5. LoansOK'
  BY <1>1, <1>2, <1>3 DEF Loans, LoansOK
<1>6. QED
  BY <1>4, <1>5 DEF Loans

\* AddObject keeps lent and idle transports alive.
LEMMA AddObjectLoans ==
  ASSUME TypeOK, LocalsOK, Sharing, Loans, Open' => Open, NEW t \in Thread, NEW k \in Key,
         AddObject(t, k)
  PROVE  Loans'
<1>1. /\ DOMAIN idle' = DOMAIN idle \cup {k} /\ idle'[k] = <<>>
      /\ \A j \in DOMAIN idle : idle'[j] = idle[j]
      /\ DOMAIN busy \subseteq DOMAIN busy' /\ UNCHANGED <<live, obj>>
  BY DEF AddObject
<1>2. Range(idle'[k]) = {}
  BY <1>1 DEF Range
<1>3. IdleIsLive'
  BY <1>1, <1>2 DEF Loans, IdleIsLive, IdleSet
<1>4. \A u \in Thread : pc'[u] \in Borrowing => pc[u] \in Borrowing /\ key'[u] = key[u]
  BY DEF AddObject, Goto, TypeOK, CallsOK, Borrowing, Carrying
<1>5. LoansOK'
  BY <1>1, <1>4 DEF Loans, LoansOK
<1>6. QED
  BY <1>3, <1>5 DEF Loans

\* ClearKeyEnd keeps lent and idle transports alive.
LEMMA ClearKeyEndLoans ==
  ASSUME TypeOK, LocalsOK, Sharing, Loans, Open' => Open, NEW t \in Thread, ClearKeyEnd(t)
  PROVE  Loans'
<1>1. /\ DOMAIN idle' \subseteq DOMAIN idle
      /\ \A j \in DOMAIN idle' : idle'[j] = idle[j]
      /\ UNCHANGED <<live, obj, busy>>
  BY DEF ClearKeyEnd
<1>2. IdleIsLive'
  BY <1>1 DEF Loans, IdleIsLive, IdleSet
<1>3. \A u \in Thread : pc'[u] \in Borrowing => pc[u] \in Borrowing /\ key'[u] = key[u]
  BY DEF ClearKeyEnd, TypeOK, CallsOK, Borrowing, Carrying
<1>4. LoansOK'
  BY <1>1, <1>3 DEF Loans, LoansOK
<1>5. QED
  BY <1>2, <1>4 DEF Loans

\* ClearEnd keeps lent and idle transports alive.
LEMMA ClearEndLoans ==
  ASSUME TypeOK, LocalsOK, ShutdownOK, NEW t \in Thread, ClearEnd(t)
  PROVE  Loans'
<1>1. ~Open'
  <2>1. CASE job[t] = "destroy"
    BY <2>1 DEF ClearEnd, Goto, TypeOK, CallsOK, Open
  <2>2. CASE job[t] # "destroy"
    BY <2>2 DEF ClearEnd, ShutdownOK, Open
  <2>3. QED
    BY <2>1, <2>2
<1>2. DOMAIN idle' = {}
  BY DEF ClearEnd, Empty
<1>3. QED
  BY <1>1, <1>2 DEF Loans, LoansOK, IdleIsLive, IdleSet

\* No step destroys an idle transport, or one of an open pool that a thread has.
LEMMA NextLoans ==
  ASSUME TypeOK, LocalsOK, Sharing, ShutdownOK, Loans, [Next]_vars
  PROVE  Loans'
<1>0. Open' => Open
  BY OpenBefore
<1>1. ASSUME NEW t \in Thread, Step(t) PROVE Loans'
  BY <1>0, <1>1, QuietLoans, ValidateObjectLoans, LoopStealLoans, MakeObjectLoans,
     PopLoans,
     AllocateLoans, EnsureMinIdleLoans, DrainPopLoans, ClearKeyEndLoans, ClearEndLoans
     DEF Step, Silent
<1>2. ASSUME NEW t \in Thread, Release(t) PROVE Loans'
  BY <1>0, <1>2, QuietLoans, ReturnObjectLoans, InvalidateObjectLoans DEF Release, Silent
<1>3. ASSUME NEW t \in Thread, Start(t) PROVE Loans'
  BY <1>0, <1>3, QuietLoans, BorrowObjectLoans, AddObjectLoans DEF Start, Silent
<1>4. CASE UNCHANGED vars
  BY <1>0, <1>4, SilentLoans DEF vars
<1>5. QED
  BY <1>1, <1>2, <1>3, <1>4 DEF Next, Done

\* The steps that neither lend nor take back a transport.
Neutral(t) ==
    \/ ValidateThrows(t) \/ ValidateObject(t) \/ LoopCreate(t) \/ LoopSteal(t) \/ LoopAskAllocate(t)
    \/ LoopWait(t) \/ MakeObject(t) \/ MakeObjectThrows(t) \/ Pop(t) \/ PopThrows(t)
    \/ Unwind(t) \/ DecrementRead(t) \/ DecrementWrite(t) \/ Relock(t) \/ Allocate(t)
    \/ AllocateThrows(t) \/ AllocateNull(t) \/ EnsureMinIdle(t) \/ AddObjectEnd(t)
    \/ DestroyClose(t) \/ Clear(t) \/ DrainSize(t) \/ DrainPop(t) \/ ClearKeyEnd(t)
    \/ Close(t) \/ Destroy(t)
    \/ \E k \in Key : \/ BorrowRefused(t, k) \/ BorrowObject(t, k)
                      \/ AddObject(t, k) \/ ClearKey(t, k)

\* The neutral steps change neither the holders nor totalActive.
LEMMA NeutralHolders ==
  ASSUME TypeOK, NEW t \in Thread, Neutral(t)
  PROVE  /\ UNCHANGED totalActive
         /\ Holders' = Holders
         /\ \A u \in Holders : obj'[u] = obj[u]
<1> DEFINE Same == /\ UNCHANGED totalActive
                   /\ \A u \in Thread : pc'[u] = "holding" <=> pc[u] = "holding"
                   /\ \A u \in Thread : pc[u] = "holding" => obj'[u] = obj[u]
<1>b. ASSUME ValidateThrows(t) PROVE Same
  BY <1>b DEF ValidateThrows, EndCall, loopVars, poolVars, TypeOK, CallsOK
<1>1. ASSUME ValidateObject(t) PROVE Same
  BY <1>1 DEF ValidateObject, Goto, callVars, loopVars, poolVars, TypeOK, CallsOK
<1>2. ASSUME LoopCreate(t) PROVE Same
  BY <1>2 DEF LoopCreate, Goto, callVars, loopVars, poolVars, TypeOK, CallsOK
<1>3. ASSUME LoopSteal(t) PROVE Same
  BY <1>3 DEF LoopSteal, Goto, callVars, loopVars, TypeOK, CallsOK
<1>4. ASSUME LoopAskAllocate(t) PROVE Same
  BY <1>4 DEF LoopAskAllocate, Goto, callVars, loopVars, TypeOK, CallsOK
<1>5. ASSUME LoopWait(t) PROVE Same
  BY <1>5 DEF LoopWait, Goto, callVars, loopVars, poolVars, TypeOK, CallsOK
<1>6. ASSUME MakeObject(t) PROVE Same
  BY <1>6 DEF MakeObject, Goto, callVars, loopVars, poolVars, Obtained, TypeOK, CallsOK
<1>7. ASSUME MakeObjectThrows(t) PROVE Same
  BY <1>7 DEF MakeObjectThrows, EndCall, loopVars, poolVars, TypeOK, CallsOK
<1>8. ASSUME Pop(t) PROVE Same
  BY <1>8 DEF Pop, Goto, callVars, loopVars, TypeOK, CallsOK
<1>9. ASSUME PopThrows(t) PROVE Same
  BY <1>9 DEF PopThrows, Goto, callVars, loopVars, poolVars, TypeOK, CallsOK
<1>10. ASSUME Unwind(t) PROVE Same
  BY <1>10 DEF Unwind, EndCall, loopVars, poolVars, TypeOK, CallsOK
<1>11. ASSUME DecrementRead(t) PROVE Same
  BY <1>11 DEF DecrementRead, Goto, loopVars, poolVars, TypeOK, CallsOK
<1>12. ASSUME DecrementWrite(t) PROVE Same
  BY <1>12 DEF DecrementWrite, Goto, loopVars, TypeOK, CallsOK
<1>13. ASSUME Relock(t) PROVE Same
  BY <1>13 DEF Relock, Goto, callVars, loopVars, poolVars, Obtained, TypeOK, CallsOK
<1>14. ASSUME Allocate(t) PROVE Same
  BY <1>14 DEF Allocate, EndCall, loopVars, TypeOK, CallsOK
<1>15. ASSUME AllocateThrows(t) PROVE Same
  BY <1>15 DEF AllocateThrows, EndCall, loopVars, TypeOK, CallsOK
<1>16. ASSUME AllocateNull(t) PROVE Same
  BY <1>16 DEF AllocateNull, Goto, callVars, loopVars, poolVars, TypeOK, CallsOK
<1>17. ASSUME EnsureMinIdle(t) PROVE Same
  BY <1>17 DEF EnsureMinIdle, callVars, TypeOK, CallsOK
<1>18. ASSUME AddObjectEnd(t) PROVE Same
  BY <1>18 DEF AddObjectEnd, EndCall, poolVars, TypeOK, CallsOK
<1>19. ASSUME DestroyClose(t) PROVE Same
  BY <1>19 DEF DestroyClose, Goto, loopVars, TypeOK, CallsOK
<1>20. ASSUME Clear(t) PROVE Same
  BY <1>20 DEF Clear, Goto, callVars, poolVars, TypeOK, CallsOK
<1>21. ASSUME DrainSize(t) PROVE Same
  BY <1>21 DEF DrainSize, Goto, poolVars, TypeOK, CallsOK
<1>22. ASSUME DrainPop(t) PROVE Same
  BY <1>22 DEF DrainPop, Goto, callVars, loopVars, TypeOK, CallsOK
<1>23. ASSUME ClearKeyEnd(t) PROVE Same
  BY <1>23 DEF ClearKeyEnd, loopVars, TypeOK, CallsOK
<1>24. ASSUME Close(t) PROVE Same
  BY <1>24 DEF Close, Call, Goto, loopVars, TypeOK, CallsOK
<1>25. ASSUME Destroy(t) PROVE Same
  BY <1>25 DEF Destroy, Call, FactoryLockFree, Goto, loopVars, poolVars, TypeOK, CallsOK
<1>26. ASSUME NEW k \in Key, BorrowRefused(t, k) PROVE Same
  BY <1>26 DEF BorrowRefused, Call, callVars, loopVars, poolVars, TypeOK, CallsOK
<1>27. ASSUME NEW k \in Key, BorrowObject(t, k) PROVE Same
  BY <1>27 DEF BorrowObject, Call, Goto, loopVars, Obtained, TypeOK, CallsOK
<1>28. ASSUME NEW k \in Key, AddObject(t, k) PROVE Same
  BY <1>28 DEF AddObject, FactoryLockFree, Goto, TypeOK, CallsOK
<1>29. ASSUME NEW k \in Key, ClearKey(t, k) PROVE Same
  BY <1>29 DEF ClearKey, Call, FactoryLockFree, Goto, TypeOK, CallsOK
<1>a. Same
  BY <1>b, <1>1, <1>2, <1>3, <1>4, <1>5, <1>6, <1>7, <1>8, <1>9, <1>10, <1>11, <1>12, <1>13,
     <1>14, <1>15, <1>16, <1>17, <1>18, <1>19, <1>20, <1>21, <1>22, <1>23, <1>24, <1>25,
     <1>26, <1>27, <1>28, <1>29 DEF Neutral
<1> QED
  BY <1>a DEF Holders

\* Returning or invalidating ends exactly one loan.
LEMMA ReleaseHolders ==
  ASSUME TypeOK, NEW t \in Thread, Release(t)
  PROVE  /\ t \in Holders /\ Holders' = Holders \ {t}
         /\ \A u \in Holders \ {t} : obj'[u] = obj[u]
<1> DEFINE Gone == /\ pc[t] = "holding" /\ pc'[t] # "holding"
                   /\ \A u \in Thread \ {t} : pc'[u] = pc[u] /\ obj'[u] = obj[u]
<1>b. ASSUME ReturnThrows(t) PROVE Gone
  BY <1>b DEF ReturnThrows, EndCall, loopVars, TypeOK, CallsOK
<1>1. ASSUME ReturnObject(t) PROVE Gone
  BY <1>1 DEF ReturnObject, EndCall, loopVars, TypeOK, CallsOK
<1>2. ASSUME ReturnToAllocate(t) PROVE Gone
  BY <1>2 DEF ReturnToAllocate, Goto, loopVars, TypeOK, CallsOK
<1>3. ASSUME NEW k \in Key, InvalidateNoBusy(t, k) PROVE Gone
  BY <1>3 DEF InvalidateNoBusy, EndCall, loopVars, poolVars, TypeOK, CallsOK
<1>4. ASSUME NEW k \in Key, InvalidateNoIdle(t, k) PROVE Gone
  BY <1>4 DEF InvalidateNoIdle, EndCall, loopVars, TypeOK, CallsOK
<1>5. ASSUME NEW k \in Key, InvalidateObject(t, k) PROVE Gone
  BY <1>5 DEF InvalidateObject, EndCall, Goto, loopVars, TypeOK, CallsOK
<1>a. Gone
  BY <1>b, <1>1, <1>2, <1>3, <1>4, <1>5 DEF Release
<1> QED
  BY <1>a DEF Holders

\* In an open pool every path of returnObject and invalidateObject counts down once.
LEMMA ReleaseActive ==
  ASSUME TypeOK, LocalsOK, Loans, Open, NEW t \in Thread, Release(t)
  PROVE  totalActive' = totalActive - 1
<1>1. pc[t] = "holding"
  BY ReleaseHolders DEF Holders
<1>2. key[t] \in DOMAIN busy
  BY <1>1 DEF Loans, LoansOK, Borrowing, Carrying
<1>3. CASE ReturnObject(t)
  BY <1>2, <1>3 DEF ReturnObject, RemoveBusy
<1>4. CASE ReturnToAllocate(t)
  BY <1>2, <1>4 DEF ReturnToAllocate, RemoveBusy
<1>a. CASE ReturnThrows(t)
  BY <1>2, <1>a DEF ReturnThrows, RemoveBusy
<1>5. ASSUME NEW k \in Key, InvalidateNoBusy(t, k) PROVE FALSE
  BY <1>2, <1>5 DEF InvalidateNoBusy, InvalidKeys
<1>6. ASSUME NEW k \in Key, InvalidateNoIdle(t, k) PROVE totalActive' = totalActive - 1
  BY <1>6 DEF InvalidateNoIdle, RemoveBusy
<1>7. ASSUME NEW k \in Key, InvalidateObject(t, k) PROVE totalActive' = totalActive - 1
  BY <1>7 DEF InvalidateObject, RemoveBusy
<1>8. QED
  BY <1>3, <1>4, <1>a, <1>5, <1>6, <1>7 DEF Release

\* The end of borrowObject starts one loan and counts it.
LEMMA ActivateHolders ==
  ASSUME TypeOK, NEW t \in Thread, Activate(t)
  PROVE  /\ t \notin Holders /\ Holders' = Holders \cup {t}
         /\ totalActive' = totalActive + 1
         /\ UNCHANGED obj
  BY DEF Activate, Goto, Holders, TypeOK, CallsOK

\* clear() is called by close() and destroy() only: the pool is shut down after it.
LEMMA ClearEndCloses ==
  ASSUME TypeOK, ShutdownOK, NEW t \in Thread, ClearEnd(t)
  PROVE  ~Open' /\ UNCHANGED obj
<1>1. CASE job[t] = "destroy"
  BY <1>1 DEF ClearEnd, Goto, TypeOK, CallsOK, Open
<1>2. CASE job[t] # "destroy"
  BY <1>2 DEF ClearEnd, ShutdownOK, Open
<1>3. QED
  BY <1>1, <1>2 DEF ClearEnd

\* Every step is neutral, a release, the end of borrowObject or the end of clear().
LEMMA NextCases ==
  ASSUME [Next]_vars
  PROVE  \/ \E t \in Thread : Neutral(t) \/ Release(t) \/ Activate(t) \/ ClearEnd(t)
         \/ UNCHANGED vars
  BY DEF Next, Step, Start, Neutral, Done

\* Every step keeps totalActive equal to the number of holders.
LEMMA NextActive ==
  ASSUME TypeOK, LocalsOK, ShutdownOK, Loans, ActiveIsExact, [Next]_vars
  PROVE  ActiveIsExact'
<1> SUFFICES ASSUME Open' PROVE totalActive' = Cardinality(Holders')
  BY DEF ActiveIsExact
<1>1. Open /\ totalActive = Cardinality(Holders)
  BY OpenBefore DEF ActiveIsExact
<1>2. IsFiniteSet(Holders)
  BY ThreadAssumption, FS_Subset DEF Holders
<1>3. ASSUME NEW t \in Thread, Neutral(t) PROVE totalActive' = Cardinality(Holders')
  BY <1>1, <1>3, NeutralHolders
<1>4. ASSUME NEW t \in Thread, Release(t) PROVE totalActive' = Cardinality(Holders')
  <2>1. t \in Holders /\ Holders' = Holders \ {t} /\ totalActive' = totalActive - 1
    BY <1>1, <1>4, ReleaseHolders, ReleaseActive
  <2>2. Cardinality(Holders \ {t}) = Cardinality(Holders) - 1
    BY <1>2, <2>1, FS_RemoveElement
  <2>3. QED
    BY <1>1, <2>1, <2>2
<1>5. ASSUME NEW t \in Thread, Activate(t) PROVE totalActive' = Cardinality(Holders')
  <2>1. t \notin Holders /\ Holders' = Holders \cup {t} /\ totalActive' = totalActive + 1
    BY <1>5, ActivateHolders
  <2>2. Cardinality(Holders \cup {t}) = Cardinality(Holders) + 1
    BY <1>2, <2>1, FS_AddElement
  <2>3. QED
    BY <1>1, <2>1, <2>2
<1>6. CASE UNCHANGED vars
  BY <1>1, <1>6 DEF vars, Holders
<1>7. QED
  BY <1>3, <1>4, <1>5, <1>6, ClearEndCloses, NextCases

\* No step destroys the transport of a thread that holds it, while the pool is open.
LEMMA NextHeld ==
  ASSUME TypeOK, LocalsOK', ShutdownOK, Loans', [Next]_vars
  PROVE  Open' => \A t \in Holders : obj[t] \in live /\ t \in Holders' => obj[t] \in live'
<1> SUFFICES ASSUME Open', NEW u \in Holders, u \in Holders'
             PROVE  obj[u] \in live'
  OBVIOUS
<1>1. obj'[u] \in live'
  BY DEF Loans, LoansOK, LocalsOK, Carrying, Holders
<1>2. obj'[u] = obj[u]
  BY NextCases, NeutralHolders, ReleaseHolders, ActivateHolders, ClearEndCloses DEF vars
<1>3. QED
  BY <1>1, <1>2

\* A new pool has lent nothing.
LEMMA InitSafe ==
  ASSUME Init
  PROVE  ShutdownOK /\ Loans /\ ActiveIsExact
<1>1. /\ DOMAIN idle = {} /\ totalActive = 0
      /\ \A t \in Thread : pc[t] = "ready" /\ job[t] = "none" /\ obj[t] = None
  BY DEF Init, Empty
<1>2. ShutdownOK
  BY <1>1 DEF ShutdownOK
<1>3. Loans
  BY <1>1 DEF Loans, LoansOK, IdleIsLive, IdleSet, Borrowing, Carrying
<1>4. Holders = {}
  BY <1>1 DEF Holders
<1>5. ActiveIsExact
  BY <1>1, <1>4, FS_EmptySet DEF ActiveIsExact
<1>6. QED
  BY <1>2, <1>3, <1>5

\* The invariant everything below follows from.
Safe == TypeOK /\ LocalsOK /\ Sharing /\ ShutdownOK /\ Loans /\ ActiveIsExact

\* The inductive invariant of the pool, with the bookkeeping of shutdown and loans.
THEOREM SafeInvariant == Spec => []Safe
<1>1. Init => Safe
  BY InitOK, InitSharing, InitSafe DEF Safe
<1>2. Safe /\ [Next]_vars => Safe'
  BY NextOK, NextSharing, NextShutdown, NextLoans, NextActive DEF Safe
<1>3. QED
  BY <1>1, <1>2, PTL DEF Spec

\* The idle queues never hold a transport that destroyObject deleted, whatever returns,
\* invalidations and topology updates race with close() and destroy().
THEOREM IdleTransportsExist == Spec => []IdleIsLive
<1>1. Safe => IdleIsLive
  BY DEF Safe, Loans
<1>2. QED
  BY <1>1, SafeInvariant, PTL

\* Until shutdown totalActive, which maxTotal is compared with, is the number of
\* transports lent, on every path of returnObject and invalidateObject.
THEOREM ActiveCountIsExact == Spec => []ActiveIsExact
<1>1. Safe => ActiveIsExact
  BY DEF Safe
<1>2. QED
  BY <1>1, SafeInvariant, PTL

\* Until shutdown no step destroys a transport that a thread goes on holding.
THEOREM HeldTransportsSurvive == Spec => HeldIsNotDestroyed
<1>1. Safe /\ Safe' /\ [Next]_vars =>
        [Open' => \A t \in Holders :
                     obj[t] \in live /\ t \in Holders' => obj[t] \in live']_vars
  BY NextHeld DEF Safe
<1>2. QED
  BY <1>1, SafeInvariant, PTL DEF Spec, HeldIsNotDestroyed

-----------------------------------------------------------------------------
(* The refinement of TransportLoan *)

\* What the clients hold: the loans of the abstract specification.
Lends == [t \in Thread |-> IF pc[t] = "holding" THEN obj[t] ELSE None]

\* makeObject never returns the address of a transport that a thread has.
LEMMA NewIsUnused ==
  ASSUME TypeOK, LocalsOK, [Next]_vars
  PROVE  \A tr \in live' \ live : \A u \in Thread : obj[u] # tr
<1> DEFINE Unused == \A tr \in live' \ live : \A u \in Thread : obj[u] # tr
<1>1. ASSUME NEW t \in Thread, MakeObject(t) PROVE Unused
  <2>1. PICK tr \in Makable(key[t]) : live' = live \cup {tr}
    BY <1>1 DEF MakeObject
  <2>2. key[t] \in Key
    BY <1>1 DEF MakeObject, LocalsOK, Borrowing
  <2>3. QED
    BY <2>1, <2>2, Fresh
<1>2. ASSUME NEW t \in Thread, Allocate(t) PROVE Unused
  <2>1. PICK tr \in Makable(Head(allocationQueue)) : live' = (live \cup {tr}) \ {obj[t]}
    BY <1>2 DEF Allocate
  <2>2. Head(allocationQueue) \in Key
    BY <1>2 DEF Allocate, TypeOK, QueuesOK
  <2>3. QED
    BY <2>1, <2>2, Fresh
<1>3. ASSUME NEW t \in Thread, EnsureMinIdle(t) PROVE Unused
  <2>1. PICK tr \in Makable(key[t]) : live' = live \cup {tr}
    BY <1>3 DEF EnsureMinIdle
  <2>2. key[t] \in Key
    BY <1>3 DEF EnsureMinIdle, LocalsOK, TypeOK, QueuesOK
  <2>3. QED
    BY <2>1, <2>2, Fresh
<1>4. ASSUME NEW t \in Thread, Silent(t) PROVE UNCHANGED live
  BY <1>4 DEF Silent, ValidateThrows, ReturnThrows, LoopCreate, LoopAskAllocate, LoopWait,
     MakeObjectThrows, PopThrows, Unwind, DecrementRead, DecrementWrite, Relock, Activate,
     AllocateThrows, AllocateNull, AddObjectEnd, DestroyClose, Clear, DrainSize,
     ReturnToAllocate, Close, Destroy, BorrowRefused, ClearKey, InvalidateNoBusy,
     InvalidateNoIdle
<1>5. ASSUME NEW t \in Thread,
             \/ ValidateObject(t) \/ LoopSteal(t) \/ Pop(t) \/ DrainPop(t)
             \/ ClearKeyEnd(t) \/ ClearEnd(t) \/ ReturnObject(t)
             \/ \E k \in Key : \/ InvalidateObject(t, k) \/ BorrowObject(t, k)
                               \/ AddObject(t, k)
      PROVE  live' \subseteq live
  BY <1>5 DEF ValidateObject, LoopSteal, Pop, DrainPop, ClearKeyEnd, ClearEnd, ReturnObject,
     InvalidateObject, BorrowObject, AddObject, DestroyObject
<1>6. ASSUME UNCHANGED vars PROVE Unused
  BY <1>6 DEF vars
<1> HIDE DEF Unused
<1>7. ASSUME live' \subseteq live PROVE Unused
  BY <1>7 DEF Unused
<1>8. Unused
  BY <1>1, <1>2, <1>3, <1>4, <1>5, <1>6, <1>7 DEF Next, Step, Release, Start, Done, Silent
<1>9. QED
  BY <1>8 DEF Unused

\* A step that neither starts nor ends a loan makes and destroys transports nobody holds.
LEMMA ChurnStep ==
  ASSUME Safe, Safe', [Next]_vars, Lends' = Lends
  PROVE  Loan!Churn
<1>1. live' \subseteq Transport
  BY DEF Safe, TypeOK, QueuesOK
<1>2. \A tr \in live' \ live : \A u \in Thread : Lends[u] # tr
  <2>1. \A tr \in live' \ live : \A u \in Thread : obj[u] # tr
    BY NewIsUnused DEF Safe
  <2>2. None \notin live'
    BY <1>1, NoneAssumption
  <2>3. QED
    BY <2>1, <2>2 DEF Lends
<1>3. Open' => \A u \in Thread : Lends[u] # None => Lends[u] \in live'
  BY DEF Lends, Safe, Loans, LoansOK
<1>4. Open' => Open
  BY OpenBefore DEF Safe
<1>5. QED
  BY <1>1, <1>2, <1>3, <1>4 DEF Loan!Churn, Loan!Lent, Lends

\* Returning or invalidating ends the loan of one thread, and destroys at most its
\* transport.
LEMMA TakeBackStep ==
  ASSUME Safe, NEW t \in Thread, Release(t)
  PROVE  Loan!TakeBack(t)
<1> DEFINE Back == /\ pc[t] = "holding" /\ pc' = [pc EXCEPT ![t] = pc'[t]]
                   /\ pc'[t] \notin {"holding", "cleared"}
                   /\ \A u \in Thread \ {t} : obj'[u] = obj[u]
                   /\ live' \in {live, live \ {obj[t]}}
                   /\ UNCHANGED closed
<1> USE DEF Safe, TypeOK, CallsOK
<1>1. ASSUME ReturnThrows(t) PROVE Back
  BY <1>1 DEF ReturnThrows, EndCall
<1>2. ASSUME ReturnObject(t) PROVE Back
  BY <1>2 DEF ReturnObject, EndCall, DestroyObject
<1>3. ASSUME ReturnToAllocate(t) PROVE Back
  BY <1>3 DEF ReturnToAllocate, Goto
<1>4. ASSUME NEW k \in Key, InvalidateNoBusy(t, k) PROVE Back
  BY <1>4 DEF InvalidateNoBusy, EndCall, poolVars
<1>5. ASSUME NEW k \in Key, InvalidateNoIdle(t, k) PROVE Back
  BY <1>5 DEF InvalidateNoIdle, EndCall
<1>6. ASSUME NEW k \in Key, InvalidateObject(t, k) PROVE Back
  BY <1>6 DEF InvalidateObject, EndCall, Goto, DestroyObject
<1>7. Back
  BY <1>1, <1>2, <1>3, <1>4, <1>5, <1>6 DEF Release
<1>8. Lends[t] = obj[t] /\ Lends[t] # None
  BY <1>7 DEF Lends, LocalsOK, Carrying
<1>9. Lends' = [Lends EXCEPT ![t] = None]
  BY <1>7 DEF Lends
<1>10. Open' = Open
  BY <1>7 DEF Open
<1>11. QED
  BY <1>7, <1>8, <1>9, <1>10 DEF Loan!TakeBack, Lends

\* The end of borrowObject lends a transport that no other thread holds and that, in an
\* open pool, nobody destroyed while the borrower waited or had released the mutex.
LEMMA LendStep ==
  ASSUME Safe, NEW t \in Thread, Activate(t)
  PROVE  \E tr \in Transport : Loan!Lend(t, tr)
<1>1. /\ pc[t] = "got" /\ pc' = [pc EXCEPT ![t] = "holding"]
      /\ UNCHANGED <<obj, live, closed>>
  BY DEF Activate, Goto
<1>2. obj[t] \in Transport /\ obj[t] # None
  BY <1>1 DEF Safe, TypeOK, CallsOK, LocalsOK, Carrying
<1>3. Lends[t] = None
  BY <1>1 DEF Lends
<1>4. \A u \in Thread : Lends[u] # obj[t]
  BY <1>1, <1>2 DEF Lends, Safe, Sharing, NoSharing
<1>5. Open => obj[t] \in live
  BY <1>2 DEF Safe, Loans, LoansOK
<1>6. Lends' = [Lends EXCEPT ![t] = obj[t]]
  BY <1>1 DEF Lends, Safe, TypeOK, CallsOK
<1>7. Open' = Open
  BY <1>1 DEF Open, Safe, TypeOK, CallsOK
<1>8. QED
  BY <1>1, <1>2, <1>3, <1>4, <1>5, <1>6, <1>7 DEF Loan!Lend, Loan!Lent, Lends

\* Every step of the pool is a step of the abstract loan, or changes nothing of it.
LEMMA NextImplementsLoan ==
  ASSUME Safe, Safe', [Next]_vars
  PROVE  [Loan!LoanNext]_(Loan!loanVars)
<1>1. ASSUME NEW t \in Thread, Neutral(t) PROVE Loan!Churn
  <2>1. Holders' = Holders /\ \A u \in Holders : obj'[u] = obj[u]
    BY <1>1, NeutralHolders DEF Safe
  <2>2. \A u \in Thread : (pc'[u] = "holding" <=> pc[u] = "holding")
    BY <2>1 DEF Holders
  <2>3. Lends' = Lends
    BY <2>1, <2>2 DEF Lends, Holders
  <2>4. QED
    BY <2>3, ChurnStep
<1>2. ASSUME NEW t \in Thread, ClearEnd(t) PROVE Loan!Churn
  <2>1. Lends' = Lends
    BY <1>2 DEF Lends, ClearEnd, Goto, Safe, TypeOK, CallsOK
  <2>2. QED
    BY <2>1, ChurnStep
<1>3. CASE UNCHANGED vars
  BY <1>3 DEF vars, Loan!loanVars, Open
<1>4. ASSUME NEW t \in Thread, Release(t) PROVE Loan!LoanNext
  BY <1>4, TakeBackStep DEF Loan!LoanNext
<1>5. ASSUME NEW t \in Thread, Activate(t) PROVE Loan!LoanNext
  <2>1. PICK tr \in Transport : Loan!Lend(t, tr)
    BY <1>5, LendStep
  <2>2. QED
    BY <2>1 DEF Loan!LoanNext
<1>6. ASSUME Loan!Churn PROVE Loan!LoanNext
  BY <1>6 DEF Loan!LoanNext
<1>7. QED
  BY <1>1, <1>2, <1>3, <1>4, <1>5, <1>6, NextCases

\* The pool, with its queues, counters, limits and the mutex that borrowObject gives up,
\* implements the abstract loan of transports: each is lent to one thread at a time, only
\* existing ones are lent, and nobody else destroys a lent one while the pool is open.
THEOREM PoolImplementsLoan == Spec => ImplementsLoan
<1>1. Init => Loan!LoanInit
  BY DEF Init, Loan!LoanInit, Open
<1>2. Safe /\ Safe' /\ [Next]_vars => [Loan!LoanNext]_(Loan!loanVars)
  BY NextImplementsLoan
<1>3. QED
  BY <1>1, <1>2, SafeInvariant, PTL DEF Spec, ImplementsLoan, Loan!LoanSpec

=============================================================================
