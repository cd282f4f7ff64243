---------------------------- MODULE BlockingQueue ----------------------------
(***************************************************************************)
(* src/src/hotrod/sys/BlockingQueue.h: a list, a mutex and a condition     *)
(* variable.  Every operation runs under the mutex and is one action,      *)
(* except pop(), which releases it in condition.wait: a thread in pop() is *)
(* "trying" (it holds or contends for the mutex) or "waiting".             *)
(***************************************************************************)
EXTENDS Integers, Sequences, FiniteSets, Functions

CONSTANTS
    Thread,
    Value,     \* each value is pushed at most once, which bounds the model
    Capacity   \* 0: no limit

ASSUME CapacityAssumption == Capacity \in Nat
ASSUME FiniteAssumption == IsFiniteSet(Thread)

VARIABLES
    queue,
    pc,        \* per thread: "idle", "trying", "waiting"
    pushed,    \* history: values in the order they were pushed
    taken,     \* history: values in the order they left at the front
    removed    \* history: values that left through remove()

queueVars == <<queue, pc, pushed, taken, removed>>

QueueInit ==
    /\ queue = <<>>
    /\ pc = [t \in Thread |-> "idle"]
    /\ pushed = <<>> /\ taken = <<>> /\ removed = {}

Trying  == {t \in Thread : pc[t] = "trying"}
Waiting == {t \in Thread : pc[t] = "waiting"}

\* Seeded bug: only the push that finds the queue empty notifies.
NotifyFirst ==
    IF Waiting = {} \/ queue # <<>> THEN UNCHANGED pc
    ELSE \E w \in Waiting : pc' = [pc EXCEPT ![w] = "trying"]

\* condition.notify(): one of the waiting threads, if any, contends for the mutex.
Notify ==
    IF Waiting = {} THEN UNCHANGED pc
    ELSE \E w \in Waiting : pc' = [pc EXCEPT ![w] = "trying"]

\* queue.size() == capacity; a capacity of 0 is no limit.
Full == Capacity > 0 /\ Len(queue) = Capacity

\* push() and offer(): a full queue throws, or refuses, and changes nothing.
Push(t, v) ==
    /\ pc[t] = "idle" /\ v \notin Range(pushed)
    /\ ~Full
    /\ queue' = Append(queue, v)
    /\ pushed' = Append(pushed, v)
    /\ Notify
    /\ UNCHANGED <<taken, removed>>

\* Seeded bug: the most recent element is taken.
TakeBack ==
    /\ queue # <<>>
    /\ queue' = SubSeq(queue, 1, Len(queue) - 1)
    /\ taken' = Append(taken, queue[Len(queue)])
    /\ UNCHANGED <<pushed, removed>>

\* front(), pop_front()
TakeFront ==
    /\ queue # <<>>
    /\ queue' = Tail(queue)
    /\ taken' = Append(taken, Head(queue))
    /\ UNCHANGED <<pushed, removed>>

\* poll() and popOrThrow() of a queue that is not empty; otherwise they return false,
\* or throw, and change nothing.
Poll(t) == pc[t] = "idle" /\ TakeFront /\ UNCHANGED pc

PopCall(t) ==
    /\ pc[t] = "idle"
    /\ pc' = [pc EXCEPT ![t] = "trying"]
    /\ UNCHANGED <<queue, pushed, taken, removed>>

\* while (queue.empty()) condition.wait(lock)
PopWait(t) ==
    /\ pc[t] = "trying" /\ queue = <<>>
    /\ pc' = [pc EXCEPT ![t] = "waiting"]
    /\ UNCHANGED <<queue, pushed, taken, removed>>

PopTake(t) ==
    /\ pc[t] = "trying" /\ TakeFront
    /\ pc' = [pc EXCEPT ![t] = "idle"]

\* remove(value): the values are distinct.
RemoveValue(t, v) ==
    /\ pc[t] = "idle"
    /\ \E i \in DOMAIN queue :
        /\ queue[i] = v
        /\ queue' = SubSeq(queue, 1, i - 1) \o SubSeq(queue, i + 1, Len(queue))
    /\ removed' = removed \cup {v}
    /\ UNCHANGED <<pc, pushed, taken>>

\* notifyAll() takes no lock.
NotifyAll(t) ==
    /\ pc[t] = "idle"
    /\ pc' = [u \in Thread |-> IF pc[u] = "waiting" THEN "trying" ELSE pc[u]]
    /\ UNCHANGED <<queue, pushed, taken, removed>>

\* pthread_cond_wait may return without a notification.
SpuriousWakeup(t) ==
    /\ pc[t] = "waiting"
    /\ pc' = [pc EXCEPT ![t] = "trying"]
    /\ UNCHANGED <<queue, pushed, taken, removed>>

QueueNext ==
    \E t \in Thread :
        \/ Poll(t) \/ PopCall(t) \/ PopWait(t) \/ PopTake(t)
        \/ NotifyAll(t) \/ SpuriousWakeup(t)
        \/ \E v \in Value : Push(t, v) \/ RemoveValue(t, v)

QueueSpec == QueueInit /\ [][QueueNext]_queueVars

\* A thread that contends for the mutex gets it in the end.
FairQueueSpec == QueueSpec /\ \A t \in Thread : WF_queueVars(PopWait(t) \/ PopTake(t))

------------------------------------------------------------------------------
\* Every variable stays in its domain, and the queue within its capacity.
QueueTypeOK ==
    /\ queue \in Seq(Value) /\ pushed \in Seq(Value) /\ taken \in Seq(Value)
    /\ Capacity > 0 => Len(queue) <= Capacity
    /\ removed \subseteq Value
    /\ pc \in [Thread -> {"idle", "trying", "waiting"}]

\* No lost wakeup: while a thread sleeps in pop(), every element of the queue has a
\* thread that is awake to take it, whatever was polled or removed in between.
NoLostWakeup == Waiting = {} \/ Len(queue) <= Cardinality(Trying)

\* out has the values of in that are not gone, each once, in the order of in.
KeepsOrder(in, gone, out) ==
    /\ Range(out) = Range(in) \ gone
    /\ \A i, j \in DOMAIN out :
        i < j => \E a, b \in DOMAIN in : a < b /\ in[a] = out[i] /\ in[b] = out[j]

\* pop(), popOrThrow() and poll() together deliver the values in the order of the
\* pushes; remove() takes values out without reordering the others.
Fifo == KeepsOrder(pushed, removed, taken \o queue)

\* Under fair scheduling of the mutex alone, values and sleeping threads never stay
\* together: either the queue empties or nobody is left in pop().
ValuesMeetWaiters == (queue # <<>> /\ Waiting # {}) ~> (queue = <<>> \/ Waiting = {})

==============================================================================
