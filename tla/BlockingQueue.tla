--------------------------- MODULE BlockingQueue ---------------------------
(***************************************************************************)
(* BlockingQueue and BoundedBlockingQueue (cpp/src/blocking_queue.h): a    *)
(* mutex, condition_ for those who wait for an element and, in the bounded *)
(* one, condition_full_ for those who wait for room.  One action is what a *)
(* thread does while it holds the mutex, from lock or wake-up to unlock or *)
(* wait.  C++ lets a thread wake up without a notification.                *)
(***************************************************************************)
EXTENDS Naturals, Sequences, FiniteSets

CONSTANTS
  Producers,  \* threads that call Push
  Consumers,  \* threads that call Pop
  Pollers,    \* threads that call TryPop and Clear, which never wait
  Bounded,    \* BoundedBlockingQueue
  MaxCount,   \* max_count_
  MaxLen,     \* bound: elements in an unbounded queue
  MaxQuiet    \* bound: elements taken by TryPop and Clear

ASSUME QueueAssumption ==
  /\ IsFiniteSet(Producers) /\ IsFiniteSet(Consumers)
  /\ Producers \cap Consumers = {}
  /\ Bounded \in BOOLEAN /\ MaxCount \in Nat \ {0}
  /\ MaxLen \in Nat /\ MaxQuiet \in Nat

VARIABLES
  queue,   \* queue_
  pc,      \* outside of a call, waiting for the mutex, or on a condition
  quietly  \* history: places that TryPop and Clear have freed

vars == <<queue, pc, quietly>>

Threads == Producers \cup Consumers

TypeOK ==
  /\ queue \in Seq(Producers)
  /\ Bounded => Len(queue) <= MaxCount
  /\ pc \in [Threads -> {"out", "lock", "wait"}]
  /\ quietly \in Nat

Init ==
  /\ queue = <<>>
  /\ pc = [t \in Threads |-> "out"]
  /\ quietly = 0

\* The threads of a kind that contend for the mutex, or sleep on a condition.
Awake(S)  == {t \in S : pc[t] = "lock"}
Asleep(S) == {t \in S : pc[t] = "wait"}

Full == Bounded /\ Len(queue) >= MaxCount

Call(t) ==
  /\ pc[t] = "out"
  /\ pc' = [pc EXCEPT ![t] = "lock"]
  /\ UNCHANGED <<queue, quietly>>

Wait(t) ==
  /\ pc' = [pc EXCEPT ![t] = "wait"]
  /\ UNCHANGED <<queue, quietly>>

\* t leaves and notify_one wakes one of those asleep in S, if there are any.
LeaveAndNotify(t, S) ==
  IF Asleep(S) = {}
  THEN pc' = [pc EXCEPT ![t] = "out"]
  ELSE \E s \in Asleep(S) : pc' = [pc EXCEPT ![t] = "out", ![s] = "lock"]

Leave(t) == pc' = [pc EXCEPT ![t] = "out"]

\* Faulty: notifies only when the queue was empty.
PushNotifiesFirst(t) ==
  /\ pc[t] = "lock" /\ ~Full /\ Len(queue) < MaxLen
  /\ queue' = Append(queue, t)
  /\ IF queue = <<>> THEN LeaveAndNotify(t, Consumers) ELSE Leave(t)
  /\ UNCHANGED quietly

Push(t) ==
  /\ pc[t] = "lock" /\ ~Full /\ Len(queue) < MaxLen
  /\ queue' = Append(queue, t)
  /\ LeaveAndNotify(t, Consumers)
  /\ UNCHANGED quietly

PushWaits(t) == pc[t] = "lock" /\ Full /\ Wait(t)

\* Faulty: the bounded queue does not notify either.
PopTellsNobody(t) ==
  /\ pc[t] = "lock" /\ queue # <<>>
  /\ queue' = Tail(queue)
  /\ Leave(t)
  /\ UNCHANGED quietly

Pop(t) ==
  /\ pc[t] = "lock" /\ queue # <<>>
  /\ queue' = Tail(queue)
  /\ IF Bounded THEN LeaveAndNotify(t, Producers) ELSE Leave(t)
  /\ UNCHANGED quietly

PopWaits(t) == pc[t] = "lock" /\ queue = <<>> /\ Wait(t)

\* The while around wait() makes a thread look again.
SpuriousWakeup(t) ==
  /\ pc[t] = "wait"
  /\ pc' = [pc EXCEPT ![t] = "lock"]
  /\ UNCHANGED <<queue, quietly>>

TryPop ==
  /\ queue # <<>> /\ quietly < MaxQuiet
  /\ queue' = Tail(queue)
  /\ quietly' = quietly + 1
  /\ UNCHANGED pc

Clear ==
  /\ queue # <<>> /\ quietly + Len(queue) <= MaxQuiet
  /\ queue' = <<>>
  /\ quietly' = quietly + Len(queue)
  /\ UNCHANGED pc

Next ==
  \/ \E t \in Threads : Call(t) \/ SpuriousWakeup(t)
  \/ \E t \in Producers : Push(t) \/ PushWaits(t)
  \/ \E t \in Consumers : Pop(t) \/ PopWaits(t)
  \/ \E t \in Pollers : TryPop \/ Clear

Spec == Init /\ [][Next]_vars

-----------------------------------------------------------------------------
\* While a thread sleeps in Pop, every element in the queue has a thread awake
\* that comes to fetch it.
PoppersWoken ==
  Asleep(Consumers) # {} => Len(queue) <= Cardinality(Awake(Consumers))

\* While a thread sleeps in Push, every free place has a thread awake that comes
\* to fill it, but for the places that TryPop and Clear freed without a word.
PushersWoken ==
  Asleep(Producers) # {} =>
    MaxCount <= Len(queue) + Cardinality(Awake(Producers)) + quietly

\* Producers and consumers do not all sleep, as long as nobody empties the queue
\* behind their back.
NotAllAsleep ==
  Producers # {} /\ Consumers # {} /\ Asleep(Threads) = Threads => quietly > 0
=============================================================================
