------------------------ MODULE BlockingQueueProofs ------------------------
(***************************************************************************)
(* No wake-up is lost in either queue, for any number of threads and any   *)
(* bound.                                                                  *)
(***************************************************************************)
EXTENDS BlockingQueue, FiniteSetTheorems, TLAPS

LEMMA AddOne ==
  ASSUME NEW S, IsFiniteSet(S), NEW T \in SUBSET S, NEW t \in S, t \notin T
  PROVE  Cardinality(T \cup {t}) = Cardinality(T) + 1
<1>1. IsFiniteSet(T)
  BY FS_Subset
<1>. QED
  BY <1>1, FS_AddElement

LEMMA RemoveOne ==
  ASSUME NEW S, IsFiniteSet(S), NEW T \in SUBSET S, NEW t \in T
  PROVE  Cardinality(T \ {t}) = Cardinality(T) - 1
<1>1. IsFiniteSet(T)
  BY FS_Subset
<1>. QED
  BY <1>1, FS_RemoveElement

LEMMA AwakeCount ==
  ASSUME NEW S, IsFiniteSet(S)
  PROVE  Awake(S) \in SUBSET S /\ Cardinality(Awake(S)) \in Nat
<1>1. Awake(S) \in SUBSET S
  BY DEF Awake
<1>. QED
  BY <1>1, FS_Subset, FS_CardinalityType

\* How a step of one thread changes who is awake and who is asleep in S.
LEMMA WakesUp ==
  ASSUME TypeOK, NEW S \in SUBSET Threads, IsFiniteSet(S),
         NEW t \in Threads, pc[t] # "lock", pc' = [pc EXCEPT ![t] = "lock"]
  PROVE  /\ Cardinality(Awake(S)') = Cardinality(Awake(S)) + (IF t \in S THEN 1 ELSE 0)
         /\ Asleep(S)' \subseteq Asleep(S)
<1>1. Asleep(S)' \subseteq Asleep(S)
  BY DEF Asleep, TypeOK
<1>2. CASE t \in S
  <2>1. Awake(S)' = Awake(S) \cup {t} /\ t \notin Awake(S)
    BY <1>2 DEF Awake, TypeOK
  <2>2. Cardinality(Awake(S) \cup {t}) = Cardinality(Awake(S)) + 1
    BY <1>2, <2>1, AddOne, AwakeCount
  <2>. QED
    BY <1>1, <1>2, <2>1, <2>2
<1>3. CASE t \notin S
  <2>1. Awake(S)' = Awake(S)
    BY <1>3 DEF Awake, TypeOK
  <2>. QED
    BY <1>1, <1>3, <2>1, AwakeCount
<1>. QED
  BY <1>2, <1>3

LEMMA GoesAway ==
  ASSUME TypeOK, NEW S \in SUBSET Threads, IsFiniteSet(S),
         NEW t \in Threads, pc[t] = "lock", pc' = [pc EXCEPT ![t] = "out"]
  PROVE  /\ Cardinality(Awake(S)') = Cardinality(Awake(S)) - (IF t \in S THEN 1 ELSE 0)
         /\ Asleep(S)' = Asleep(S)
<1>1. Asleep(S)' = Asleep(S)
  BY DEF Asleep, TypeOK
<1>2. CASE t \in S
  <2>1. Awake(S)' = Awake(S) \ {t} /\ t \in Awake(S)
    BY <1>2 DEF Awake, TypeOK
  <2>2. Cardinality(Awake(S) \ {t}) = Cardinality(Awake(S)) - 1
    BY <1>2, <2>1, RemoveOne, AwakeCount
  <2>. QED
    BY <1>1, <1>2, <2>1, <2>2
<1>3. CASE t \notin S
  <2>1. Awake(S)' = Awake(S)
    BY <1>3 DEF Awake, TypeOK
  <2>. QED
    BY <1>1, <1>3, <2>1, AwakeCount
<1>. QED
  BY <1>2, <1>3

\* t leaves and s wakes up: one comes and one goes, in the sets they are in.
LEMMA Relieved ==
  ASSUME TypeOK, NEW S \in SUBSET Threads, IsFiniteSet(S),
         NEW t \in Threads, pc[t] = "lock", NEW s \in Threads, pc[s] = "wait",
         pc' = [pc EXCEPT ![t] = "out", ![s] = "lock"]
  PROVE  /\ Cardinality(Awake(S)') =
              Cardinality(Awake(S)) - (IF t \in S THEN 1 ELSE 0)
                                    + (IF s \in S THEN 1 ELSE 0)
         /\ Asleep(S)' \subseteq Asleep(S)
<1>1. Asleep(S)' \subseteq Asleep(S)
  BY DEF Asleep, TypeOK
<1>. DEFINE Rest == Awake(S) \ {t}
<1>2. Rest \in SUBSET S /\ s \notin Rest
  BY DEF Awake
<1>3. Awake(S)' = IF s \in S THEN Rest \cup {s} ELSE Rest
  BY DEF Awake, TypeOK
<1>4. Cardinality(Rest) = Cardinality(Awake(S)) - (IF t \in S THEN 1 ELSE 0)
  <2>1. CASE t \in S
    <3>1. t \in Awake(S)
      BY <2>1 DEF Awake
    <3>. QED
      BY <2>1, <3>1, RemoveOne, AwakeCount
  <2>2. CASE t \notin S
    <3>1. Rest = Awake(S)
      BY <2>2 DEF Awake
    <3>. QED
      BY <2>2, <3>1, AwakeCount
  <2>. QED
    BY <2>1, <2>2
<1>5. s \in S => Cardinality(Rest \cup {s}) = Cardinality(Rest) + 1
  BY <1>2, AddOne
<1>6. Cardinality(Awake(S)) \in Nat
  BY AwakeCount
<1>. QED
  BY <1>1, <1>3, <1>4, <1>5, <1>6

-----------------------------------------------------------------------------
LEMMA TypeInit == Init => TypeOK
  BY QueueAssumption DEF Init, TypeOK

LEMMA TypeStep == TypeOK /\ [Next]_vars => TypeOK'
<1>. SUFFICES ASSUME TypeOK, [Next]_vars
              PROVE  TypeOK'
  OBVIOUS
<1>. USE QueueAssumption DEF TypeOK, Threads
<1>1. ASSUME NEW t \in Threads, Call(t) \/ SpuriousWakeup(t)
      PROVE  TypeOK'
  BY <1>1 DEF Call, SpuriousWakeup
<1>2. ASSUME NEW t \in Producers, Push(t)
      PROVE  TypeOK'
  <2>1. queue' = Append(queue, t) /\ ~Full /\ LeaveAndNotify(t, Consumers)
        /\ quietly' = quietly
    BY <1>2 DEF Push
  <2>2. queue' \in Seq(Producers) /\ Len(queue') = Len(queue) + 1
    BY <2>1
  <2>3. Bounded => Len(queue') <= MaxCount
    BY <2>1, <2>2 DEF Full
  <2>4. pc' \in [Threads -> {"out", "lock", "wait"}]
    BY <2>1 DEF LeaveAndNotify, Asleep
  <2>. QED
    BY <2>1, <2>2, <2>3, <2>4
<1>3. ASSUME NEW t \in Threads, PushWaits(t) \/ PopWaits(t)
      PROVE  TypeOK'
  BY <1>3 DEF PushWaits, PopWaits, Wait
<1>4. ASSUME NEW t \in Consumers, Pop(t)
      PROVE  TypeOK'
  <2>1. queue' = Tail(queue) /\ queue # <<>> /\ quietly' = quietly
    BY <1>4 DEF Pop
  <2>2. queue' \in Seq(Producers) /\ Len(queue') = Len(queue) - 1
    BY <2>1
  <2>3. Bounded => Len(queue') <= MaxCount
    BY <2>2
  <2>4. pc' \in [Threads -> {"out", "lock", "wait"}]
    BY <1>4 DEF Pop, LeaveAndNotify, Leave, Asleep
  <2>. QED
    BY <2>1, <2>2, <2>3, <2>4
<1>5. CASE TryPop
  <2>1. queue' = Tail(queue) /\ queue # <<>> /\ quietly' = quietly + 1 /\ pc' = pc
    BY <1>5 DEF TryPop
  <2>2. queue' \in Seq(Producers) /\ Len(queue') = Len(queue) - 1
    BY <2>1
  <2>. QED
    BY <2>1, <2>2
<1>6. CASE Clear
  BY <1>6 DEF Clear
<1>7. CASE UNCHANGED vars
  BY <1>7 DEF vars
<1>. QED
  BY <1>1, <1>2, <1>3, <1>4, <1>5, <1>6, <1>7 DEF Next, Threads

\* The queue never breaks its bound, whoever pushes, and its elements and threads
\* stay what they are (blocking_queue.h:75-82).
THEOREM TypeCorrect == Spec => []TypeOK
<1>. QED
  BY TypeInit, TypeStep, PTL DEF Spec

-----------------------------------------------------------------------------
\* Nobody sleeps in the Push of an unbounded queue: without this, a Pop that does
\* not notify could not be told from one that forgets to.
UnboundedNeverWaits == ~Bounded => Asleep(Producers) = {}

Woken == PoppersWoken /\ PushersWoken /\ UnboundedNeverWaits

LEMMA WokenInit == Init => Woken
  BY DEF Init, Woken, PoppersWoken, PushersWoken, UnboundedNeverWaits, Asleep, Threads

LEMMA WokenStep == TypeOK /\ Woken /\ [Next]_vars => Woken'
<1>. SUFFICES ASSUME TypeOK, Woken, [Next]_vars
              PROVE  Woken'
  OBVIOUS
<1>a. /\ Producers \in SUBSET Threads /\ IsFiniteSet(Producers)
      /\ Consumers \in SUBSET Threads /\ IsFiniteSet(Consumers)
      /\ MaxCount \in Nat
      /\ \A t : ~(t \in Producers /\ t \in Consumers)
  BY QueueAssumption DEF Threads
<1>b. /\ Len(queue) \in Nat /\ quietly \in Nat
      /\ Cardinality(Awake(Producers)) \in Nat
      /\ Cardinality(Awake(Consumers)) \in Nat
  BY <1>a, AwakeCount DEF TypeOK
<1>c. /\ Cardinality(Awake(Producers)') \in Nat
      /\ Cardinality(Awake(Consumers)') \in Nat
  <2>1. Awake(Producers)' \in SUBSET Producers /\ Awake(Consumers)' \in SUBSET Consumers
    BY DEF Awake
  <2>. QED
    BY <2>1, <1>a, FS_Subset, FS_CardinalityType
<1>. USE DEF Woken, PoppersWoken, PushersWoken, UnboundedNeverWaits
<1>1. ASSUME NEW t \in Threads, Call(t) \/ SpuriousWakeup(t)
      PROVE  Woken'
  <2>1. /\ Cardinality(Awake(Producers)') >= Cardinality(Awake(Producers))
        /\ Asleep(Producers)' \subseteq Asleep(Producers)
    BY <1>1, <1>a, <1>b, WakesUp DEF Call, SpuriousWakeup
  <2>2. /\ Cardinality(Awake(Consumers)') >= Cardinality(Awake(Consumers))
        /\ Asleep(Consumers)' \subseteq Asleep(Consumers)
    BY <1>1, <1>a, <1>b, WakesUp DEF Call, SpuriousWakeup
  <2>3. UNCHANGED <<queue, quietly>>
    BY <1>1 DEF Call, SpuriousWakeup
  <2>. QED
    BY <2>1, <2>2, <2>3, <1>a, <1>b, <1>c
<1>2. ASSUME NEW t \in Producers, Push(t)
      PROVE  Woken'
  <2>1. Len(queue') = Len(queue) + 1 /\ quietly' = quietly /\ pc[t] = "lock"
    BY <1>2 DEF Push, TypeOK
  <2>2. CASE Asleep(Consumers) = {}
    <3>1. pc' = [pc EXCEPT ![t] = "out"]
      BY <1>2, <2>2 DEF Push, LeaveAndNotify
    <3>2. Asleep(Consumers)' = {} /\ Asleep(Producers)' = Asleep(Producers)
      BY <3>1, <2>1, <2>2, <1>a, GoesAway
    <3>3. Cardinality(Awake(Producers)') = Cardinality(Awake(Producers)) - 1
      BY <3>1, <2>1, <1>2, <1>a, GoesAway
    <3>. QED
      BY <3>2, <3>3, <2>1, <1>a, <1>b
  <2>3. CASE Asleep(Consumers) # {}
    <3>1. PICK s \in Asleep(Consumers) : pc' = [pc EXCEPT ![t] = "out", ![s] = "lock"]
      BY <1>2, <2>3 DEF Push, LeaveAndNotify
    <3>2. /\ t \in Threads /\ s \in Threads /\ pc[s] = "wait"
          /\ s \in Consumers /\ s \notin Producers /\ t \notin Consumers
      BY <1>2, <1>a, <3>1 DEF Asleep
    <3>3. Cardinality(Awake(Consumers)') = Cardinality(Awake(Consumers)) + 1
      <4>1. Cardinality(Awake(Consumers)') =
              Cardinality(Awake(Consumers)) - (IF t \in Consumers THEN 1 ELSE 0)
                                            + (IF s \in Consumers THEN 1 ELSE 0)
        BY <2>1, <3>1, <3>2, <1>a, Relieved
      <4>. QED
        BY <4>1, <3>2, <1>b
    <3>4. /\ Cardinality(Awake(Producers)') = Cardinality(Awake(Producers)) - 1
          /\ Asleep(Producers)' \subseteq Asleep(Producers)
      <4>1. /\ Cardinality(Awake(Producers)') =
                 Cardinality(Awake(Producers)) - (IF t \in Producers THEN 1 ELSE 0)
                                               + (IF s \in Producers THEN 1 ELSE 0)
            /\ Asleep(Producers)' \subseteq Asleep(Producers)
        BY <2>1, <3>1, <3>2, <1>a, Relieved
      <4>. QED
        BY <4>1, <3>2, <1>2, <1>b
    <3>. QED
      BY <3>3, <3>4, <2>1, <2>3, <1>a, <1>b
  <2>. QED
    BY <2>2, <2>3
<1>3. ASSUME NEW t \in Producers, PushWaits(t)
      PROVE  Woken'
  <2>1. /\ UNCHANGED <<queue, quietly>> /\ MaxCount <= Len(queue) /\ Bounded
        /\ pc' = [pc EXCEPT ![t] = "wait"]
    BY <1>3, <1>a, <1>b DEF PushWaits, Wait, Full
  <2>2. Awake(Consumers)' = Awake(Consumers) /\ Asleep(Consumers)' = Asleep(Consumers)
    BY <1>3, <2>1, <1>a DEF Awake, Asleep, TypeOK
  <2>. QED
    BY <2>1, <2>2, <1>a, <1>b, <1>c
<1>4. ASSUME NEW t \in Consumers, Pop(t)
      PROVE  Woken'
  <2>1. Len(queue') = Len(queue) - 1 /\ quietly' = quietly /\ pc[t] = "lock"
    BY <1>4 DEF Pop, TypeOK
  <2>2. CASE Bounded /\ Asleep(Producers) # {}
    <3>1. PICK s \in Asleep(Producers) : pc' = [pc EXCEPT ![t] = "out", ![s] = "lock"]
      BY <1>4, <2>2 DEF Pop, LeaveAndNotify
    <3>2. /\ t \in Threads /\ s \in Threads /\ pc[s] = "wait"
          /\ s \in Producers /\ s \notin Consumers /\ t \notin Producers
      BY <1>4, <1>a, <3>1 DEF Asleep
    <3>3. Cardinality(Awake(Producers)') = Cardinality(Awake(Producers)) + 1
      <4>1. Cardinality(Awake(Producers)') =
              Cardinality(Awake(Producers)) - (IF t \in Producers THEN 1 ELSE 0)
                                            + (IF s \in Producers THEN 1 ELSE 0)
        BY <2>1, <3>1, <3>2, <1>a, Relieved
      <4>. QED
        BY <4>1, <3>2, <1>b
    <3>4. /\ Cardinality(Awake(Consumers)') = Cardinality(Awake(Consumers)) - 1
          /\ Asleep(Consumers)' \subseteq Asleep(Consumers)
      <4>1. /\ Cardinality(Awake(Consumers)') =
                 Cardinality(Awake(Consumers)) - (IF t \in Consumers THEN 1 ELSE 0)
                                               + (IF s \in Consumers THEN 1 ELSE 0)
            /\ Asleep(Consumers)' \subseteq Asleep(Consumers)
        BY <2>1, <3>1, <3>2, <1>a, Relieved
      <4>. QED
        BY <4>1, <3>2, <1>4, <1>b
    <3>. QED
      BY <3>3, <3>4, <2>1, <2>2, <1>a, <1>b
  <2>3. CASE Asleep(Producers) = {}
    <3>1. pc' = [pc EXCEPT ![t] = "out"]
      BY <1>4, <2>3 DEF Pop, LeaveAndNotify, Leave
    <3>2. Asleep(Producers)' = {} /\ Asleep(Consumers)' = Asleep(Consumers)
      BY <3>1, <2>1, <2>3, <1>a, GoesAway
    <3>3. Cardinality(Awake(Consumers)') = Cardinality(Awake(Consumers)) - 1
      BY <3>1, <2>1, <1>4, <1>a, GoesAway
    <3>. QED
      BY <3>2, <3>3, <2>1, <1>a, <1>b
  <2>. QED
    BY <2>2, <2>3
<1>5. ASSUME NEW t \in Consumers, PopWaits(t)
      PROVE  Woken'
  <2>1. /\ UNCHANGED <<queue, quietly>> /\ Len(queue) = 0
        /\ pc' = [pc EXCEPT ![t] = "wait"]
    BY <1>5 DEF PopWaits, Wait
  <2>2. Awake(Producers)' = Awake(Producers) /\ Asleep(Producers)' = Asleep(Producers)
    BY <1>5, <2>1, <1>a DEF Awake, Asleep, TypeOK
  <2>. QED
    BY <2>1, <2>2, <1>a, <1>b, <1>c
<1>6. CASE TryPop
  <2>1. Len(queue') = Len(queue) - 1 /\ quietly' = quietly + 1 /\ pc' = pc
    BY <1>6 DEF TryPop, TypeOK
  <2>. QED
    BY <2>1, <1>a, <1>b DEF Awake, Asleep
<1>7. CASE Clear
  <2>1. Len(queue') = 0 /\ quietly' = quietly + Len(queue) /\ pc' = pc
    BY <1>7 DEF Clear
  <2>. QED
    BY <2>1, <1>a, <1>b DEF Awake, Asleep
<1>8. CASE UNCHANGED vars
  BY <1>8 DEF vars, Awake, Asleep
<1>. QED
  BY <1>1, <1>2, <1>3, <1>4, <1>5, <1>6, <1>7, <1>8 DEF Next, Threads

\* No notify_one is lost: while a thread sleeps in Pop, every element in the queue
\* has a thread awake that comes for it, however Push, Pop, TryPop, Clear and
\* spurious wake-ups interleave (blocking_queue.h:18-31, 75-93).
THEOREM NoLostElement == Spec => []PoppersWoken
<1>. QED
  BY TypeInit, TypeStep, WokenInit, WokenStep, PTL DEF Spec, Woken

\* And while a thread sleeps in Push, every place that Pop has freed has a thread
\* awake that comes to fill it (blocking_queue.h:75-93).
THEOREM NoLostPlace == Spec => []PushersWoken
<1>. QED
  BY TypeInit, TypeStep, WokenInit, WokenStep, PTL DEF Spec, Woken

\* Both together: producers and consumers never all sleep, until TryPop or Clear
\* has made room without a notification (blocking_queue.h:33-41, 58-61).
THEOREM NeverAllAsleep == Spec => []NotAllAsleep
<1>1. TypeOK /\ Woken => NotAllAsleep
  <2>. SUFFICES ASSUME TypeOK, Woken, Producers # {}, Consumers # {},
                       Asleep(Threads) = Threads
                PROVE  quietly > 0
    BY DEF NotAllAsleep
  <2>1. /\ Asleep(Producers) # {} /\ Awake(Producers) = {}
        /\ Asleep(Consumers) # {} /\ Awake(Consumers) = {}
    BY DEF Asleep, Awake, Threads
  <2>2. Cardinality({}) = 0
    BY FS_EmptySet
  <2>3. Len(queue) \in Nat /\ quietly \in Nat /\ MaxCount \in Nat \ {0}
    BY QueueAssumption DEF TypeOK
  <2>. QED
    BY <2>1, <2>2, <2>3 DEF Woken, PoppersWoken, PushersWoken
<1>. QED
  BY <1>1, TypeInit, TypeStep, WokenInit, WokenStep, PTL DEF Spec
=============================================================================
