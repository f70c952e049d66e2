------------------------- MODULE PushManagerProofs -------------------------
(***************************************************************************)
(* Nothing but a connect that is under way or scheduled makes tryConnect   *)
(* wait, for any number of start commands, disconnects and lost connections*)
(* and any number of threads; and one start command never makes more than  *)
(* one connection, nor more than MAX_RETRY_COUNT connects in a row.        *)
(***************************************************************************)
EXTENDS PushManager, TLAPS

\* What the argument needs of the types, and that the handler exists before it
\* is posted to.
Posting ==
  /\ pc \in [Threads -> Labels]
  /\ posted \in [Threads -> Nat]
  /\ handler \in Threads \cup {NoThread}
  /\ attempts \in Nat
  /\ \A t \in Threads : At(t, "post") => handler \in Threads

LEMMA CancelledType ==
  ASSUME posted \in [Threads -> Nat]
  PROVE  Cancelled \in [Threads -> Nat]
  BY DEF Cancelled

LEMMA CallerIsThread ==
  ASSUME attempts \in Nat, attempts < MaxAttempts
  PROVE  <<"call", attempts + 1>> \in Threads
<1>1. attempts + 1 \in Attempts
  BY ManagerAssumption DEF Attempts
<1>. QED
  BY <1>1 DEF Threads, Callers

LEMMA WorkerIsThread ==
  ASSUME NEW c \in Callers
  PROVE  c \in Threads /\ <<"work", c[2]>> \in Threads /\ <<"work", c[2]>> # c
  BY DEF Threads, Callers, Workers

LEMMA NoThreadIsNone == NoThread \notin Threads
  BY DEF NoThread, Threads, Callers, Workers

-----------------------------------------------------------------------------
LEMMA PostingInit == Init => Posting
  BY DEF Init, Posting, Labels, At

LEMMA PostingStep == Posting /\ [Next]_vars => Posting'
<1>. SUFFICES ASSUME Posting, [Next]_vars
              PROVE  Posting'
  OBVIOUS
<1>. USE DEF Posting, At, Goto, Labels
<1>1. CASE TryConnect \/ TryWait \/ TryWait2 \/ TryReset \/ DisconnectSet \/ Close
  BY <1>1 DEF TryConnect, TryWait, TryWait2, TryReset, DisconnectSet, Close, manager
<1>2. CASE TryEnd
  BY <1>2, CallerIsThread DEF TryEnd, Connect
<1>3. CASE Disconnect
  BY <1>3, CancelledType DEF Disconnect
<1>4. ASSUME NEW t \in Threads, ConnectFails(t)
      PROVE  Posting'
  BY <1>4 DEF ConnectFails, ClientUnchanged
<1>5. ASSUME NEW t \in Threads, ConnectSucceeds(t)
      PROVE  Posting'
  BY <1>5 DEF ConnectSucceeds, ClientUnchanged
<1>6. ASSUME NEW t \in Threads,
             WorkerEnters(t) \/ OnConnect(t) \/ OnConnected(t) \/ WorkerLeaves(t)
               \/ WorkerLost(t) \/ WorkerClears(t) \/ OnDisconnect(t) \/ Settle(t)
      PROVE  Posting'
  BY <1>6 DEF WorkerEnters, OnConnect, OnConnected, WorkerLeaves, WorkerLost,
              WorkerClears, OnDisconnect, Settle, ClientUnchanged
<1>7. ASSUME NEW t \in Threads, Schedule(t) \/ Count(t)
      PROVE  Posting'
  BY <1>7 DEF Schedule, Count, ScheduleUnchanged
<1>8. ASSUME NEW t \in Threads, CancelSchedule(t)
      PROVE  Posting'
  BY <1>8, CancelledType DEF CancelSchedule, ScheduleUnchanged
<1>9. ASSUME NEW t \in Threads, Prepare(t) \/ CreateHandler(t)
      PROVE  Posting'
  BY <1>9, NoThreadIsNone DEF Prepare, CreateHandler, ScheduleUnchanged
<1>10. ASSUME NEW t \in Threads, Post(t)
       PROVE  Posting'
  BY <1>10 DEF Post, ScheduleUnchanged
<1>11. ASSUME NEW t \in Threads, RunRetry(t)
       PROVE  Posting'
  BY <1>11, CallerIsThread DEF RunRetry, Connect
<1>12. CASE UNCHANGED vars
  BY <1>12 DEF vars, manager, threads
<1>. QED
  BY <1>1, <1>2, <1>3, <1>4, <1>5, <1>6, <1>7, <1>8, <1>9, <1>10, <1>11, <1>12
     DEF Next, Main, ThreadStep

-----------------------------------------------------------------------------
\* Whoever set mState to Connecting or Retrying is still at it, or has left a
\* retry on a looper, or disconnect() has just taken that away.
LEMMA WaitsInit == Init => WaitsForSomething
  BY DEF Init, WaitsForSomething

LEMMA WaitsStep == Posting /\ WaitsForSomething /\ [Next]_vars => WaitsForSomething'
<1>. SUFFICES ASSUME Posting, WaitsForSomething, [Next]_vars
              PROVE  WaitsForSomething'
  OBVIOUS
<1>. USE DEF Posting, WaitsForSomething, Pending, Deciding, At, Goto
<1>1. CASE TryConnect \/ TryWait \/ TryWait2 \/ TryReset \/ Close
  BY <1>1 DEF TryConnect, TryWait, TryWait2, TryReset, Close, manager
<1>2. CASE TryEnd
  BY <1>2, CallerIsThread DEF TryEnd, Connect
<1>3. CASE Disconnect \/ DisconnectSet
  BY <1>3 DEF Disconnect, DisconnectSet
<1>4. ASSUME NEW t \in Threads, ConnectFails(t)
      PROVE  WaitsForSomething'
  BY <1>4 DEF ConnectFails, ClientUnchanged
<1>5. ASSUME NEW t \in Threads, ConnectSucceeds(t)
      PROVE  WaitsForSomething'
  BY <1>5, WorkerIsThread DEF ConnectSucceeds, ClientUnchanged
<1>6. ASSUME NEW t \in Threads,
             OnConnected(t) \/ WorkerLeaves(t) \/ WorkerLost(t) \/ WorkerClears(t)
               \/ OnDisconnect(t)
      PROVE  WaitsForSomething'
  BY <1>6 DEF OnConnected, WorkerLeaves, WorkerLost, WorkerClears, OnDisconnect,
              ClientUnchanged
<1>7. ASSUME NEW t \in Threads, WorkerEnters(t) \/ OnConnect(t) \/ Settle(t)
      PROVE  WaitsForSomething'
  BY <1>7 DEF WorkerEnters, OnConnect, Settle, ClientUnchanged
<1>8. ASSUME NEW t \in Threads,
             Schedule(t) \/ Count(t) \/ CancelSchedule(t) \/ Prepare(t)
               \/ CreateHandler(t)
      PROVE  WaitsForSomething'
  <2>1. pc'[t] \in Deciding
    BY <1>8 DEF Schedule, Count, CancelSchedule, Prepare, CreateHandler
  <2>. QED
    BY <2>1
<1>9. ASSUME NEW t \in Threads, Post(t)
      PROVE  WaitsForSomething'
  <2>1. handler \in Threads /\ posted'[handler] > 0
    BY <1>9 DEF Post
  <2>. QED
    BY <2>1
<1>10. ASSUME NEW t \in Threads, RunRetry(t)
       PROVE  WaitsForSomething'
  BY <1>10, CallerIsThread DEF RunRetry, Connect
<1>11. CASE UNCHANGED vars
  BY <1>11 DEF vars, manager, threads
<1>. QED
  BY <1>1, <1>2, <1>3, <1>4, <1>5, <1>6, <1>7, <1>8, <1>9, <1>10, <1>11
     DEF Next, Main, ThreadStep

\* When tryConnect waits, because mState is Connecting or Retrying, a thread is
\* about to settle that state or a retry is scheduled.
THEOREM NeverWaitsForNothing == Spec => []WaitsForSomething
<1>1. Init => Posting /\ WaitsForSomething
  BY PostingInit, WaitsInit
<1>2. Posting /\ WaitsForSomething /\ [Next]_vars => (Posting /\ WaitsForSomething)'
  BY PostingStep, WaitsStep
<1>. QED
  BY <1>1, <1>2, PTL DEF Spec

-----------------------------------------------------------------------------
\* What may follow a state in which disconnect() was called and nobody is left to
\* decide on a connect.
Holds ==
  \/ Quiet' \/ state' = "Disconnected"
  \/ mpc = "connect" /\ state' = "Connecting"
  \/ mpc' = "disconnecting"

LEMMA QuietStep == Posting /\ Quiet /\ [Next]_vars => Holds
<1>. SUFFICES ASSUME Posting, Quiet, [Next]_vars
              PROVE  Holds
  OBVIOUS
<1>. USE DEF Posting, Quiet, Pending, Holds, At, Goto
<1>1. \A t \in Threads : pc[t] \notin Deciding /\ posted[t] = 0
  OBVIOUS
<1>2. CASE TryConnect \/ TryWait \/ TryWait2 \/ TryReset \/ Close
  BY <1>2 DEF TryConnect, TryWait, TryWait2, TryReset, Close, manager
<1>3. CASE TryEnd \/ Disconnect \/ DisconnectSet
  BY <1>3 DEF TryEnd, Connect, Disconnect, DisconnectSet
<1>4. ASSUME NEW t \in Threads,
             OnConnected(t) \/ WorkerLeaves(t) \/ WorkerLost(t) \/ WorkerClears(t)
               \/ OnDisconnect(t)
      PROVE  Holds
  <2>1. UNCHANGED <<state, posted, mpc>>
    BY <1>4 DEF OnConnected, WorkerLeaves, WorkerLost, WorkerClears, OnDisconnect,
                ClientUnchanged
  <2>2. PICK label \in {"up", "clear", "onDisconnect", "settle"} :
          pc' = [pc EXCEPT ![t] = label]
    BY <1>4 DEF OnConnected, WorkerLeaves, WorkerLost, WorkerClears, OnDisconnect
  <2>3. \A u \in Threads : pc'[u] \notin Deciding
    BY <1>1, <2>2 DEF Deciding
  <2>. QED
    BY <2>1, <2>3
<1>5. ASSUME NEW t \in Threads, Settle(t)
      PROVE  Holds
  BY <1>5 DEF Settle
<1>6. ASSUME NEW t \in Threads,
             \/ ConnectFails(t) \/ ConnectSucceeds(t) \/ WorkerEnters(t) \/ OnConnect(t)
             \/ Schedule(t) \/ Count(t) \/ CancelSchedule(t) \/ Prepare(t)
             \/ CreateHandler(t) \/ Post(t) \/ RunRetry(t)
      PROVE  FALSE
  <2>1. pc[t] \in Deciding \/ posted[t] > 0
    BY <1>6 DEF ConnectFails, ConnectSucceeds, WorkerEnters, OnConnect, Schedule, Count,
                CancelSchedule, Prepare, CreateHandler, Post, RunRetry, Deciding
  <2>. QED
    BY <1>1, <2>1
<1>7. CASE UNCHANGED vars
  BY <1>7 DEF vars, manager, threads
<1>. QED
  BY <1>2, <1>3, <1>4, <1>5, <1>6, <1>7 DEF Next, Main, ThreadStep

\* disconnect() with no connect under way holds until tryConnect is called again:
\* the disconnect callback finds mState Disconnecting and schedules nothing.
THEOREM DisconnectIsHeld == Spec => DisconnectHolds
<1>1. Init => Posting
  BY PostingInit
<1>2. Posting /\ [Next]_vars => Posting'
  BY PostingStep
<1>3. Posting /\ [Next]_vars
        => [Quiet => \/ Quiet' \/ state' = "Disconnected"
                     \/ mpc = "connect" /\ state' = "Connecting"
                     \/ mpc' = "disconnecting"]_vars
  BY QuietStep DEF Holds
<1>. QED
  BY <1>1, <1>2, <1>3, PTL DEF Spec, DisconnectHolds

-----------------------------------------------------------------------------
(* Types *)

\* TypeOK as far as Posting does not have it, and what bounds the streak.
Counted ==
  /\ state \in States
  /\ retry \in Nat /\ seen \in [Threads -> Nat]
  /\ mpc \in {"idle", "wait", "wait2", "reset", "connect", "disconnecting", "close"}
  /\ attempts \in 0..MaxAttempts /\ streak \in Nat /\ streak <= attempts
  /\ starts \in 0..MaxStarts /\ disconnects \in 0..MaxDisconnects
  /\ losses \in 0..MaxLosses

LEMMA ConnectedStep == connected \in BOOLEAN /\ [Next]_vars => connected' \in BOOLEAN
  BY ZenonT(60) DEF Next, Main, ThreadStep, vars, manager, TryConnect, Disconnect, TryWait,
     TryWait2, TryReset, TryEnd, DisconnectSet, Close, ConnectFails, ConnectSucceeds, WorkerEnters,
     OnConnect, OnConnected, WorkerLeaves, WorkerLost, WorkerClears, OnDisconnect, Settle,
     Schedule, Count, CancelSchedule, Prepare, CreateHandler, Post, RunRetry,
     ScheduleUnchanged

LEMMA CountedStep == Counted /\ [Next]_vars => Counted'
<1>. SUFFICES ASSUME Counted, [Next]_vars
              PROVE  Counted'
  OBVIOUS
<1>. USE ManagerAssumption DEF Counted, States
<1>1. CASE TryConnect \/ Disconnect
  BY <1>1 DEF TryConnect, Disconnect, manager
<1>2. CASE Main
  BY <1>2 DEF Main, TryWait, TryWait2, TryReset, TryEnd, Connect, DisconnectSet, Close,
              manager, bounds
<1>3. ASSUME NEW t \in Threads, ThreadStep(t) \/ WorkerLost(t)
      PROVE  Counted'
  <2>. USE DEF ClientUnchanged, ScheduleUnchanged, bounds
  <2>1. CASE ConnectFails(t) \/ ConnectSucceeds(t) \/ WorkerLeaves(t) \/ OnDisconnect(t)
    BY <2>1 DEF ConnectFails, ConnectSucceeds, WorkerLeaves, OnDisconnect
  <2>2. CASE WorkerEnters(t) \/ OnConnect(t) \/ WorkerClears(t) \/ Settle(t)
    BY <2>2 DEF WorkerEnters, OnConnect, WorkerClears, Settle
  <2>3. CASE OnConnected(t)
    BY <2>3 DEF OnConnected
  <2>4. CASE WorkerLost(t)
    BY <2>4 DEF WorkerLost
  <2>5. CASE Schedule(t) \/ Count(t)
    BY <2>5 DEF Schedule, Count
  <2>6. CASE CancelSchedule(t) \/ Prepare(t) \/ CreateHandler(t) \/ Post(t)
    BY <2>6 DEF CancelSchedule, Prepare, CreateHandler, Post
  <2>7. CASE RunRetry(t)
    BY <2>7 DEF RunRetry, Connect
  <2>. QED
    BY <1>3, <2>1, <2>2, <2>3, <2>4, <2>5, <2>6, <2>7 DEF ThreadStep
<1>5. CASE UNCHANGED vars
  BY <1>5 DEF vars, manager, threads, bounds
<1>. QED
  BY <1>1, <1>2, <1>3, <1>5 DEF Next

\* Every field keeps its type, whatever is read and written in between: mState is
\* never anything but a State, and mRetryCount never negative.
THEOREM TypeCorrect == Spec => []TypeOK
<1>. DEFINE Typed == Posting /\ Counted /\ connected \in BOOLEAN
<1>1. Init => Typed
  <2>1. Init => Counted
    BY ManagerAssumption DEF Init, Counted, States
  <2>2. Init => connected \in BOOLEAN
    BY Zenon DEF Init
  <2>. QED
    BY <2>1, <2>2, PostingInit
<1>2. Typed /\ [Next]_vars => Typed'
  BY PostingStep, CountedStep, ConnectedStep
<1>3. Typed => TypeOK
  <2>1. Posting /\ Counted => attempts \in 0..MaxAttempts /\ streak \in 0..MaxAttempts
    BY ManagerAssumption DEF Counted
  <2>. QED
    BY <2>1 DEF Posting, Counted, TypeOK
<1>. QED
  BY <1>1, <1>2, <1>3, PTL DEF Spec

-----------------------------------------------------------------------------
(* One chain *)

\* A thread that has something to do other than to wait on its looper.
Active(t) == pc[t] \notin {"none", "loop", "done"} \/ posted[t] > 0

\* Inside tryConnect, past its first test.
Starting == mpc \in {"wait", "wait2", "reset", "connect"}

\* Threads are used in the order of the attempts; the handler is that of a thread
\* which is on its looper, or about to be.
Numbered ==
  /\ \A n \in Attempts : n > attempts => pc[<<"call", n>>] = "none"
  /\ \A n \in Attempts : pc[<<"work", n>>] # "none" => pc[<<"call", n>>] = "done"
  /\ \A t \in Threads : handler = t => pc[t] \in {"post", "loop"}

\* With one start command one thread at a time is active.
Chain ==
  /\ Starting \/ starts = 0 => streak = 0 /\ retry = 0 /\ \A t \in Threads : ~Active(t)
  /\ Starting => starts = 1
  /\ \A s, t \in Threads : Active(s) /\ Active(t) => s = t
  /\ \A t \in Threads : posted[t] > 0 => posted[t] = 1 /\ pc[t] = "loop"

\* How far the calls of connect() are ahead of the count, where.
Ahead  == streak <= retry + 1 /\ retry < MAX_RETRY_COUNT
Behind == streak <= retry /\ retry < MAX_RETRY_COUNT

Uncounted == {"calling", "enter", "onConnect", "resetRetry", "up", "clear", "onDisconnect",
              "schedule", "count"}
Posts     == {"cancel", "prepare", "create", "post"}

Counting ==
  /\ streak <= MAX_RETRY_COUNT
  /\ \A t \in Threads :
       /\ pc[t] \in Uncounted => Ahead
       /\ At(t, "count") => seen[t] = retry
       /\ pc[t] \in Posts \/ posted[t] > 0 => Behind

Single == OneChain => Chain /\ Counting

LEMMA Names ==
  /\ \A n \in Attempts : <<"call", n>> \in Threads /\ <<"work", n>> \in Threads
  /\ \A m, n \in Attempts : /\ <<"call", m>> # <<"work", n>>
                            /\ <<"call", m>> = <<"call", n>> => m = n
                            /\ <<"work", m>> = <<"work", n>> => m = n
  /\ \A c \in Callers : c[2] \in Attempts /\ c = <<"call", c[2]>>
  BY DEF Callers, Workers, Threads

LEMMA NumberedMove ==
  ASSUME Posting, Numbered, NEW t \in Threads, NEW l,
         pc[t] \notin {"none", "loop", "done"}, pc' = [pc EXCEPT ![t] = l],
         l # "none", pc[t] = "post" => l = "loop", UNCHANGED <<handler, attempts>>
  PROVE  Numbered'
<1>1. \A u \in Threads : u # t => pc'[u] = pc[u]
  BY DEF Posting
<1>2. pc'[t] = l
  BY DEF Posting
<1>3. ASSUME NEW n \in Attempts, n > attempts
      PROVE  pc'[<<"call", n>>] = "none"
  BY <1>1, <1>3, Names DEF Numbered
<1>4. ASSUME NEW n \in Attempts, pc'[<<"work", n>>] # "none"
      PROVE  pc'[<<"call", n>>] = "done"
  <2>1. pc[<<"work", n>>] # "none"
    BY <1>1, <1>4, Names
  <2>2. pc[<<"call", n>>] = "done"
    BY <2>1 DEF Numbered
  <2>. QED
    BY <1>1, <2>2, Names
<1>5. ASSUME NEW u \in Threads, handler = u
      PROVE  pc'[u] \in {"post", "loop"}
  BY <1>1, <1>2, <1>5 DEF Numbered
<1>. QED
  BY <1>3, <1>4, <1>5 DEF Numbered

LEMMA NumberedConnect ==
  ASSUME Posting, Numbered, Connect, UNCHANGED handler
  PROVE  Numbered'
<1>. DEFINE c == <<"call", attempts + 1>>
<1>1. c \in Threads /\ attempts + 1 \in Attempts
  BY CallerIsThread, ManagerAssumption DEF Connect, Posting, Attempts
<1>2. pc[c] = "none" /\ pc'[c] = "calling" /\ \A u \in Threads : u # c => pc'[u] = pc[u]
  BY <1>1 DEF Connect, Goto, Posting, Numbered
<1>3. ASSUME NEW n \in Attempts, n > attempts'
      PROVE  pc'[<<"call", n>>] = "none"
  <2>1. n > attempts /\ n # attempts + 1
    BY <1>1, <1>3 DEF Connect, Posting, Attempts
  <2>. QED
    BY <1>1, <1>2, <2>1, Names DEF Numbered
<1>4. ASSUME NEW n \in Attempts, pc'[<<"work", n>>] # "none"
      PROVE  pc'[<<"call", n>>] = "done"
  <2>1. pc[<<"call", n>>] = "done"
    BY <1>1, <1>2, <1>4, Names DEF Numbered
  <2>. QED
    BY <1>2, <2>1, Names
<1>5. ASSUME NEW u \in Threads, handler = u
      PROVE  pc'[u] \in {"post", "loop"}
  BY <1>2, <1>5 DEF Numbered
<1>. QED
  BY <1>3, <1>4, <1>5 DEF Numbered, Connect

LEMMA NumberedStarts ==
  ASSUME Posting, Numbered, NEW c \in Threads, ConnectSucceeds(c)
  PROVE  Numbered'
<1>. DEFINE w == <<"work", c[2]>>
<1>1. c[2] \in Attempts /\ c = <<"call", c[2]>> /\ w \in Threads /\ w # c
  BY Names DEF ConnectSucceeds
<1>2. pc[c] = "calling" /\ pc[w] = "none"
  BY <1>1 DEF ConnectSucceeds, At, Numbered
<1>3. pc'[c] = "done" /\ pc'[w] = "enter" /\ \A u \in Threads : u \notin {c, w} => pc'[u] = pc[u]
  BY <1>1 DEF ConnectSucceeds, Posting
<1>4. ASSUME NEW n \in Attempts, n > attempts
      PROVE  pc'[<<"call", n>>] = "none"
  BY <1>1, <1>2, <1>3, <1>4, Names DEF Numbered
<1>5. ASSUME NEW n \in Attempts, pc'[<<"work", n>>] # "none"
      PROVE  pc'[<<"call", n>>] = "done"
  <2>1. CASE n = c[2]
    BY <1>1, <1>3, <2>1
  <2>2. CASE n # c[2]
    BY <1>1, <1>3, <1>5, <2>2, Names DEF Numbered
  <2>. QED
    BY <2>1, <2>2
<1>6. ASSUME NEW u \in Threads, handler = u
      PROVE  pc'[u] \in {"post", "loop"}
  BY <1>1, <1>2, <1>3, <1>6 DEF Numbered
<1>. QED
  BY <1>4, <1>5, <1>6 DEF Numbered, ConnectSucceeds, ClientUnchanged

LEMMA NumberedStep == Posting /\ Numbered /\ [Next]_vars => Numbered'
<1>. SUFFICES ASSUME Posting, Numbered, [Next]_vars
              PROVE  Numbered'
  OBVIOUS
<1>1. CASE UNCHANGED <<pc, handler, attempts>>
  BY <1>1 DEF Numbered
<1>2. CASE TryEnd
  BY <1>2, NumberedConnect DEF TryEnd
<1>3. ASSUME NEW t \in Threads, ThreadStep(t) \/ WorkerLost(t)
      PROVE  Numbered'
  <2>1. CASE ConnectSucceeds(t)
    BY <2>1, NumberedStarts
  <2>2. CASE RunRetry(t)
    BY <2>2, NumberedConnect DEF RunRetry
  <2>3. CASE CreateHandler(t)
    <3>1. handler' = t /\ pc'[t] = "post" /\ \A u \in Threads : u # t => pc'[u] = pc[u]
      BY <2>3 DEF CreateHandler, Goto, Posting
    <3>2. pc[t] = "create" /\ attempts' = attempts
      BY <2>3 DEF CreateHandler, At, ScheduleUnchanged
    <3>. QED
      BY <3>1, <3>2, Names DEF Numbered
  <2>4. CASE \/ ConnectFails(t) \/ WorkerEnters(t) \/ OnConnect(t) \/ OnConnected(t)
             \/ WorkerLeaves(t) \/ WorkerClears(t) \/ WorkerLost(t) \/ OnDisconnect(t)
             \/ Settle(t)
    <3>1. PICK l : /\ pc' = [pc EXCEPT ![t] = l] /\ l # "none"
                   /\ pc[t] \notin {"none", "loop", "done", "post"}
                   /\ UNCHANGED <<handler, attempts>>
      BY <2>4 DEF ConnectFails, WorkerEnters, OnConnect, OnConnected, WorkerLeaves,
                  WorkerClears, WorkerLost, OnDisconnect, Settle, At, Goto, ClientUnchanged
    <3>. QED
      BY <3>1, NumberedMove
  <2>5. CASE Schedule(t) \/ Count(t) \/ CancelSchedule(t) \/ Prepare(t) \/ Post(t)
    <3>1. PICK l : /\ pc' = [pc EXCEPT ![t] = l] /\ l # "none"
                   /\ pc[t] \notin {"none", "loop", "done"}
                   /\ pc[t] = "post" => l = "loop"
                   /\ UNCHANGED <<handler, attempts>>
      BY <2>5 DEF Schedule, Count, CancelSchedule, Prepare, Post, At, Goto, ScheduleUnchanged
    <3>. QED
      BY <3>1, NumberedMove
  <2>. QED
    BY <1>3, <2>1, <2>2, <2>3, <2>4, <2>5 DEF ThreadStep
<1>4. CASE \/ TryConnect \/ Disconnect \/ TryWait \/ TryWait2 \/ TryReset \/ DisconnectSet
           \/ Close \/ UNCHANGED vars
  <2>1. UNCHANGED <<pc, handler, attempts>>
    BY <1>4 DEF TryConnect, Disconnect, TryWait, TryWait2, TryReset, DisconnectSet, Close,
                vars, manager, threads
  <2>. QED
    BY <1>1, <2>1
<1>. QED
  BY <1>2, <1>3, <1>4 DEF Next, Main

-----------------------------------------------------------------------------
\* The active thread is the only one before, and again some thread is after.
LEMMA ChainHandsOn ==
  ASSUME Chain, NEW t \in Threads, Active(t), NEW u \in Threads,
         UNCHANGED <<mpc, starts>>,
         \A v \in Threads : Active(v)' => v = u,
         \A v \in Threads : posted'[v] > 0 => posted'[v] = 1 /\ pc'[v] = "loop"
  PROVE  Chain'
<1>1. ~Starting /\ starts # 0
  BY DEF Chain
<1>. QED
  BY <1>1 DEF Chain, Starting

LEMMA ChainMove ==
  ASSUME Posting, Chain, NEW t \in Threads, NEW l,
         pc[t] \notin {"none", "loop", "done"}, pc' = [pc EXCEPT ![t] = l],
         UNCHANGED <<posted, mpc, starts>>
  PROVE  Chain'
<1>1. Active(t) /\ \A v \in Threads : Active(v) => v = t
  BY DEF Chain, Active
<1>2. \A v \in Threads : posted[v] \in Nat /\ ~(posted[v] > 0)
  BY <1>1 DEF Chain, Active, Posting
<1>3. \A v \in Threads : v # t => pc'[v] = pc[v]
  BY DEF Posting
<1>4. \A v \in Threads : Active(v)' => v = t
  BY <1>1, <1>2, <1>3 DEF Active
<1>. QED
  BY <1>1, <1>2, <1>4, ChainHandsOn

LEMMA ChainStarts ==
  ASSUME Posting, Numbered, Chain, NEW c \in Threads, ConnectSucceeds(c)
  PROVE  Chain'
<1>. DEFINE w == <<"work", c[2]>>
<1>1. c = <<"call", c[2]>> /\ w \in Threads /\ w # c
  BY Names DEF ConnectSucceeds
<1>2. Active(c) /\ pc[c] = "calling" /\ \A v \in Threads : Active(v) => v = c
  BY DEF Chain, Active, ConnectSucceeds, At
<1>3. \A v \in Threads : posted[v] \in Nat /\ ~(posted[v] > 0)
  BY <1>2 DEF Chain, Active, Posting
<1>4. pc'[c] = "done" /\ \A v \in Threads : v \notin {c, w} => pc'[v] = pc[v]
  BY <1>1 DEF ConnectSucceeds, Posting
<1>5. UNCHANGED <<posted, mpc, starts>>
  BY DEF ConnectSucceeds, ClientUnchanged
<1>6. \A v \in Threads : Active(v)' => v = w
  BY <1>2, <1>3, <1>4, <1>5 DEF Active
<1>. QED
  BY <1>1, <1>2, <1>3, <1>5, <1>6, ChainHandsOn

LEMMA ChainCancel ==
  ASSUME Posting, Chain, NEW t \in Threads, CancelSchedule(t)
  PROVE  Chain'
<1>1. Active(t) /\ \A v \in Threads : Active(v) => v = t
  BY DEF Chain, Active, CancelSchedule, At
<1>2. \A v \in Threads : posted[v] \in Nat /\ ~(posted[v] > 0)
  BY <1>1 DEF Chain, Active, Posting, CancelSchedule, At
<1>3. \A v \in Threads : ~(posted'[v] > 0)
  BY <1>2 DEF CancelSchedule, Cancelled, Posting
<1>4. \A v \in Threads : v # t => pc'[v] = pc[v]
  BY DEF Posting, CancelSchedule, Goto
<1>5. \A v \in Threads : Active(v)' => v = t
  BY <1>1, <1>3, <1>4 DEF Active
<1>. QED
  BY <1>1, <1>3, <1>5, ChainHandsOn DEF CancelSchedule, ScheduleUnchanged, bounds

LEMMA ChainPost ==
  ASSUME Posting, Numbered, Chain, NEW t \in Threads, Post(t)
  PROVE  Chain'
<1>1. Active(t) /\ pc[t] = "post" /\ \A v \in Threads : Active(v) => v = t
  BY DEF Chain, Active, Post, At
<1>2. \A v \in Threads : posted[v] = 0
  BY <1>1 DEF Chain, Active, Posting
<1>3. handler \in Threads /\ pc[handler] \in {"post", "loop"}
  BY <1>1 DEF Posting, Numbered, At
<1>4. pc'[t] = "loop" /\ \A v \in Threads : v # t => pc'[v] = pc[v]
  BY DEF Posting, Post, Goto
<1>5. posted'[handler] = 1 /\ \A v \in Threads : v # handler => posted'[v] = 0
  BY <1>2, <1>3 DEF Posting, Post
<1>6. pc'[handler] = "loop"
  BY <1>1, <1>3, <1>4 DEF Active
<1>7. \A v \in Threads : Active(v)' => v = handler
  BY <1>1, <1>4, <1>5 DEF Active
<1>. QED
  BY <1>1, <1>3, <1>5, <1>6, <1>7, ChainHandsOn DEF Post, ScheduleUnchanged, bounds

LEMMA ChainRetry ==
  ASSUME Posting, Numbered, Chain, NEW t \in Threads, RunRetry(t)
  PROVE  Chain'
<1>. DEFINE c == <<"call", attempts + 1>>
<1>1. Active(t) /\ pc[t] = "loop" /\ posted[t] = 1 /\ \A v \in Threads : Active(v) => v = t
  BY DEF Chain, Active, RunRetry, At
<1>2. c \in Threads
  BY CallerIsThread DEF RunRetry, Connect, Posting
<1>3. \A v \in Threads : posted'[v] = 0
  BY <1>1 DEF Active, RunRetry, Posting
<1>4. \A v \in Threads : v # c => pc'[v] = pc[v]
  BY DEF RunRetry, Connect, Goto, Posting
<1>5. \A v \in Threads : Active(v)' => v = c
  BY <1>1, <1>3, <1>4 DEF Active
<1>. QED
  BY <1>1, <1>2, <1>3, <1>5, ChainHandsOn DEF RunRetry, bounds

LEMMA ChainBegins ==
  ASSUME Posting, Chain, TryEnd
  PROVE  Chain'
<1>. DEFINE c == <<"call", attempts + 1>>
<1>1. mpc = "connect" /\ mpc' = "idle" /\ starts' = 1 /\ \A v \in Threads : ~Active(v)
  BY DEF TryEnd, Chain, Starting, bounds
<1>2. \A v \in Threads : v # c => pc'[v] = pc[v]
  BY DEF TryEnd, Connect, Goto, Posting
<1>3. \A v \in Threads : ~(posted'[v] > 0)
  BY <1>1 DEF TryEnd, Active
<1>4. \A v \in Threads : Active(v)' => v = c
  BY <1>1, <1>2, <1>3 DEF Active
<1>. QED
  BY <1>1, <1>3, <1>4 DEF Chain, Starting

LEMMA ChainMain ==
  ASSUME Posting, Counted, Chain, OneChain',
         \/ TryConnect \/ TryWait \/ TryWait2 \/ TryReset \/ Disconnect \/ DisconnectSet
         \/ Close \/ UNCHANGED vars
  PROVE  Chain'
<1>1. CASE TryConnect
  <2>1. starts = 0 /\ starts' = 1 /\ UNCHANGED <<pc, posted, streak, retry>>
    BY <1>1 DEF TryConnect, OneChain, Counted, manager
  <2>. QED
    BY <2>1 DEF Chain, Active
<1>2. CASE TryWait \/ TryWait2 \/ TryReset \/ DisconnectSet \/ Close \/ UNCHANGED vars
  <2>1. UNCHANGED <<pc, posted, starts>>
    BY <1>2 DEF TryWait, TryWait2, TryReset, DisconnectSet, Close, vars, manager, threads, bounds
  <2>2. Starting' => Starting
    BY <1>2 DEF TryWait, TryWait2, TryReset, DisconnectSet, Close, vars, threads, Starting
  <2>3. (streak' = streak /\ retry' = retry) \/ (streak' = 0 /\ retry' = 0)
    BY <1>2 DEF TryWait, TryWait2, TryReset, DisconnectSet, Close, vars, manager
  <2>. QED
    BY <2>1, <2>2, <2>3 DEF Chain, Active
<1>3. CASE Disconnect
  <2>1. ~Starting' /\ UNCHANGED <<pc, starts, streak, retry>>
    BY <1>3 DEF Disconnect, Starting
  <2>2. \A v \in Threads : posted'[v] = posted[v] \/ posted'[v] = 0
    BY <1>3 DEF Disconnect, Cancelled, Posting
  <2>. QED
    BY <2>1, <2>2 DEF Chain, Active
<1>. QED
  BY <1>1, <1>2, <1>3

LEMMA ChainStep ==
  ASSUME Posting, Counted, Numbered, Chain, OneChain', [Next]_vars
  PROVE  Chain'
<1>1. ASSUME NEW t \in Threads, ThreadStep(t) \/ WorkerLost(t)
      PROVE  Chain'
  <2>1. CASE \/ ConnectFails(t) \/ WorkerEnters(t) \/ OnConnect(t) \/ OnConnected(t)
             \/ WorkerLeaves(t) \/ WorkerClears(t) \/ WorkerLost(t) \/ OnDisconnect(t)
             \/ Settle(t)
    <3>1. PICK l : /\ pc' = [pc EXCEPT ![t] = l]
                   /\ pc[t] \notin {"none", "loop", "done"}
                   /\ UNCHANGED <<posted, mpc, starts>>
      BY <2>1 DEF ConnectFails, WorkerEnters, OnConnect, OnConnected, WorkerLeaves,
                  WorkerClears, WorkerLost, OnDisconnect, Settle, At, Goto, ClientUnchanged
    <3>. QED
      BY <3>1, ChainMove
  <2>2. CASE Schedule(t) \/ Count(t) \/ Prepare(t) \/ CreateHandler(t)
    <3>1. PICK l : /\ pc' = [pc EXCEPT ![t] = l]
                   /\ pc[t] \notin {"none", "loop", "done"}
                   /\ UNCHANGED <<posted, mpc, starts>>
      BY <2>2 DEF Schedule, Count, Prepare, CreateHandler, At, Goto, ScheduleUnchanged, bounds
    <3>. QED
      BY <3>1, ChainMove
  <2>. QED
    BY <1>1, <2>1, <2>2, ChainStarts, ChainCancel, ChainPost, ChainRetry DEF ThreadStep
<1>. QED
  BY <1>1, ChainBegins, ChainMain DEF Next, Main

-----------------------------------------------------------------------------
\* Only the active thread has to be looked at.
LEMMA CountingHandsOn ==
  ASSUME streak' <= MAX_RETRY_COUNT, NEW u \in Threads,
         \A v \in Threads : Active(v)' => v = u,
         pc'[u] \in Uncounted => Ahead',
         pc'[u] = "count" => seen'[u] = retry',
         pc'[u] \in Posts \/ posted'[u] > 0 => Behind'
  PROVE  Counting'
<1>1. ASSUME NEW v \in Threads, ~Active(v)'
      PROVE  pc'[v] \notin Uncounted \cup Posts /\ pc'[v] # "count" /\ ~(posted'[v] > 0)
  BY <1>1 DEF Active, Uncounted, Posts
<1>. QED
  BY <1>1, Zenon DEF Counting, At

LEMMA CountingMove ==
  ASSUME Posting, Chain, NEW t \in Threads, NEW l,
         pc[t] \notin {"none", "loop", "done"}, pc' = [pc EXCEPT ![t] = l],
         \A v \in Threads : posted'[v] > 0 => posted[v] > 0,
         streak' <= MAX_RETRY_COUNT,
         l \in Uncounted => Ahead',
         l = "count" => seen'[t] = retry',
         l \in Posts => Behind'
  PROVE  Counting'
<1>1. Active(t) /\ \A v \in Threads : Active(v) => v = t
  BY DEF Chain, Active
<1>2. \A v \in Threads : ~(posted'[v] > 0)
  BY <1>1 DEF Chain, Active, Posting
<1>3. pc'[t] = l /\ \A v \in Threads : v # t => pc'[v] = pc[v]
  BY DEF Posting
<1>4. \A v \in Threads : Active(v)' => v = t
  BY <1>1, <1>2, <1>3 DEF Active
<1>. QED
  BY <1>2, <1>3, <1>4, CountingHandsOn

\* The connection is made or not, or it ends: only OnConnected changes the counts.
LEMMA CountingClient ==
  ASSUME Posting, Counted, Chain, Counting, NEW t \in Threads,
         \/ ConnectFails(t) \/ WorkerEnters(t) \/ OnConnect(t) \/ OnConnected(t)
         \/ WorkerLeaves(t) \/ WorkerClears(t) \/ WorkerLost(t) \/ OnDisconnect(t)
         \/ Settle(t)
  PROVE  Counting'
<1>1. PICK l : /\ pc' = [pc EXCEPT ![t] = l] /\ l # "count" /\ l \notin Posts
               /\ pc[t] \notin {"none", "loop", "done"} /\ posted' = posted
               /\ l \in Uncounted => pc[t] \in Uncounted
  BY DEF ConnectFails, WorkerEnters, OnConnect, OnConnected, WorkerLeaves, WorkerClears,
         WorkerLost, OnDisconnect, Settle, At, Goto, ClientUnchanged, Uncounted, Posts
<1>2. UNCHANGED <<streak, retry>> \/ (streak' = 0 /\ retry' = 0)
  BY DEF ConnectFails, WorkerEnters, OnConnect, OnConnected, WorkerLeaves, WorkerClears,
         WorkerLost, OnDisconnect, Settle
<1>3. streak' <= MAX_RETRY_COUNT /\ (l \in Uncounted => Ahead')
  BY <1>1, <1>2, ManagerAssumption DEF Counting, Ahead
<1>. QED
  BY <1>1, <1>3, CountingMove

LEMMA CountingStarts ==
  ASSUME Posting, Numbered, Chain, Counting, NEW c \in Threads, ConnectSucceeds(c)
  PROVE  Counting'
<1>. DEFINE w == <<"work", c[2]>>
<1>1. c = <<"call", c[2]>> /\ w \in Threads /\ w # c
  BY Names DEF ConnectSucceeds
<1>2. Active(c) /\ pc[c] = "calling" /\ \A v \in Threads : Active(v) => v = c
  BY DEF Chain, Active, ConnectSucceeds, At
<1>3. \A v \in Threads : posted[v] \in Nat /\ ~(posted[v] > 0)
  BY <1>2 DEF Chain, Active, Posting
<1>4. pc'[c] = "done" /\ pc'[w] = "enter" /\ \A v \in Threads : v \notin {c, w} => pc'[v] = pc[v]
  BY <1>1 DEF ConnectSucceeds, Posting
<1>5. UNCHANGED <<posted, streak, retry>>
  BY DEF ConnectSucceeds, ClientUnchanged
<1>6. \A v \in Threads : Active(v)' => v = w
  BY <1>2, <1>3, <1>4, <1>5 DEF Active
<1>7. streak' <= MAX_RETRY_COUNT /\ Ahead'
  BY <1>2, <1>5 DEF Counting, Uncounted, Ahead
<1>. QED
  BY <1>1, <1>3, <1>4, <1>5, <1>6, <1>7, CountingHandsOn DEF Posts

LEMMA CountingSchedule ==
  ASSUME Posting, Counted, Chain, Counting, NEW t \in Threads, Schedule(t)
  PROVE  Counting'
<1>1. pc[t] = "schedule" /\ UNCHANGED <<posted, streak, retry>>
  BY DEF Schedule, At, ScheduleUnchanged
<1>2. pc' = [pc EXCEPT ![t] = "count"] /\ seen'[t] = retry'
  BY <1>1 DEF Schedule, Goto, Counted
<1>3. streak' <= MAX_RETRY_COUNT /\ Ahead'
  BY <1>1 DEF Counting, Uncounted, Ahead
<1>. QED
  BY <1>1, <1>2, <1>3, CountingMove DEF Posts

\* ++mRetryCount catches up with the calls of connect().
LEMMA CountingCount ==
  ASSUME Posting, Counted, Chain, Counting, NEW t \in Threads, Count(t)
  PROVE  Counting'
<1>1. pc[t] = "count" /\ UNCHANGED <<posted, streak>>
  BY DEF Count, At, ScheduleUnchanged
<1>2. Ahead /\ retry' = retry + 1 /\ streak' <= MAX_RETRY_COUNT
  BY <1>1 DEF Count, Counting, Uncounted, At
<1>3. CASE retry + 1 < MAX_RETRY_COUNT
  <2>1. pc' = [pc EXCEPT ![t] = "cancel"]
    BY <1>1, <1>2, <1>3 DEF Count, Counting, At, Goto
  <2>2. Behind'
    BY <1>1, <1>2, <1>3 DEF Ahead, Behind
  <2>. QED
    BY <1>1, <1>2, <2>1, <2>2, CountingMove DEF Uncounted
<1>4. CASE ~(retry + 1 < MAX_RETRY_COUNT)
  <2>1. pc' = [pc EXCEPT ![t] = "giveUp"]
    BY <1>1, <1>2, <1>4 DEF Count, Counting, At, Goto
  <2>. QED
    BY <1>1, <1>2, <2>1, CountingMove DEF Uncounted, Posts
<1>. QED
  BY <1>3, <1>4

LEMMA CountingPrepare ==
  ASSUME Posting, Counted, Chain, Counting, NEW t \in Threads,
         CancelSchedule(t) \/ Prepare(t) \/ CreateHandler(t)
  PROVE  Counting'
<1>1. PICK l \in Posts : pc' = [pc EXCEPT ![t] = l]
  BY DEF CancelSchedule, Prepare, CreateHandler, Goto, Posts
<1>2. pc[t] \in Posts /\ UNCHANGED <<streak, retry>>
  BY DEF CancelSchedule, Prepare, CreateHandler, At, ScheduleUnchanged, Posts
<1>3. \A v \in Threads : posted'[v] > 0 => posted[v] > 0
  BY DEF CancelSchedule, Cancelled, Prepare, CreateHandler, Posting
<1>4. streak' <= MAX_RETRY_COUNT /\ Behind'
  BY <1>2 DEF Counting, Behind
<1>. QED
  BY <1>1, <1>2, <1>3, <1>4, CountingMove DEF Posts, Uncounted

LEMMA CountingPost ==
  ASSUME Posting, Numbered, Chain, Counting, NEW t \in Threads, Post(t)
  PROVE  Counting'
<1>1. Active(t) /\ pc[t] = "post" /\ \A v \in Threads : Active(v) => v = t
  BY DEF Chain, Active, Post, At
<1>2. \A v \in Threads : posted[v] = 0
  BY <1>1 DEF Chain, Active, Posting
<1>3. handler \in Threads /\ pc[handler] \in {"post", "loop"}
  BY <1>1 DEF Posting, Numbered, At
<1>4. pc'[t] = "loop" /\ \A v \in Threads : v # t => pc'[v] = pc[v]
  BY DEF Posting, Post, Goto
<1>5. \A v \in Threads : v # handler => posted'[v] = 0
  BY <1>2, <1>3 DEF Posting, Post
<1>6. pc'[handler] = "loop"
  BY <1>1, <1>3, <1>4 DEF Active
<1>7. \A v \in Threads : Active(v)' => v = handler
  BY <1>1, <1>4, <1>5 DEF Active
<1>8. UNCHANGED <<streak, retry>> /\ streak <= MAX_RETRY_COUNT /\ Behind
  BY <1>1 DEF Post, ScheduleUnchanged, Counting, Posts
<1>. QED
  BY <1>3, <1>6, <1>7, <1>8, CountingHandsOn DEF Uncounted, Behind

LEMMA CountingRetry ==
  ASSUME Posting, Counted, Chain, Counting, NEW t \in Threads, RunRetry(t)
  PROVE  Counting'
<1>. DEFINE c == <<"call", attempts + 1>>
<1>1. Active(t) /\ pc[t] = "loop" /\ posted[t] = 1 /\ \A v \in Threads : Active(v) => v = t
  BY DEF Chain, Active, RunRetry, At
<1>2. c \in Threads
  BY CallerIsThread DEF RunRetry, Connect, Posting
<1>3. \A v \in Threads : posted'[v] = 0
  BY <1>1 DEF Active, RunRetry, Posting
<1>4. pc'[c] = "calling" /\ \A v \in Threads : v # c => pc'[v] = pc[v]
  BY <1>2 DEF RunRetry, Connect, Goto, Posting
<1>5. \A v \in Threads : Active(v)' => v = c
  BY <1>1, <1>3, <1>4 DEF Active
<1>6. Behind /\ streak' = streak + 1 /\ retry' = retry
  BY <1>1 DEF Counting, RunRetry, Connect
<1>7. streak' <= MAX_RETRY_COUNT /\ Ahead'
  BY <1>6, ManagerAssumption DEF Behind, Ahead, Counted
<1>. QED
  BY <1>2, <1>3, <1>4, <1>5, <1>7, CountingHandsOn DEF Posts

LEMMA CountingBegins ==
  ASSUME Posting, Counted, Chain, TryEnd
  PROVE  Counting'
<1>. DEFINE c == <<"call", attempts + 1>>
<1>1. mpc = "connect" /\ streak = 0 /\ retry = 0 /\ \A v \in Threads : ~Active(v)
  BY DEF TryEnd, Chain, Starting
<1>2. c \in Threads
  BY CallerIsThread DEF TryEnd, Connect, Posting
<1>3. pc'[c] = "calling" /\ \A v \in Threads : v # c => pc'[v] = pc[v]
  BY <1>2 DEF TryEnd, Connect, Goto, Posting
<1>4. \A v \in Threads : ~(posted'[v] > 0)
  BY <1>1 DEF TryEnd, Active
<1>5. \A v \in Threads : Active(v)' => v = c
  BY <1>1, <1>3, <1>4 DEF Active
<1>6. streak' = 1 /\ retry' = 0
  BY <1>1 DEF TryEnd, Connect
<1>7. streak' <= MAX_RETRY_COUNT /\ Ahead'
  BY <1>6, ManagerAssumption DEF Ahead
<1>. QED
  BY <1>2, <1>3, <1>4, <1>5, <1>7, CountingHandsOn DEF Posts

LEMMA CountingMain ==
  ASSUME Posting, Counted, Chain, Counting,
         \/ TryConnect \/ TryWait \/ TryWait2 \/ TryReset \/ Disconnect \/ DisconnectSet
         \/ Close \/ UNCHANGED vars
  PROVE  Counting'
<1>1. CASE TryReset
  <2>1. UNCHANGED <<pc, posted>> /\ streak' = 0
    BY <1>1 DEF TryReset
  <2>2. \A v \in Threads : ~Active(v)'
    BY <1>1, <2>1 DEF Chain, TryReset, Starting, Active
  <2>3. \A v \in Threads : pc'[v] \notin Uncounted \cup Posts /\ ~(posted'[v] > 0)
    BY <2>2 DEF Active, Uncounted, Posts
  <2>4. \A v \in Threads : pc'[v] # "count"
    BY <2>2 DEF Active
  <2>. QED
    BY <2>1, <2>3, <2>4, ManagerAssumption DEF Counting, At
<1>2. CASE TryConnect \/ TryWait \/ TryWait2 \/ DisconnectSet \/ Close \/ UNCHANGED vars
  <2>1. UNCHANGED <<pc, posted, seen, streak, retry>>
    BY <1>2 DEF TryConnect, TryWait, TryWait2, DisconnectSet, Close, vars, manager, threads
  <2>. QED
    BY <2>1 DEF Counting, Ahead, Behind, At
<1>3. CASE Disconnect
  <2>1. UNCHANGED <<pc, seen, streak, retry>>
    BY <1>3 DEF Disconnect
  <2>2. \A v \in Threads : posted'[v] > 0 => posted[v] > 0
    BY <1>3 DEF Disconnect, Cancelled, Posting
  <2>. QED
    BY <2>1, <2>2 DEF Counting, Ahead, Behind, At
<1>. QED
  BY <1>1, <1>2, <1>3

LEMMA CountingStep ==
  ASSUME Posting, Counted, Numbered, Chain, Counting, [Next]_vars
  PROVE  Counting'
<1>1. ASSUME NEW t \in Threads, ThreadStep(t) \/ WorkerLost(t)
      PROVE  Counting'
  BY <1>1, CountingClient, CountingStarts, CountingSchedule, CountingCount,
     CountingPrepare, CountingPost, CountingRetry DEF ThreadStep
<1>. QED
  BY <1>1, CountingBegins, CountingMain DEF Next, Main

-----------------------------------------------------------------------------
\* The inductive invariant of both theorems below.
Sound == Posting /\ Counted /\ Numbered /\ Single

LEMMA SoundInit == Init => Sound
<1>. SUFFICES ASSUME Init
              PROVE  Sound
  OBVIOUS
<1>1. Counted
  BY ManagerAssumption DEF Init, Counted, States
<1>2. \A n \in Attempts : pc[<<"call", n>>] = "none" /\ pc[<<"work", n>>] = "none"
  BY Names DEF Init
<1>3. \A t \in Threads : pc[t] = "none" /\ posted[t] = 0
  BY DEF Init
<1>4. Numbered
  BY <1>2, NoThreadIsNone DEF Init, Numbered
<1>5. Chain
  BY <1>3 DEF Init, Chain, Active, Starting
<1>6. Counting
  BY <1>3, ManagerAssumption DEF Init, Counting, Uncounted, Posts, At
<1>. QED
  BY <1>1, <1>4, <1>5, <1>6, PostingInit DEF Sound, Single

\* A step that leaves a single start command had a single one before.
LEMMA StartsGrow ==
  ASSUME Counted, [Next]_vars, OneChain'
  PROVE  OneChain
<1>1. starts' = starts \/ starts' = starts + 1
  <2>1. CASE \E t \in Threads : ThreadStep(t) \/ WorkerLost(t)
    BY <2>1 DEF ThreadStep, WorkerLost, ConnectFails, ConnectSucceeds, WorkerEnters,
       OnConnect, OnConnected, WorkerLeaves, WorkerClears, OnDisconnect, Settle, Schedule,
       Count, CancelSchedule, Prepare, CreateHandler, Post, RunRetry, ClientUnchanged,
       ScheduleUnchanged, bounds
  <2>2. CASE TryConnect \/ Disconnect \/ Main \/ UNCHANGED vars
    BY <2>2 DEF TryConnect, Disconnect, Main, TryWait, TryWait2, TryReset, TryEnd,
       DisconnectSet, Close, vars, bounds
  <2>. QED
    BY <2>1, <2>2 DEF Next
<1>. QED
  BY <1>1 DEF OneChain, Counted

LEMMA SoundStep == Sound /\ [Next]_vars => Sound'
<1>. SUFFICES ASSUME Sound, [Next]_vars
              PROVE  Sound'
  OBVIOUS
<1>1. Posting' /\ Counted' /\ Numbered'
  BY PostingStep, CountedStep, NumberedStep DEF Sound
<1>2. ASSUME OneChain'
      PROVE  Chain' /\ Counting'
  <2>1. Chain /\ Counting
    BY <1>2, StartsGrow DEF Sound, Single
  <2>. QED
    BY <1>2, <2>1, ChainStep, CountingStep DEF Sound
<1>. QED
  BY <1>1, <1>2 DEF Sound, Single

\* With one start command there is never more than one connection under way or up:
\* a failed connect, a lost connection and disconnect() do not start a second one.
THEOREM OneAtATime == Spec => []OneConnectionPerChain
<1>1. Sound => OneConnectionPerChain
  <2>. SUFFICES ASSUME Sound, OneChain, NEW m \in Attempts, NEW n \in Attempts,
                       Open(m), Open(n)
                PROVE  m = n
    BY DEF OneConnectionPerChain, OneConnection
  <2>1. ASSUME NEW i \in Attempts, Open(i)
        PROVE  \/ Active(<<"call", i>>) /\ pc[<<"call", i>>] = "calling"
               \/ Active(<<"work", i>>) /\ pc[<<"work", i>>] # "none"
    BY <2>1 DEF Open, Active, At
  <2>2. \A s, t \in Threads : Active(s) /\ Active(t) => s = t
    BY DEF Sound, Single, Chain
  <2>3. Active(<<"call", m>>) \/ Active(<<"work", m>>)
    BY <2>1
  <2>4. Active(<<"call", n>>) \/ Active(<<"work", n>>)
    BY <2>1
  <2>. QED
    BY <2>2, <2>3, <2>4, Names
<1>. QED
  BY <1>1, SoundInit, SoundStep, PTL DEF Spec

\* One call of tryConnect, or one loss of the connection, is good for at most
\* MAX_RETRY_COUNT calls of connect(), for every value of that constant.
THEOREM RetriesAreBounded == Spec => []RetriesBounded
<1>1. Sound => RetriesBounded
  BY DEF Sound, Single, Counting, RetriesBounded
<1>. QED
  BY <1>1, SoundInit, SoundStep, PTL DEF Spec

=============================================================================
