---------------------------- MODULE PushManager ----------------------------
(***************************************************************************)
(* The reconnect policy of the Android library (XPushManager.java): one    *)
(* manager, the service that calls tryConnect, an application that may call*)
(* disconnect, the threads that connect() starts, the workers of the native*)
(* client that call back, and the loopers that run the scheduled retry.    *)
(* tryConnect is synchronized, nothing else is: mState, mRetryCount and    *)
(* mReconnectHandler are read and written by all of them in any order.     *)
(*                                                                         *)
(* The client is the abstraction of SocketClient that the manager sees:    *)
(* isConnected(), connect() that fails or starts a worker, and the worker  *)
(* that goes from its connect callback to its disconnect callback.         *)
(***************************************************************************)
EXTENDS Naturals, FiniteSets

CONSTANTS
  MAX_RETRY_COUNT,
  MaxAttempts,     \* bound: calls of connect()
  MaxStarts,       \* bound: start commands the service receives
  MaxDisconnects,  \* bound: calls of disconnect()
  MaxLosses        \* bound: connections that end by themselves

ASSUME ManagerAssumption ==
  /\ MAX_RETRY_COUNT \in Nat \ {0} /\ MaxAttempts \in Nat
  /\ MaxStarts \in Nat /\ MaxDisconnects \in Nat /\ MaxLosses \in Nat

Attempts == 1..MaxAttempts

\* The thread that calls connect() for an attempt, and the worker it gets.
Callers  == {<<"call", n>> : n \in Attempts}
Workers  == {<<"work", n>> : n \in Attempts}
Threads  == Callers \cup Workers
NoThread == <<"none", 0>>

VARIABLES
  state,      \* mState
  retry,      \* mRetryCount
  handler,    \* the thread whose looper mReconnectHandler posts to
  posted,     \* retries scheduled on the looper of each thread
  connected,  \* isConnected() of the client
  mpc,        \* the thread that calls the public methods
  pc,         \* every other thread
  seen,       \* mRetryCount as each thread loaded it for ++
  attempts,   \* calls of connect() so far
  streak,     \* history: those since mRetryCount was last reset
  starts, disconnects, losses

manager == <<state, retry, handler, posted>>
threads == <<mpc, pc, seen>>
bounds  == <<starts, disconnects, losses>>
vars    == <<manager, connected, threads, attempts, streak, bounds>>

States == {"Connected", "Connecting", "Disconnecting", "Disconnected", "Retrying"}

Labels ==
  {"none", "calling", "enter", "onConnect", "resetRetry", "up", "clear",
   "onDisconnect", "settle", "schedule", "count", "cancel", "prepare", "create",
   "post", "giveUp", "loop", "done"}

TypeOK ==
  /\ state \in States
  /\ retry \in Nat
  /\ handler \in Threads \cup {NoThread}
  /\ posted \in [Threads -> Nat]
  /\ connected \in BOOLEAN
  /\ mpc \in {"idle", "wait", "wait2", "reset", "connect", "disconnecting", "close"}
  /\ pc \in [Threads -> Labels]
  /\ seen \in [Threads -> Nat]
  /\ attempts \in 0..MaxAttempts /\ streak \in 0..MaxAttempts
  /\ starts \in 0..MaxStarts /\ disconnects \in 0..MaxDisconnects
  /\ losses \in 0..MaxLosses

Init ==
  /\ state = "Disconnected" /\ retry = 0 /\ handler = NoThread
  /\ posted = [t \in Threads |-> 0]
  /\ connected = FALSE
  /\ mpc = "idle"
  /\ pc = [t \in Threads |-> "none"]
  /\ seen = [t \in Threads |-> 0]
  /\ attempts = 0 /\ streak = 0
  /\ starts = 0 /\ disconnects = 0 /\ losses = 0

At(t, label) == pc[t] = label
Goto(t, label) == pc' = [pc EXCEPT ![t] = label]

-----------------------------------------------------------------------------
(* connect() and tryConnect() *)

\* setState(Connecting) and a new thread.
Connect ==
  /\ attempts < MaxAttempts
  /\ attempts' = attempts + 1 /\ streak' = streak + 1
  /\ state' = "Connecting"
  /\ Goto(<<"call", attempts + 1>>, "calling")

\* isConnected(): both the state of the manager and that of the client.
TryConnect ==
  /\ mpc = "idle" /\ starts < MaxStarts
  /\ starts' = starts + 1
  /\ mpc' = IF state = "Connected" /\ connected THEN "idle" ELSE "wait"
  /\ UNCHANGED <<manager, connected, pc, seen, attempts, streak, disconnects, losses>>

\* mState is read once for each side of the ||.
TryWait ==
  /\ mpc = "wait"
  /\ mpc' = IF state = "Connecting" THEN "idle" ELSE "wait2"
  /\ UNCHANGED <<manager, connected, pc, seen, attempts, streak, bounds>>

TryWait2 ==
  /\ mpc = "wait2"
  /\ mpc' = IF state = "Retrying" THEN "idle" ELSE "reset"
  /\ UNCHANGED <<manager, connected, pc, seen, attempts, streak, bounds>>

TryReset ==
  /\ mpc = "reset"
  /\ retry' = 0 /\ streak' = 0
  /\ mpc' = "connect"
  /\ UNCHANGED <<state, handler, posted, connected, pc, seen, attempts, bounds>>

TryEnd ==
  /\ mpc = "connect"
  /\ Connect
  /\ mpc' = "idle"
  /\ UNCHANGED <<retry, handler, posted, connected, seen, bounds>>

-----------------------------------------------------------------------------
(* disconnect() *)

Cancelled == IF handler = NoThread THEN posted ELSE [posted EXCEPT ![handler] = 0]

Disconnect ==
  /\ mpc = "idle" /\ disconnects < MaxDisconnects
  /\ disconnects' = disconnects + 1
  /\ posted' = Cancelled
  /\ mpc' = "disconnecting"
  /\ UNCHANGED <<state, retry, handler, connected, pc, seen, attempts, streak, starts,
                 losses>>

DisconnectSet ==
  /\ mpc = "disconnecting"
  /\ state' = "Disconnecting"
  /\ mpc' = "close"
  /\ UNCHANGED <<retry, handler, posted, connected, pc, seen, attempts, streak, bounds>>

Close ==
  /\ mpc = "close"
  /\ connected' = FALSE
  /\ mpc' = "idle"
  /\ UNCHANGED <<manager, pc, seen, attempts, streak, bounds>>

Main == TryWait \/ TryWait2 \/ TryReset \/ TryEnd \/ DisconnectSet \/ Close

-----------------------------------------------------------------------------
(* The client: connect() returns, the worker runs and calls back *)

ClientUnchanged ==
  UNCHANGED <<handler, posted, mpc, seen, attempts, starts, disconnects>>

ConnectFails(c) ==
  /\ c \in Callers /\ At(c, "calling")
  /\ Goto(c, "schedule")
  /\ UNCHANGED <<state, retry, connected, streak, losses>> /\ ClientUnchanged

ConnectSucceeds(c) ==
  /\ c \in Callers /\ At(c, "calling")
  /\ pc' = [pc EXCEPT ![c] = "done", ![<<"work", c[2]>>] = "enter"]
  /\ UNCHANGED <<state, retry, connected, streak, losses>> /\ ClientUnchanged

WorkerEnters(w) ==
  /\ At(w, "enter")
  /\ connected' = TRUE
  /\ Goto(w, "onConnect")
  /\ UNCHANGED <<state, retry, streak, losses>> /\ ClientUnchanged

OnConnect(w) ==
  /\ At(w, "onConnect")
  /\ state' = "Connected"
  /\ Goto(w, "resetRetry")
  /\ UNCHANGED <<retry, connected, streak, losses>> /\ ClientUnchanged

OnConnected(w) ==
  /\ At(w, "resetRetry")
  /\ retry' = 0 /\ streak' = 0
  /\ Goto(w, "up")
  /\ UNCHANGED <<state, connected, losses>> /\ ClientUnchanged

\* The loop of the worker ends: Close() was called, for whichever worker.
WorkerLeaves(w) ==
  /\ At(w, "up") /\ ~connected
  /\ Goto(w, "clear")
  /\ UNCHANGED <<state, retry, connected, streak, losses>> /\ ClientUnchanged

\* The connection ends, or the native client drops it.
WorkerLost(w) ==
  /\ At(w, "up") /\ losses < MaxLosses
  /\ losses' = losses + 1
  /\ Goto(w, "clear")
  /\ UNCHANGED <<state, retry, connected, streak>> /\ ClientUnchanged

WorkerClears(w) ==
  /\ At(w, "clear")
  /\ connected' = FALSE
  /\ Goto(w, "onDisconnect")
  /\ UNCHANGED <<state, retry, streak, losses>> /\ ClientUnchanged

\* Faulty: a retry is scheduled whatever the state is.
OnDisconnectRetries(w) ==
  /\ At(w, "onDisconnect")
  /\ Goto(w, "schedule")
  /\ UNCHANGED <<state, retry, connected, streak, losses>> /\ ClientUnchanged

OnDisconnect(w) ==
  /\ At(w, "onDisconnect")
  /\ Goto(w, IF state = "Disconnecting" THEN "settle" ELSE "schedule")
  /\ UNCHANGED <<state, retry, connected, streak, losses>> /\ ClientUnchanged

Settle(t) ==
  /\ pc[t] \in {"settle", "giveUp"}
  /\ state' = "Disconnected"
  /\ Goto(t, "done")
  /\ UNCHANGED <<retry, connected, streak, losses>> /\ ClientUnchanged

-----------------------------------------------------------------------------
(* scheduleReconnect() and doScheduleReconnect(), on whatever thread fails *)

ScheduleUnchanged ==
  UNCHANGED <<connected, mpc, attempts, streak, bounds>>

Schedule(t) ==
  /\ At(t, "schedule")
  /\ state' = "Retrying"
  /\ seen' = [seen EXCEPT ![t] = retry]
  /\ Goto(t, "count")
  /\ UNCHANGED <<retry, handler, posted>> /\ ScheduleUnchanged

\* Faulty: <= for <.
CountOneMore(t) ==
  /\ At(t, "count")
  /\ retry' = seen[t] + 1
  /\ Goto(t, IF seen[t] < MAX_RETRY_COUNT THEN "cancel" ELSE "giveUp")
  /\ UNCHANGED <<state, handler, posted, seen>> /\ ScheduleUnchanged

\* ++mRetryCount < MAX_RETRY_COUNT
Count(t) ==
  /\ At(t, "count")
  /\ retry' = seen[t] + 1
  /\ Goto(t, IF seen[t] + 1 < MAX_RETRY_COUNT THEN "cancel" ELSE "giveUp")
  /\ UNCHANGED <<state, handler, posted, seen>> /\ ScheduleUnchanged

CancelSchedule(t) ==
  /\ At(t, "cancel")
  /\ posted' = Cancelled
  /\ Goto(t, "prepare")
  /\ UNCHANGED <<state, retry, handler, seen>> /\ ScheduleUnchanged

\* A Handler belongs to the looper of the thread that creates it.
Prepare(t) ==
  /\ At(t, "prepare")
  /\ Goto(t, IF handler = NoThread THEN "create" ELSE "post")
  /\ UNCHANGED <<state, retry, handler, posted, seen>> /\ ScheduleUnchanged

CreateHandler(t) ==
  /\ At(t, "create")
  /\ handler' = t
  /\ Goto(t, "post")
  /\ UNCHANGED <<state, retry, posted, seen>> /\ ScheduleUnchanged

\* Faulty: the retry is left to the thread that scheduled one before.
PostOnce(t) ==
  /\ At(t, "post")
  /\ posted' = IF handler = t THEN [posted EXCEPT ![t] = @ + 1] ELSE posted
  /\ Goto(t, "loop")
  /\ UNCHANGED <<state, retry, handler, seen>> /\ ScheduleUnchanged

\* postDelayed, and Looper.loop(), which does not return.
Post(t) ==
  /\ At(t, "post")
  /\ posted' = [posted EXCEPT ![handler] = @ + 1]
  /\ Goto(t, "loop")
  /\ UNCHANGED <<state, retry, handler, seen>> /\ ScheduleUnchanged

\* Faulty: the retry runs again and again until it is cancelled.
RunRetryKeeps(t) ==
  /\ At(t, "loop") /\ posted[t] > 0
  /\ Connect
  /\ UNCHANGED <<retry, handler, posted, connected, mpc, seen, bounds>>

\* The delay is over: mReconnectRunnable calls connect().
RunRetry(t) ==
  /\ At(t, "loop") /\ posted[t] > 0
  /\ posted' = [posted EXCEPT ![t] = @ - 1]
  /\ Connect
  /\ UNCHANGED <<retry, handler, connected, mpc, seen, bounds>>

ThreadStep(t) ==
  \/ ConnectFails(t) \/ ConnectSucceeds(t)
  \/ WorkerEnters(t) \/ OnConnect(t) \/ OnConnected(t) \/ WorkerLeaves(t)
  \/ WorkerClears(t) \/ OnDisconnect(t) \/ Settle(t)
  \/ Schedule(t) \/ Count(t) \/ CancelSchedule(t) \/ Prepare(t) \/ CreateHandler(t)
  \/ Post(t) \/ RunRetry(t)

Next ==
  \/ TryConnect \/ Disconnect \/ Main
  \/ \E t \in Threads : ThreadStep(t) \/ WorkerLost(t)

Spec == Init /\ [][Next]_vars

\* Threads run, a call of connect() returns, the delay of a retry passes.
FairSpec == Spec /\ WF_vars(Main) /\ \A t \in Threads : WF_vars(ThreadStep(t))

-----------------------------------------------------------------------------
\* Where a thread is on its way to an outcome of connect(), or to the next one.
Deciding ==
  {"calling", "enter", "onConnect", "schedule", "count", "cancel", "prepare", "create",
   "post", "giveUp"}

Pending ==
  \/ \E t \in Threads : pc[t] \in Deciding \/ posted[t] > 0
  \/ mpc = "disconnecting"

\* tryConnect waits for a connect that is under way or scheduled, never for one
\* that nobody will make.
WaitsForSomething == state \in {"Connecting", "Retrying"} => Pending

\* disconnect() has been called and no connect is on its way to an outcome.
Quiet == state = "Disconnecting" /\ ~Pending

\* A disconnect() with no connect under way holds until tryConnect is called: the
\* disconnect callback neither schedules a retry nor starts a connect.
DisconnectHolds ==
  [][Quiet => \/ Quiet' \/ state' = "Disconnected"
              \/ mpc = "connect" /\ state' = "Connecting"
              \/ mpc' = "disconnecting"]_vars

\* tryConnect was called once: the connects and retries form a single chain.
OneChain == starts <= 1

\* One call of tryConnect, or one loss of the connection, is good for
\* MAX_RETRY_COUNT calls of connect() and no more.
RetriesBounded == OneChain => streak <= MAX_RETRY_COUNT

\* Between a call of connect() and the end of the connection it makes.
Open(n) ==
  \/ At(<<"call", n>>, "calling")
  \/ pc[<<"work", n>>] \in {"enter", "onConnect", "resetRetry", "up", "clear"}

\* tryConnect waits for the connect that is under way: there are never two.
OneConnection == \A m, n \in Attempts : Open(m) /\ Open(n) => m = n

\* A lost connection, a failed connect and disconnect() do not start a second one.
OneConnectionPerChain == OneChain => OneConnection

\* A connect that is under way or scheduled comes to an end.
WaitEnds ==
  state \in {"Connecting", "Retrying"}
    ~> (state \notin {"Connecting", "Retrying"} \/ ~OneChain)
=============================================================================
