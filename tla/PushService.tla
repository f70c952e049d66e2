----------------------------- MODULE PushService -----------------------------
(***************************************************************************)
(* The life of the Android library: the service (XPushService.java), which *)
(* makes a manager for a start command and disposes of it for a stop; the  *)
(* settings in memory and in the preferences (XPushConfig.java); the       *)
(* receiver that starts the service again (XPushReceiver.java); the native *)
(* client behind each manager (xcomet_client_jni.cc) with the threads that *)
(* connect it and run it; and the process, which the system may kill.      *)
(*                                                                         *)
(* All entry points run on the main thread, so the steps of the main thread*)
(* are whole handlers, except that dispose() waits in the destructor of the*)
(* client; tryConnect is one step of it (its reads of mState one by one are*)
(* in PushManager).  scheduleReconnect, which other threads run without a  *)
(* lock, is taken step by step.  Managers are numbered as they are made,   *)
(* and the client of a manager bears its number.                           *)
(***************************************************************************)
EXTENDS Naturals, Sequences

CONSTANTS
  MaxRetryCount, \* MAX_RETRY_COUNT
  MaxManagers,  \* bound: managers in one process
  MaxAttempts,  \* bound: calls of connect() in one process
  MaxSets,      \* bound: times the application changes the settings
  MaxIntents,   \* bound: commands on their way to the service
  MaxKills      \* bound: times the system kills the process

ASSUME ServiceAssumption ==
  /\ MaxManagers \in Nat /\ MaxAttempts \in Nat /\ MaxSets \in Nat /\ MaxIntents \in Nat
  /\ MaxKills \in Nat /\ MaxRetryCount \in Nat

Managers == 1..MaxManagers
Attempts == 1..MaxAttempts

VARIABLES
  alive,    \* the process runs
  kills,    \* times it was killed
  sticky,   \* onStartCommand returned START_STICKY last
  intents,  \* commands that startService has sent
  mem,      \* the settings in the fields of XPushConfig, 0 for the defaults
  inited,   \* sInited
  disk,     \* the preferences: settings and the inited flag
  sets,     \* times the settings were changed
  made,     \* managers made so far; g_self_global_ref_ is the client of the last
  phase,    \* of mInstance: "none", "live", or "freeing" while dispose() waits
  state,    \* mState of the last manager
  retry,    \* mRetryCount of each manager
  handler,  \* mReconnectHandler of each manager: the attempt on whose looper it is
  posted,   \* the retries on the looper of the thread of each attempt
  tries,    \* calls of connect() so far
  at,       \* the thread of each attempt: first its caller, then its worker
  owner,    \* the manager whose connect() or scheduleReconnect() it runs
  sock,     \* sock_fd_ of each client is set
  conn,     \* is_connected_ of each client
  used,     \* history: the settings the last call of connect() took
  early,    \* history: connect() was called when the end of an earlier attempt was
            \* still to be reported or a retry for it to be scheduled
  dangling  \* history: a thread of connect() went on in a client that was freed

config  == <<mem, inited, disk, sets>>
manager == <<made, phase, state, retry, handler, posted>>
native  == <<tries, at, owner, sock, conn>>
vars    == <<alive, kills, sticky, intents, config, manager, native, used, early, dangling>>

\* The steps of scheduleReconnect() and doScheduleReconnect().
Scheduling == {"schedule", "count", "cancel", "prepare", "create", "post"}

Stages ==
  {"none", "start", "resolve", "handshake", "entering", "oncb", "up", "bye", "loop", "gone"}
    \cup Scheduling

Settings == 0..MaxSets
States   == {"Connected", "Connecting", "Disconnected", "Retrying"}

TypeOK ==
  /\ alive \in BOOLEAN /\ kills \in 0..MaxKills /\ sticky \in BOOLEAN
  /\ intents \in Seq({"start", "stop"}) /\ Len(intents) <= MaxIntents + 1
  /\ mem \in Settings /\ inited \in BOOLEAN /\ sets \in Settings
  /\ disk \in [settings : Settings, inited : BOOLEAN]
  /\ made \in 0..MaxManagers /\ phase \in {"none", "live", "freeing"}
  /\ state \in States
  /\ retry \in [Managers -> Nat]
  /\ handler \in [Managers -> 0..MaxAttempts] /\ posted \in [Attempts -> Nat]
  /\ tries \in 0..MaxAttempts
  /\ at \in [Attempts -> Stages] /\ owner \in [Attempts -> 0..MaxManagers]
  /\ sock \in [Managers -> BOOLEAN] /\ conn \in [Managers -> BOOLEAN]
  /\ used \in Settings /\ early \in BOOLEAN /\ dangling \in BOOLEAN

\* A new process: every static field has its initial value.
Fresh ==
  /\ mem' = 0 /\ inited' = FALSE
  /\ made' = 0 /\ phase' = "none" /\ state' = "Disconnected"
  /\ retry' = [m \in Managers |-> 0]
  /\ handler' = [m \in Managers |-> 0] /\ posted' = [a \in Attempts |-> 0]
  /\ tries' = 0
  /\ at' = [a \in Attempts |-> "none"] /\ owner' = [a \in Attempts |-> 0]
  /\ sock' = [m \in Managers |-> FALSE] /\ conn' = [m \in Managers |-> FALSE]
  /\ early' = FALSE /\ dangling' = FALSE

Init ==
  /\ alive = TRUE /\ kills = 0 /\ sticky = FALSE /\ intents = <<>>
  /\ mem = 0 /\ inited = FALSE /\ sets = 0
  /\ disk = [settings |-> 0, inited |-> FALSE]
  /\ made = 0 /\ phase = "none" /\ state = "Disconnected"
  /\ retry = [m \in Managers |-> 0]
  /\ handler = [m \in Managers |-> 0] /\ posted = [a \in Attempts |-> 0]
  /\ tries = 0
  /\ at = [a \in Attempts |-> "none"] /\ owner = [a \in Attempts |-> 0]
  /\ sock = [m \in Managers |-> FALSE] /\ conn = [m \in Managers |-> FALSE]
  /\ used = 0 /\ early = FALSE /\ dangling = FALSE

-----------------------------------------------------------------------------
(* XPushConfig, and the calls of the application and of the receiver *)

\* The main thread is not inside dispose().
Main == alive /\ phase # "freeing"

\* isInited(): sInited, read from the preferences if it is not set.
LoadConfig ==
  IF inited THEN UNCHANGED <<mem, inited>>
  ELSE mem' = disk.settings /\ inited' = disk.inited

Sent(command) ==
  Len(intents) < MaxIntents /\ intents' = Append(intents, command)

\* The setters, called without startPush after them.
Set ==
  /\ Main /\ sets < MaxSets
  /\ sets' = sets + 1 /\ mem' = sets + 1
  /\ UNCHANGED <<alive, kills, sticky, intents, inited, disk, manager, native,
                 used, early, dangling>>

\* startPush(): setInited saves what is in memory.
StartPush ==
  /\ Main /\ Sent("start")
  /\ inited' = TRUE /\ disk' = [settings |-> mem, inited |-> TRUE]
  /\ UNCHANGED <<alive, kills, sticky, mem, sets, manager, native, used, early,
                 dangling>>

StopPush ==
  /\ Main /\ Sent("stop")
  /\ UNCHANGED <<alive, kills, sticky, config, manager, native, used, early, dangling>>

\* XPushReceiver.onReceive: a broadcast of the system starts an inited service.
OnReceive ==
  /\ Main
  /\ LoadConfig
  /\ IF inited' THEN Sent("start") ELSE UNCHANGED intents
  /\ UNCHANGED <<alive, kills, sticky, disk, sets, manager, native, used, early,
                 dangling>>

-----------------------------------------------------------------------------
(* XPushManager *)

\* The thread of an earlier attempt still has to report its end, or to schedule a
\* retry for manager m.
Reporting(m) ==
  \E a \in Attempts : at[a] = "bye" \/ (at[a] \in Scheduling /\ owner[a] = m)

\* Faulty: the settings are not read again in a new process.
ConnectFromMemory(m) ==
  /\ tries < MaxAttempts
  /\ tries' = tries + 1
  /\ at' = [at EXCEPT ![tries + 1] = "start"]
  /\ owner' = [owner EXCEPT ![tries + 1] = m]
  /\ early' = (early \/ Reporting(m))
  /\ used' = mem
  /\ UNCHANGED <<mem, inited>>

\* connect(): isInited() for its side effect, the settings, and a new thread.
Connect(m) ==
  /\ tries < MaxAttempts
  /\ tries' = tries + 1
  /\ at' = [at EXCEPT ![tries + 1] = "start"]
  /\ owner' = [owner EXCEPT ![tries + 1] = m]
  /\ early' = (early \/ Reporting(m))
  /\ LoadConfig
  /\ used' = mem'

\* Faulty: the test of "Connecting" and "Retrying" is left out.
TryConnectImpatient ==
  IF phase = "live" /\ state = "Connected" /\ conn[made]
  THEN UNCHANGED <<mem, inited, state, retry, tries, at, owner, used, early>>
  ELSE /\ Connect(made')
       /\ state' = "Connecting" /\ retry' = [retry EXCEPT ![made'] = 0]

\* tryConnect() of the manager mInstance, one just made or an older one.
TryConnect ==
  IF /\ phase = "live"
     /\ \/ state \in {"Connecting", "Retrying"}
        \/ state = "Connected" /\ conn[made]
  THEN UNCHANGED <<mem, inited, state, retry, tries, at, owner, used, early>>
  ELSE /\ Connect(made')
       /\ state' = "Connecting" /\ retry' = [retry EXCEPT ![made'] = 0]

\* getInstance(): the constructor makes an XCometClient, which becomes the one
\* that every native client calls back.
GetInstance ==
  IF phase = "live" THEN UNCHANGED <<made, phase>>
  ELSE made < MaxManagers /\ made' = made + 1 /\ phase' = "live"

\* Faulty: a null intent is ignored (the only command of a service that is not
\* live and whose process has not loaded its settings).
OnStartIgnoresRestart ==
  /\ Main /\ intents # <<>> /\ Head(intents) = "start"
  /\ intents' = Tail(intents) /\ sticky' = TRUE
  /\ IF phase = "none" /\ ~inited
     THEN UNCHANGED <<mem, inited, made, phase, state, retry, tries, at, owner, used, early>>
     ELSE GetInstance /\ TryConnect
  /\ UNCHANGED <<alive, kills, disk, sets, handler, posted, sock, conn, dangling>>

\* onStartCommand with START_SERVICE, RESTART_SERVICE or no intent at all.
OnStart ==
  /\ Main /\ intents # <<>> /\ Head(intents) = "start"
  /\ intents' = Tail(intents) /\ sticky' = TRUE
  /\ GetInstance /\ TryConnect
  /\ UNCHANGED <<alive, kills, disk, sets, handler, posted, sock, conn, dangling>>

\* dispose(): the callback is reset, and the destructor closes the client.
Dispose == phase' = "freeing" /\ conn' = [conn EXCEPT ![made] = FALSE]

\* onStartCommand with STOP_SERVICE.
OnStop ==
  /\ Main /\ intents # <<>> /\ Head(intents) = "stop"
  /\ intents' = Tail(intents) /\ sticky' = FALSE
  /\ IF phase = "live" THEN Dispose ELSE UNCHANGED <<phase, conn>>
  /\ UNCHANGED <<alive, kills, config, made, state, retry, handler, posted, tries,
                 at, owner, sock, used, early, dangling>>

\* The service is destroyed.
OnDestroy ==
  /\ Main /\ phase = "live"
  /\ sticky' = FALSE
  /\ Dispose
  /\ UNCHANGED <<alive, kills, intents, config, made, state, retry, handler,
                 posted, tries, at, owner, sock, used, early, dangling>>

\* Faulty: the destructor does not wait for the worker.
FreedAtOnce ==
  /\ alive /\ phase = "freeing"
  /\ phase' = "none"
  /\ UNCHANGED <<alive, kills, sticky, intents, config, made, state, retry,
                 handler, posted, native, used, early, dangling>>

\* WaitForClose finds sock_fd_ == -1; mPushClient and mInstance become null.
Freed ==
  /\ alive /\ phase = "freeing" /\ ~sock[made]
  /\ phase' = "none"
  /\ UNCHANGED <<alive, kills, sticky, intents, config, made, state, retry,
                 handler, posted, native, used, early, dangling>>

MainStep == OnStart \/ OnStop \/ Freed

-----------------------------------------------------------------------------
(* The threads of an attempt and the callbacks *)

IsFreed(m) == m # made \/ phase = "none"

\* The manager that the callbacks of any client reach.
Listening == phase = "live"

Goto(a, stage) == at' = [at EXCEPT ![a] = stage]

ProcessUnchanged == UNCHANGED <<alive, kills, sticky, intents, disk, sets, made, phase>>
ThreadUnchanged  == ProcessUnchanged /\ UNCHANGED <<mem, inited, tries, used, early>>
AttemptUnchanged == ThreadUnchanged /\ UNCHANGED <<owner, handler, posted>>

\* The thread of connect() calls mPushClient.connect().
CallConnect(a) ==
  /\ alive /\ at[a] = "start" /\ ~IsFreed(owner[a])
  /\ Goto(a, "resolve")
  /\ UNCHANGED <<state, retry, sock, conn, dangling>> /\ AttemptUnchanged

\* Codes -1 to -3.  The client may have been freed since the call began.
NoSocket(a) ==
  /\ alive /\ at[a] = "resolve"
  /\ Goto(a, "schedule")
  /\ dangling' = (dangling \/ IsFreed(owner[a]))
  /\ UNCHANGED <<state, retry, sock, conn>> /\ AttemptUnchanged

\* socket(): so may it here.
Socket(a) ==
  /\ alive /\ at[a] = "resolve"
  /\ Goto(a, "handshake")
  /\ sock' = [sock EXCEPT ![owner[a]] = TRUE]
  /\ dangling' = (dangling \/ IsFreed(owner[a]))
  /\ UNCHANGED <<state, retry, conn>> /\ AttemptUnchanged

\* Codes -4 to -8: sock_fd_ keeps its number.
ConnectFails(a) ==
  /\ alive /\ at[a] = "handshake"
  /\ Goto(a, "schedule")
  /\ UNCHANGED <<state, retry, sock, conn, dangling>> /\ AttemptUnchanged

ConnectSucceeds(a) ==
  /\ alive /\ at[a] = "handshake"
  /\ Goto(a, "entering")
  /\ UNCHANGED <<state, retry, sock, conn, dangling>> /\ AttemptUnchanged

Enter(a) ==
  /\ alive /\ at[a] = "entering"
  /\ Goto(a, "oncb")
  /\ conn' = [conn EXCEPT ![owner[a]] = TRUE]
  /\ UNCHANGED <<state, retry, sock, dangling>> /\ AttemptUnchanged

\* The connect callback goes to the manager made last: setState() and mRetryCount = 0
\* are one step here, and two in PushManager.
OnConnect(a) ==
  /\ alive /\ at[a] = "oncb"
  /\ Goto(a, "up")
  /\ IF Listening THEN state' = "Connected" /\ retry' = [retry EXCEPT ![made] = 0]
     ELSE UNCHANGED <<state, retry>>
  /\ UNCHANGED <<sock, conn, dangling>> /\ AttemptUnchanged

\* Faulty: the worker leaves the loop and does not reset sock_fd_.
LeavesKeepsSocket(a) ==
  /\ alive /\ at[a] = "up" /\ ~conn[owner[a]]
  /\ Goto(a, "bye")
  /\ UNCHANGED <<state, retry, sock, conn, dangling>> /\ AttemptUnchanged

\* The end of a connection: from sock_fd_ = -1 on the destructor may return, and
\* the disconnect callback is still to come.
Ends(a) ==
  /\ alive /\ at[a] = "up"
  /\ Goto(a, "bye")
  /\ conn' = [conn EXCEPT ![owner[a]] = FALSE]
  /\ sock' = [sock EXCEPT ![owner[a]] = FALSE]
  /\ UNCHANGED <<state, retry, dangling>> /\ AttemptUnchanged

\* The worker finds is_connected_ reset.
Leaves(a) == at[a] = "up" /\ ~conn[owner[a]] /\ Ends(a)

\* The disconnect callback goes to the manager made last, if that still listens.
OnDisconnect(a) ==
  /\ alive /\ at[a] = "bye"
  /\ IF Listening
     THEN Goto(a, "schedule") /\ owner' = [owner EXCEPT ![a] = made]
     ELSE Goto(a, "gone") /\ UNCHANGED owner
  /\ UNCHANGED <<state, retry, handler, posted, sock, conn,
                 dangling>> /\ ThreadUnchanged

-----------------------------------------------------------------------------
(* scheduleReconnect() of the manager, on the thread of an attempt *)

\* mState of a manager that is not the last is of no use to anybody.
SetState(m, s) == state' = IF m = made THEN s ELSE state

Schedule(a) ==
  /\ alive /\ at[a] = "schedule"
  /\ Goto(a, "count") /\ SetState(owner[a], "Retrying")
  /\ UNCHANGED <<retry, sock, conn, dangling>> /\ AttemptUnchanged

Count(a) ==
  /\ alive /\ at[a] = "count"
  /\ retry' = [retry EXCEPT ![owner[a]] = @ + 1]
  /\ \/ /\ retry'[owner[a]] < MaxRetryCount
        /\ Goto(a, "cancel") /\ UNCHANGED state
     \/ /\ retry'[owner[a]] >= MaxRetryCount
        /\ Goto(a, "gone") /\ SetState(owner[a], "Disconnected")
  /\ UNCHANGED <<sock, conn, dangling>> /\ AttemptUnchanged

CancelSchedule(a) ==
  /\ alive /\ at[a] = "cancel"
  /\ Goto(a, "prepare")
  /\ posted' = [b \in Attempts |-> IF b = handler[owner[a]] THEN 0 ELSE posted[b]]
  /\ UNCHANGED <<owner, state, retry, handler, sock, conn, dangling>> /\ ThreadUnchanged

Prepare(a) ==
  /\ alive /\ at[a] = "prepare"
  /\ Goto(a, IF handler[owner[a]] = 0 THEN "create" ELSE "post")
  /\ UNCHANGED <<state, retry, sock, conn, dangling>> /\ AttemptUnchanged

CreateHandler(a) ==
  /\ alive /\ at[a] = "create"
  /\ Goto(a, "post")
  /\ handler' = [handler EXCEPT ![owner[a]] = a]
  /\ UNCHANGED <<owner, state, retry, posted, sock, conn, dangling>> /\ ThreadUnchanged

\* postDelayed(), and the thread stays in Looper.loop().
Post(a) ==
  /\ alive /\ at[a] = "post"
  /\ Goto(a, "loop")
  /\ posted' = [posted EXCEPT ![handler[owner[a]]] = @ + 1]
  /\ UNCHANGED <<owner, state, retry, handler, sock, conn, dangling>> /\ ThreadUnchanged

ScheduleReconnect(a) ==
  \/ Schedule(a) \/ Count(a) \/ CancelSchedule(a)
  \/ Prepare(a) \/ CreateHandler(a) \/ Post(a)

Due(a) == at[a] = "loop" /\ posted[a] > 0

\* The looper of attempt a runs a retry of the manager whose handler it is.
Retry(a) ==
  /\ alive /\ Due(a) /\ ~IsFreed(owner[a])
  /\ posted' = [posted EXCEPT ![a] = @ - 1]
  /\ Connect(owner[a])
  /\ state' = "Connecting"
  /\ UNCHANGED <<retry, handler, sock, conn, dangling>> /\ ProcessUnchanged

AttemptStep(a) ==
  \/ CallConnect(a) \/ NoSocket(a) \/ Socket(a) \/ ConnectFails(a) \/ ConnectSucceeds(a)
  \/ Enter(a) \/ OnConnect(a) \/ Leaves(a) \/ OnDisconnect(a) \/ ScheduleReconnect(a)

-----------------------------------------------------------------------------
(* The process *)

Die ==
  /\ alive' = FALSE /\ intents' = <<>>
  /\ Fresh
  /\ UNCHANGED <<sticky, disk, sets, used>>

\* The mPushClient of a disposed manager is null: a retry or a thread of connect()
\* that is left over brings the process down.
NullPointer ==
  /\ alive
  /\ \E a \in Attempts : (Due(a) \/ at[a] = "start") /\ IsFreed(owner[a])
  /\ Die /\ UNCHANGED kills

Kill == alive /\ kills < MaxKills /\ kills' = kills + 1 /\ Die

\* The system starts the process of a sticky service again, without an intent;
\* the user or a broadcast starts it in any case.
Restart ==
  /\ ~alive
  /\ alive' = TRUE /\ intents' = IF sticky THEN <<"start">> ELSE <<>>
  /\ UNCHANGED <<kills, sticky, config, manager, native, used, early, dangling>>

Next ==
  \/ Set \/ StartPush \/ StopPush \/ OnReceive
  \/ MainStep \/ OnDestroy
  \/ \E a \in Attempts : AttemptStep(a) \/ Ends(a) \/ Retry(a)
  \/ NullPointer \/ Kill \/ Restart

Spec == Init /\ [][Next]_vars

\* The main thread and the threads of an attempt run, the system keeps its word
\* about sticky services.
FairSpec ==
  /\ Spec
  /\ WF_vars(MainStep) /\ WF_vars(Restart)
  /\ \A a \in Attempts : WF_vars(AttemptStep(a))

-----------------------------------------------------------------------------
\* Where a client holds a connection, or is about to.
Holding == {"handshake", "entering", "oncb", "up"}

Holds(a) == at[a] \in Holding

\* No connect() came early, and no thread went on in a client that was freed.
Orderly == ~early /\ ~dangling

\* An attempt of the manager there is, from connect() to the end of the connection
\* or of the scheduleReconnect() that follows a failure.
Underway(a) ==
  /\ owner[a] = made /\ phase # "none"
  /\ at[a] \in {"start", "resolve"} \cup Holding \cup Scheduling

\* A retry of the manager there is.
Waiting(a) == owner[a] = made /\ phase # "none" /\ posted[a] > 0

\* g_self_global_ref_ is overwritten by each new client.  It is the right one for
\* every worker that has more than its disconnect callback to call, and dispose()
\* returns over none, as long as the process is orderly.
CallbacksReachTheirOwn ==
  Orderly => \A a \in Attempts : Holds(a) => owner[a] = made /\ phase # "none"

\* An early connect() and a freed client are the only ways out of turn: until one of
\* them happens attempts come one after the other, no two are under way or hold a
\* connection, there is one retry at most, and while it waits there is no attempt.
OneAfterTheOther ==
  Orderly =>
    \A a, b \in Attempts :
      /\ (Underway(a) \/ Holds(a)) /\ (Underway(b) \/ Holds(b)) => a = b
      /\ Waiting(a) => posted[a] = 1 /\ ~Underway(b) /\ (Waiting(b) => a = b)

\* What the two tests of tryConnect are for: the user never has two connections.
OneConnectionPerUser == \A a, b \in Attempts : Holds(a) /\ Holds(b) => a = b

\* A connect uses settings that are no older than those startPush saved last, in
\* whatever process.
NeverOlderThanStarted == [][tries' > tries => used' >= disk.settings]_vars

\* A stop command does not block the main thread for ever, if the connection was
\* up when it came and the process orderly: is_connected_ is then false for good.
StopReturns ==
  \A a \in Attempts :
    (phase = "freeing" /\ at[a] = "up" /\ owner[a] = made /\ ~conn[made] /\ Orderly)
      ~> (phase # "freeing")

\* A service that was started and not stopped connects again in a new process.
ComesBack == (~alive /\ sticky) ~> (tries > 0 \/ ~sticky)
=============================================================================
