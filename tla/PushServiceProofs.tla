--------------------------- MODULE PushServiceProofs ---------------------------
(***************************************************************************)
(* Attempts come one after the other, and their callbacks reach their own  *)
(* manager, until a connect() comes early or a thread goes on in a client  *)
(* that was freed; and no connect uses settings older than those that were *)
(* saved: for any number of managers, attempts, commands, settings and     *)
(* processes.                                                              *)
(***************************************************************************)
EXTENDS PushService, TLAPS

-----------------------------------------------------------------------------
(* The invariant *)

\* Managers and attempts are numbered as they are made, an attempt that has not been
\* made has no thread, a handler belongs to the looper of a thread of its manager,
\* and retries are on loopers.
Numbering ==
  /\ phase # "none" => made # 0
  /\ \A a \in Attempts :
       /\ owner[a] <= made
       /\ at[a] # "none" => a <= tries /\ owner[a] # 0
       /\ posted[a] > 0 => at[a] \in {"post", "loop"}
  /\ \A m \in Managers :
       handler[m] # 0 => at[handler[m]] \in {"post", "loop"} /\ owner[handler[m]] = m

\* Where a thread of the manager there is keeps every other one away.
Busy == {"start", "resolve"} \cup Scheduling

\* The attempt that holds a connection, that is busy for the manager there is, or
\* that is to report its end, is the last one; a client that has a connection is not
\* freed and has a socket.
Latest ==
  \A a \in Attempts :
    /\ at[a] \in Holding => a = tries /\ owner[a] = made /\ phase # "none" /\ sock[made]
    /\ at[a] \in Busy /\ owner[a] = made /\ phase # "none" => a = tries
    /\ at[a] = "bye" /\ phase # "none" => a = tries

\* A retry of the manager there is was posted by its last attempt, now in loop().
RetryAlone ==
  \A a \in Attempts :
    phase # "none" /\ owner[a] = made /\ posted[a] > 0 =>
      tries # 0 /\ at[tries] = "loop" /\ posted[a] = 1 /\ a = handler[made]

\* mState tells whether an attempt or a retry is under way.
StateTells ==
  phase = "live" =>
    \A a \in Attempts :
      owner[a] = made =>
        /\ at[a] \in {"start", "resolve", "handshake", "entering", "oncb"} =>
             state = "Connecting"
        /\ at[a] = "up" => state = "Connected"
        /\ at[a] \in {"oncb", "up"} => conn[made]
        /\ at[a] \in Scheduling \ {"schedule"} => state = "Retrying"
        /\ posted[a] > 0 => state = "Retrying"

Single == Orderly => Latest /\ RetryAlone /\ StateTells
Order  == Numbering /\ Single

-----------------------------------------------------------------------------
(* Types *)

LEMMA IntentsType ==
  ASSUME TypeOK
  PROVE  /\ \A c \in {"start", "stop"} : Sent(c) =>
              intents' \in Seq({"start", "stop"}) /\ Len(intents') <= MaxIntents + 1
         /\ intents # <<>> =>
              Tail(intents) \in Seq({"start", "stop"}) /\ Len(Tail(intents)) <= MaxIntents + 1
  <1>1. intents \in Seq({"start", "stop"}) /\ Len(intents) <= MaxIntents + 1
    BY DEF TypeOK
  <1>2. ASSUME NEW c \in {"start", "stop"}, Sent(c)
        PROVE  intents' \in Seq({"start", "stop"}) /\ Len(intents') <= MaxIntents + 1
    <2>. DEFINE Commands == {"start", "stop"}
    <2>1. intents \in Seq(Commands) /\ c \in Commands
      BY <1>1
    <2>. HIDE DEF Commands
    <2>2. Append(intents, c) \in Seq(Commands) /\ Len(Append(intents, c)) = Len(intents) + 1
      BY <2>1
    <2>. QED
      BY <1>1, <1>2, <2>2, ServiceAssumption DEF Sent, Commands
  <1>3. ASSUME intents # <<>>
        PROVE  Tail(intents) \in Seq({"start", "stop"}) /\ Len(Tail(intents)) <= MaxIntents + 1
    <2>. DEFINE Commands == {"start", "stop"}
    <2>1. intents \in Seq(Commands)
      BY <1>1
    <2>. HIDE DEF Commands
    <2>2. Tail(intents) \in Seq(Commands) /\ Len(Tail(intents)) = Len(intents) - 1
      BY <1>3, <2>1
    <2>. QED
      BY <1>1, <2>2, ServiceAssumption DEF Commands
  <1> QED
    BY <1>2, <1>3

LEMMA ConfigType ==
  ASSUME TypeOK, LoadConfig
  PROVE  mem' \in Settings /\ inited' \in BOOLEAN
  BY DEF TypeOK, LoadConfig

LEMMA ConnectType ==
  ASSUME TypeOK, NEW m \in 0..MaxManagers, Connect(m)
  PROVE  /\ mem' \in Settings /\ inited' \in BOOLEAN /\ used' \in Settings /\ early' \in BOOLEAN
         /\ tries' \in 0..MaxAttempts
         /\ at' \in [Attempts -> Stages] /\ owner' \in [Attempts -> 0..MaxManagers]
  <1>1. mem' \in Settings /\ inited' \in BOOLEAN /\ used' = mem'
    BY ConfigType DEF Connect
  <1>2. tries' \in 0..MaxAttempts /\ tries + 1 \in Attempts
    BY ServiceAssumption DEF Connect, TypeOK, Attempts
  <1>3. at' \in [Attempts -> Stages] /\ owner' \in [Attempts -> 0..MaxManagers]
    BY <1>2 DEF Connect, TypeOK, Stages
  <1>4. early' \in BOOLEAN
    BY DEF Connect
  <1> QED
    BY <1>1, <1>2, <1>3, <1>4

LEMMA TypeInit == Init => TypeOK
  <1> SUFFICES ASSUME Init PROVE TypeOK
    OBVIOUS
  <1>1. /\ alive \in BOOLEAN /\ sticky \in BOOLEAN /\ inited \in BOOLEAN
        /\ phase \in {"none", "live", "freeing"} /\ state \in States
        /\ early \in BOOLEAN /\ dangling \in BOOLEAN
    BY DEF Init, States
  <1>4. /\ kills \in 0..MaxKills /\ mem \in Settings /\ sets \in Settings
        /\ made \in 0..MaxManagers /\ tries \in 0..MaxAttempts /\ used \in Settings
    BY ServiceAssumption DEF Init, Settings
  <1>5. disk \in [settings : Settings, inited : BOOLEAN]
    BY ServiceAssumption DEF Init, Settings
  <1>2. intents \in Seq({"start", "stop"}) /\ Len(intents) <= MaxIntents + 1
    BY ServiceAssumption DEF Init
  <1>3. /\ retry \in [Managers -> Nat]
        /\ handler \in [Managers -> 0..MaxAttempts] /\ posted \in [Attempts -> Nat]
        /\ at \in [Attempts -> Stages] /\ owner \in [Attempts -> 0..MaxManagers]
        /\ sock \in [Managers -> BOOLEAN] /\ conn \in [Managers -> BOOLEAN]
    BY ServiceAssumption DEF Init, Stages
  <1> QED
    BY <1>1, <1>2, <1>3, <1>4, <1>5 DEF TypeOK

\* What the application and the receiver do.
LEMMA TypeCommands ==
  ASSUME TypeOK, Set \/ StartPush \/ StopPush \/ OnReceive
  PROVE  TypeOK'
  <1> USE DEF manager, native, config
  <1>1. CASE Set
    BY <1>1, ServiceAssumption DEF Set, TypeOK, Settings
  <1>2. CASE StartPush
    <2>1. intents' \in Seq({"start", "stop"}) /\ Len(intents') <= MaxIntents + 1
      BY <1>2, IntentsType DEF StartPush
    <2> QED
      BY <1>2, <2>1 DEF StartPush, TypeOK
  <1>3. CASE StopPush
    <2>1. intents' \in Seq({"start", "stop"}) /\ Len(intents') <= MaxIntents + 1
      BY <1>3, IntentsType DEF StopPush
    <2> QED
      BY <1>3, <2>1 DEF StopPush, TypeOK
  <1>4. CASE OnReceive
    <2>1. intents' \in Seq({"start", "stop"}) /\ Len(intents') <= MaxIntents + 1
      BY <1>4, IntentsType DEF OnReceive, TypeOK
    <2>2. mem' \in Settings /\ inited' \in BOOLEAN
      BY <1>4, ConfigType DEF OnReceive
    <2> QED
      BY <1>4, <2>1, <2>2 DEF OnReceive, TypeOK
  <1> QED
    BY <1>1, <1>2, <1>3, <1>4

LEMMA TypeService ==
  ASSUME TypeOK, MainStep \/ OnDestroy
  PROVE  TypeOK'
  <1> USE DEF manager, native, config
  <1>1. CASE OnStart
    <2>1. intents' \in Seq({"start", "stop"}) /\ Len(intents') <= MaxIntents + 1
      BY <1>1, IntentsType DEF OnStart
    <2>2. made' \in 0..MaxManagers /\ phase' \in {"none", "live", "freeing"}
      BY <1>1, ServiceAssumption DEF OnStart, GetInstance, TypeOK
    <2>3. /\ mem' \in Settings /\ inited' \in BOOLEAN /\ used' \in Settings
          /\ early' \in BOOLEAN
          /\ tries' \in 0..MaxAttempts /\ state' \in States /\ retry' \in [Managers -> Nat]
          /\ at' \in [Attempts -> Stages] /\ owner' \in [Attempts -> 0..MaxManagers]
      <3>1. CASE /\ Connect(made') /\ state' = "Connecting"
                 /\ retry' = [retry EXCEPT ![made'] = 0]
        <4>1. state' \in States /\ retry' \in [Managers -> Nat]
          BY <3>1 DEF States, TypeOK
        <4> QED
          BY <2>2, <3>1, <4>1, ConnectType
      <3>2. CASE UNCHANGED <<mem, inited, state, retry, tries, at, owner, used, early>>
        BY <3>2 DEF TypeOK
      <3> QED
        BY <1>1, <3>1, <3>2 DEF OnStart, TryConnect
    <2> QED
      BY <1>1, <2>1, <2>2, <2>3 DEF OnStart, TypeOK
  <1>2. CASE OnStop
    <2>1. intents' \in Seq({"start", "stop"}) /\ Len(intents') <= MaxIntents + 1
      BY <1>2, IntentsType DEF OnStop
    <2> QED
      BY <1>2, <2>1 DEF OnStop, Dispose, TypeOK
  <1>3. CASE OnDestroy
    BY <1>3 DEF OnDestroy, Dispose, TypeOK
  <1>4. CASE Freed
    BY <1>4 DEF Freed, TypeOK
  <1> QED
    BY <1>1, <1>2, <1>3, <1>4 DEF MainStep

LEMMA TypeAttempt ==
  ASSUME TypeOK, NEW a \in Attempts, AttemptStep(a) \/ Ends(a), ~ScheduleReconnect(a)
  PROVE  TypeOK'
  <1> USE DEF AttemptUnchanged, ThreadUnchanged, ProcessUnchanged
  <1>1. ASSUME NEW stage \in Stages, Goto(a, stage)
        PROVE  at' \in [Attempts -> Stages]
    BY <1>1 DEF Goto, TypeOK
  <1>2. CASE CallConnect(a)
    BY <1>1, <1>2 DEF CallConnect, TypeOK, Stages
  <1>3. CASE NoSocket(a)
    <2>1. at' \in [Attempts -> Stages]
      BY <1>1, <1>3 DEF NoSocket, Stages, Scheduling
    <2>2. dangling' \in BOOLEAN
      BY <1>3 DEF NoSocket
    <2> QED
      BY <1>3, <2>1, <2>2 DEF NoSocket, TypeOK
  <1>4. CASE Socket(a)
    <2>1. at' \in [Attempts -> Stages] /\ sock' \in [Managers -> BOOLEAN]
      BY <1>1, <1>4 DEF Socket, Stages, TypeOK
    <2>2. dangling' \in BOOLEAN
      BY <1>4 DEF Socket
    <2> QED
      BY <1>4, <2>1, <2>2 DEF Socket, TypeOK
  <1>5. CASE ConnectFails(a)
    <2>1. at' \in [Attempts -> Stages]
      BY <1>1, <1>5 DEF ConnectFails, Stages, Scheduling
    <2> QED
      BY <1>5, <2>1 DEF ConnectFails, TypeOK
  <1>6. CASE ConnectSucceeds(a)
    BY <1>1, <1>6 DEF ConnectSucceeds, TypeOK, Stages
  <1>7. CASE Enter(a)
    <2>1. at' \in [Attempts -> Stages] /\ conn' \in [Managers -> BOOLEAN]
      BY <1>1, <1>7 DEF Enter, Stages, TypeOK
    <2> QED
      BY <1>7, <2>1 DEF Enter, TypeOK
  <1>8. CASE OnConnect(a)
    <2>1. at' \in [Attempts -> Stages] /\ state' \in States
      BY <1>1, <1>8 DEF OnConnect, Stages, States, TypeOK
    <2>2. retry' \in [Managers -> Nat]
      BY <1>8 DEF OnConnect, TypeOK
    <2> QED
      BY <1>8, <2>1, <2>2 DEF OnConnect, TypeOK
  <1>9. CASE Ends(a)
    <2>1. /\ at' \in [Attempts -> Stages]
          /\ conn' \in [Managers -> BOOLEAN] /\ sock' \in [Managers -> BOOLEAN]
      BY <1>1, <1>9 DEF Ends, Stages, TypeOK
    <2> QED
      BY <1>9, <2>1 DEF Ends, TypeOK
  <1>10. CASE OnDisconnect(a)
    <2>1. at' \in [Attempts -> Stages]
      BY <1>1, <1>10 DEF OnDisconnect, Stages, Scheduling
    <2>2. owner' \in [Attempts -> 0..MaxManagers]
      BY <1>10 DEF OnDisconnect, TypeOK
    <2> QED
      BY <1>10, <2>1, <2>2 DEF OnDisconnect, TypeOK
  <1> QED
    BY <1>2, <1>3, <1>4, <1>5, <1>6, <1>7, <1>8, <1>9, <1>10 DEF AttemptStep, Leaves

LEMMA TypeSchedule ==
  ASSUME TypeOK, NEW a \in Attempts, ScheduleReconnect(a)
  PROVE  TypeOK'
  <1> USE DEF AttemptUnchanged, ThreadUnchanged, ProcessUnchanged
  <1>1. ASSUME NEW stage \in Scheduling \cup {"gone", "loop"}, Goto(a, stage)
        PROVE  at' \in [Attempts -> Stages]
    BY <1>1 DEF Goto, TypeOK, Stages
  <1>2. \A m, s : s \in States /\ SetState(m, s) => state' \in States
    BY DEF SetState, TypeOK
  <1>3. CASE Schedule(a)
    <2>1. at' \in [Attempts -> Stages] /\ state' \in States
      BY <1>1, <1>2, <1>3 DEF Schedule, Scheduling, States
    <2> QED
      BY <1>3, <2>1 DEF Schedule, TypeOK
  <1>4. CASE Count(a)
    <2>1. at' \in [Attempts -> Stages]
      BY <1>1, <1>4 DEF Count, Scheduling
    <2>2. state' \in States
      BY <1>2, <1>4 DEF Count, States, TypeOK
    <2>3. retry' \in [Managers -> Nat]
      <3>1. retry' = [m \in Managers |-> IF m = owner[a] THEN retry[m] + 1 ELSE retry[m]]
        BY <1>4 DEF Count, TypeOK
      <3> QED
        BY <3>1 DEF TypeOK
    <2> QED
      BY <1>4, <2>1, <2>2, <2>3 DEF Count, TypeOK
  <1>5. CASE CancelSchedule(a)
    <2>1. at' \in [Attempts -> Stages] /\ posted' \in [Attempts -> Nat]
      BY <1>1, <1>5 DEF CancelSchedule, Scheduling, TypeOK
    <2> QED
      BY <1>5, <2>1 DEF CancelSchedule, TypeOK
  <1>6. CASE Prepare(a)
    <2>1. at' \in [Attempts -> Stages]
      BY <1>1, <1>6 DEF Prepare, Scheduling
    <2> QED
      BY <1>6, <2>1 DEF Prepare, TypeOK
  <1>7. CASE CreateHandler(a)
    <2>1. at' \in [Attempts -> Stages] /\ a \in 0..MaxAttempts
      BY <1>1, <1>7 DEF CreateHandler, Scheduling, Attempts
    <2>2. handler' \in [Managers -> 0..MaxAttempts]
      BY <1>7, <2>1 DEF CreateHandler, TypeOK
    <2> QED
      BY <1>7, <2>1, <2>2 DEF CreateHandler, TypeOK
  <1>8. CASE Post(a)
    <2>1. at' \in [Attempts -> Stages]
      BY <1>1, <1>8 DEF Post
    <2>2. posted' \in [Attempts -> Nat]
      <3>1. posted' = [b \in Attempts |->
                         IF b = handler[owner[a]] THEN posted[b] + 1 ELSE posted[b]]
        BY <1>8 DEF Post, TypeOK
      <3> QED
        BY <3>1 DEF TypeOK
    <2> QED
      BY <1>8, <2>1, <2>2 DEF Post, TypeOK
  <1> QED
    BY <1>3, <1>4, <1>5, <1>6, <1>7, <1>8 DEF ScheduleReconnect

LEMMA TypeRetry ==
  ASSUME TypeOK, NEW a \in Attempts, Retry(a)
  PROVE  TypeOK'
  <1>1. owner[a] \in 0..MaxManagers
    BY DEF TypeOK
  <1>2. /\ mem' \in Settings /\ inited' \in BOOLEAN /\ used' \in Settings
        /\ early' \in BOOLEAN /\ tries' \in 0..MaxAttempts
        /\ at' \in [Attempts -> Stages] /\ owner' \in [Attempts -> 0..MaxManagers]
    BY <1>1, ConnectType DEF Retry
  <1>3. posted' \in [Attempts -> Nat] /\ state' \in States
    BY DEF Retry, Due, TypeOK, States
  <1> QED
    BY <1>2, <1>3 DEF Retry, ProcessUnchanged, TypeOK

LEMMA TypeProcess ==
  ASSUME TypeOK, NullPointer \/ Kill \/ Restart \/ UNCHANGED vars
  PROVE  TypeOK'
  <1> USE DEF manager, native, config
  <1>1. ASSUME Die, kills' \in 0..MaxKills PROVE TypeOK'
    <2>1. /\ mem' \in Settings /\ made' \in 0..MaxManagers /\ tries' \in 0..MaxAttempts
      BY <1>1, ServiceAssumption DEF Die, Fresh, Settings
    <2>4. /\ alive' \in BOOLEAN /\ inited' \in BOOLEAN /\ early' \in BOOLEAN
          /\ dangling' \in BOOLEAN
          /\ phase' \in {"none", "live", "freeing"} /\ state' \in States
      BY <1>1 DEF Die, Fresh, States
    <2>2. /\ retry' \in [Managers -> Nat]
          /\ handler' \in [Managers -> 0..MaxAttempts] /\ posted' \in [Attempts -> Nat]
          /\ at' \in [Attempts -> Stages] /\ owner' \in [Attempts -> 0..MaxManagers]
          /\ sock' \in [Managers -> BOOLEAN] /\ conn' \in [Managers -> BOOLEAN]
      BY <1>1, ServiceAssumption DEF Die, Fresh, Stages
    <2>3. intents' \in Seq({"start", "stop"}) /\ Len(intents') <= MaxIntents + 1
      BY <1>1, ServiceAssumption DEF Die
    <2> QED
      BY <1>1, <2>1, <2>2, <2>3, <2>4 DEF Die, TypeOK
  <1>2. CASE NullPointer
    BY <1>1, <1>2 DEF NullPointer, TypeOK
  <1>3. CASE Kill
    BY <1>1, <1>3, ServiceAssumption DEF Kill, TypeOK
  <1>4. CASE Restart
    <2>1. intents' \in Seq({"start", "stop"}) /\ Len(intents') <= MaxIntents + 1
      <3>1. CASE sticky
        BY <1>4, <3>1, ServiceAssumption DEF Restart
      <3>2. CASE ~sticky
        BY <1>4, <3>2, ServiceAssumption DEF Restart
      <3> QED
        BY <3>1, <3>2
    <2> QED
      BY <1>4, <2>1 DEF Restart, TypeOK
  <1>5. CASE UNCHANGED vars
    BY <1>5 DEF vars, TypeOK
  <1> QED
    BY <1>2, <1>3, <1>4, <1>5

LEMMA TypeStep == TypeOK /\ [Next]_vars => TypeOK'
  BY TypeCommands, TypeService, TypeAttempt, TypeSchedule, TypeRetry, TypeProcess
     DEF Next

\* Every variable of every reachable state has its type; how many retries there are
\* is left open.
THEOREM TypeCorrect == Spec => []TypeOK
  BY TypeInit, TypeStep, PTL DEF Spec

-----------------------------------------------------------------------------
(* One attempt after the other *)

\* What the invariant looks at.
seen == <<made, phase, state, handler, posted, tries, at, owner, sock, conn, early, dangling>>

LEMMA SeenSame ==
  ASSUME Order, UNCHANGED seen
  PROVE  Order'
  BY DEF Order, Numbering, Single, Orderly, Latest, RetryAlone, StateTells, seen

LEMMA FreshOrder ==
  ASSUME Fresh
  PROVE  Order'
  BY DEF Fresh, Order, Numbering, Single, Latest, RetryAlone, StateTells, Busy, Scheduling,
         Holding

\* A new attempt of the manager there is, when no other one holds a connection or
\* is on the way to one, and no retry is left; that no one is about to schedule a
\* retry or to report its end is what an orderly connect() means.
LEMMA AttemptAdded ==
  ASSUME TypeOK, Numbering, made' \in 1..MaxManagers, made <= made', phase' # "none",
         Connect(made'), state' = "Connecting", handler' = handler,
         \A a \in Attempts : posted'[a] > 0 => posted[a] > 0,
         Orderly' => \A a \in Attempts :
           /\ at[a] \notin Holding
           /\ owner[a] = made' => at[a] \notin {"start", "resolve"} /\ ~(posted'[a] > 0)
  PROVE  Order'
  <1>1. tries \in 0..MaxAttempts /\ tries + 1 \in Attempts /\ tries' = tries + 1
    BY ServiceAssumption DEF TypeOK, Connect, Attempts
  <1>2. \A a \in Attempts :
          /\ at'[a] = IF a = tries + 1 THEN "start" ELSE at[a]
          /\ owner'[a] = IF a = tries + 1 THEN made' ELSE owner[a]
    BY DEF Connect, TypeOK
  <1>3. made \in 0..MaxManagers /\ \A a \in Attempts : a \in Nat /\ owner[a] \in 0..MaxManagers
    <2>1. \A a \in Attempts : a \in Nat
      BY ServiceAssumption DEF Attempts
    <2> QED
      BY <2>1 DEF TypeOK
  <1>4. at[tries + 1] = "none" /\ ~(posted'[tries + 1] > 0)
    <2>1. at[tries + 1] = "none"
      BY <1>1 DEF Numbering
    <2> QED
      BY <1>1, <2>1 DEF Numbering
  <1>5. Numbering'
    <2>1. \A a \in Attempts :
            /\ owner'[a] <= made'
            /\ at'[a] # "none" => a <= tries' /\ owner'[a] # 0
            /\ posted'[a] > 0 => at'[a] \in {"post", "loop"}
      BY <1>1, <1>2, <1>3, <1>4 DEF Numbering
    <2>2. ASSUME NEW m \in Managers, handler'[m] # 0
          PROVE  at'[handler'[m]] \in {"post", "loop"} /\ owner'[handler'[m]] = m
      <3>1. handler[m] \in Attempts /\ at[handler[m]] \in {"post", "loop"} /\ owner[handler[m]] = m
        BY <2>2 DEF Numbering, TypeOK, Attempts
      <3> QED
        BY <1>2, <1>4, <3>1
    <2> QED
      BY <2>1, <2>2 DEF Numbering
  <1>6. ASSUME Orderly' PROVE Latest' /\ RetryAlone' /\ StateTells'
    <2>1. \A a \in Attempts :
            at[a] # "bye" /\ (owner[a] = made' => at[a] \notin Scheduling)
      BY <1>6 DEF Connect, Reporting, Orderly
    <2>2. \A a \in Attempts :
            a # tries + 1 => /\ at'[a] \notin Holding /\ at'[a] # "bye"
                             /\ owner'[a] = made' => at'[a] \notin Busy /\ ~(posted'[a] > 0)
      BY <1>2, <1>6, <2>1 DEF Busy
    <2>3. at'[tries + 1] = "start"
      BY <1>1, <1>2
    <2>4. Latest'
      BY <1>1, <2>2, <2>3 DEF Latest, Holding
    <2>5. RetryAlone'
      BY <1>4, <2>2 DEF RetryAlone
    <2>6. StateTells'
      <3>1. \A a \in Attempts : owner'[a] = made' => ~(posted'[a] > 0)
        BY <1>4, <2>2
      <3>2. \A a \in Attempts :
              owner'[a] = made' => at'[a] \notin {"oncb", "up"} /\ at'[a] \notin Scheduling
        BY <2>2, <2>3 DEF Holding, Busy, Scheduling
      <3> QED
        BY <3>1, <3>2 DEF StateTells
    <2> QED
      BY <2>4, <2>5, <2>6
  <1> QED
    BY <1>5, <1>6 DEF Order, Single

LEMMA OrderStart ==
  ASSUME TypeOK, Order, OnStart
  PROVE  Order'
  <1>1. /\ Main /\ GetInstance /\ TryConnect
        /\ UNCHANGED <<handler, posted, sock, conn, dangling>>
    BY DEF OnStart
  <1>2. made \in 0..MaxManagers /\ phase \in {"none", "live"} /\ phase' = "live"
    BY <1>1 DEF TypeOK, Main, GetInstance
  <1>3. CASE phase = "live" /\ UNCHANGED <<state, tries, at, owner, early>>
    <2>1. UNCHANGED <<made, phase>>
      BY <1>1, <1>3 DEF GetInstance
    <2> QED
      BY <1>1, <1>3, <2>1, SeenSame DEF seen
  <1>4. CASE /\ phase = "live" /\ state \notin {"Connecting", "Retrying"}
             /\ ~(state = "Connected" /\ conn[made])
             /\ Connect(made') /\ state' = "Connecting"
    <2>1. made' = made /\ made \in 1..MaxManagers
      BY <1>1, <1>2, <1>4 DEF GetInstance, Order, Numbering
    <2>2. Orderly' => Orderly
      BY <1>1, <1>4 DEF Orderly, Connect
    <2>3. ASSUME Orderly', NEW a \in Attempts
          PROVE  /\ at[a] \notin Holding
                 /\ owner[a] = made' => at[a] \notin {"start", "resolve"} /\ ~(posted'[a] > 0)
      <3>1. Latest /\ StateTells
        BY <2>2, <2>3 DEF Order, Single
      <3>2. owner[a] = made =>
              at[a] \notin Holding \cup {"start", "resolve"} /\ ~(posted[a] > 0)
        BY <1>4, <3>1 DEF StateTells, Holding
      <3> QED
        BY <1>1, <2>1, <3>1, <3>2 DEF Latest
    <2> QED
      BY <1>1, <1>2, <1>4, <2>1, <2>3, AttemptAdded DEF Order
  <1>5. CASE phase = "none" /\ Connect(made') /\ state' = "Connecting"
    <2>1. made' = made + 1 /\ made' \in 1..MaxManagers
      BY <1>1, <1>2, <1>5, ServiceAssumption DEF GetInstance
    <2>2. \A a \in Attempts : owner[a] # made'
      BY <1>2, <2>1 DEF Order, Numbering, TypeOK
    <2>3. Orderly' => Orderly
      BY <1>1, <1>5 DEF Orderly, Connect
    <2>4. Orderly' => \A a \in Attempts : at[a] \notin Holding
      BY <1>5, <2>3 DEF Order, Single, Latest
    <2> QED
      BY <1>1, <1>2, <1>5, <2>1, <2>2, <2>4, AttemptAdded DEF Order
  <1> QED
    BY <1>1, <1>2, <1>3, <1>4, <1>5 DEF TryConnect

LEMMA OrderRetry ==
  ASSUME TypeOK, Order, NEW a \in Attempts, Retry(a)
  PROVE  Order'
  <1>1. /\ owner[a] = made /\ made' = made /\ phase # "none" /\ phase' = phase
        /\ made \in 0..MaxManagers
        /\ posted' = [posted EXCEPT ![a] = @ - 1] /\ posted[a] > 0
        /\ Connect(made') /\ state' = "Connecting" /\ UNCHANGED <<handler, dangling>>
    BY DEF Retry, Due, IsFreed, ProcessUnchanged, TypeOK
  <1>2. made \in 1..MaxManagers
    BY <1>1 DEF Order, Numbering
  <1>3. \A b \in Attempts :
          posted[b] \in Nat /\ posted'[b] = IF b = a THEN posted[b] - 1 ELSE posted[b]
    BY <1>1 DEF TypeOK
  <1>4. Orderly' => Orderly
    BY <1>1 DEF Orderly, Connect
  <1>5. ASSUME Orderly', NEW b \in Attempts
        PROVE  /\ at[b] \notin Holding
               /\ owner[b] = made' => at[b] \notin {"start", "resolve"} /\ ~(posted'[b] > 0)
    <2>1. Latest /\ RetryAlone
      BY <1>4, <1>5 DEF Order, Single
    <2>2. at[tries] = "loop" /\ posted[a] = 1 /\ a = handler[made]
      BY <1>1, <2>1 DEF RetryAlone
    <2>3. at[b] \notin Holding /\ (owner[b] = made => at[b] \notin {"start", "resolve"})
      BY <1>1, <2>1, <2>2 DEF Latest, Holding, Busy
    <2>4. owner[b] = made => ~(posted'[b] > 0)
      BY <1>1, <1>3, <2>1, <2>2 DEF RetryAlone
    <2> QED
      BY <1>1, <2>3, <2>4
  <1>6. \A b \in Attempts : posted'[b] > 0 => posted[b] > 0
    BY <1>3
  <1> QED
    BY <1>1, <1>2, <1>5, <1>6, AttemptAdded DEF Order

\* dispose() and its end.
LEMMA OrderDispose ==
  ASSUME TypeOK, Order, OnStop \/ OnDestroy \/ Freed
  PROVE  Order'
  <1> USE DEF config, native
  <1>1. UNCHANGED <<made, state, handler, posted, tries, at, owner, sock, early, dangling>>
    BY DEF OnStop, OnDestroy, Freed
  <1>2. CASE UNCHANGED <<phase, conn>>
    BY <1>1, <1>2, SeenSame DEF seen
  <1>3. CASE phase = "live" /\ phase' = "freeing"
    BY <1>1, <1>3 DEF Order, Numbering, Single, Orderly, Latest, RetryAlone, StateTells
  <1>4. CASE phase' = "none" /\ ~sock[made]
    BY <1>1, <1>4 DEF Order, Numbering, Single, Orderly, Latest, RetryAlone, StateTells
  <1> QED
    BY <1>2, <1>3, <1>4 DEF OnStop, OnDestroy, Dispose, Freed

\* A thread of connect(), the worker and its callbacks move; of the rest, the attempt
\* in progress is the only one that the invariant speaks about.
LEMMA OrderAttempt ==
  ASSUME TypeOK, Order, NEW a \in Attempts, AttemptStep(a) \/ Ends(a), ~ScheduleReconnect(a)
  PROVE  Order'
  <1> DEFINE Moved(stage) ==
        \A b \in Attempts : at'[b] = IF b = a THEN stage ELSE at[b]
  <1> USE DEF AttemptUnchanged, ThreadUnchanged, ProcessUnchanged
  <1>1. \A stage : Goto(a, stage) => Moved(stage)
    BY DEF Goto, TypeOK
  <1>2. /\ UNCHANGED <<made, phase, tries, handler, posted, early>>
        /\ at[a] \notin {"none", "post", "loop"}
        /\ \E stage \in Stages \ {"none"} : Goto(a, stage)
    BY DEF AttemptStep, Leaves, CallConnect, NoSocket, Socket, ConnectFails,
           ConnectSucceeds, Enter, OnConnect, Ends, OnDisconnect, Stages, Scheduling
  <1>3. \/ UNCHANGED owner
        \/ phase = "live" /\ \A b \in Attempts : owner'[b] = IF b = a THEN made ELSE owner[b]
    BY DEF AttemptStep, Leaves, CallConnect, NoSocket, Socket, ConnectFails,
           ConnectSucceeds, Enter, OnConnect, Ends, OnDisconnect, Listening, TypeOK
  <1>4. /\ made \in 0..MaxManagers
        /\ \A b \in Attempts : posted[b] \in Nat /\ owner[b] \in 0..MaxManagers
    BY DEF TypeOK
  <1>5. ~(posted[a] > 0)
    BY <1>2 DEF Order, Numbering
  <1>6. Numbering'
    <2>1. \A b \in Attempts : b # a => at'[b] = at[b] /\ owner'[b] = owner[b]
      BY <1>1, <1>2, <1>3
    <2>2. owner'[a] <= made' /\ owner'[a] # 0 /\ a <= tries'
      BY <1>2, <1>3, <1>4 DEF Order, Numbering
    <2>3. ASSUME NEW m \in Managers, handler'[m] # 0
          PROVE  at'[handler'[m]] \in {"post", "loop"} /\ owner'[handler'[m]] = m
      <3>1. handler[m] \in Attempts /\ at[handler[m]] \in {"post", "loop"} /\ owner[handler[m]] = m
        BY <1>2, <2>3 DEF Order, Numbering, TypeOK, Attempts
      <3> QED
        BY <1>2, <2>1, <3>1
    <2>4. \A b \in Attempts :
            /\ owner'[b] <= made'
            /\ at'[b] # "none" => b <= tries' /\ owner'[b] # 0
            /\ posted'[b] > 0 => at'[b] \in {"post", "loop"}
      BY <1>2, <1>5, <2>1, <2>2 DEF Order, Numbering
    <2> QED
      BY <1>2, <2>3, <2>4 DEF Order, Numbering
  <1>7. Orderly' => Orderly
    BY <1>2 DEF Orderly, AttemptStep, Leaves, CallConnect, NoSocket, Socket, ConnectFails,
           ConnectSucceeds, Enter, OnConnect, Ends, OnDisconnect
  <1>8. ASSUME Orderly' PROVE Latest' /\ RetryAlone' /\ StateTells'
    <2>1. Latest /\ RetryAlone /\ StateTells
      BY <1>7, <1>8 DEF Order, Single
    <2>2. ~dangling'
      BY <1>8 DEF Orderly
    <2>3. a # 0 /\ a \in Attempts
      BY DEF Attempts
    <2> USE <1>1, <1>2, <1>4, <1>5, <2>1, <2>3
        DEF Latest, RetryAlone, StateTells, Holding, Busy, Scheduling
    <2>4. CASE CallConnect(a)
      <3>1. /\ at[a] = "start" /\ Moved("resolve") /\ owner[a] = made /\ phase # "none"
            /\ UNCHANGED <<owner, state, sock, conn>>
        BY <2>4 DEF CallConnect, IsFreed
      <3> QED
        BY <3>1
    <2>5. CASE NoSocket(a)
      <3>1. /\ at[a] = "resolve" /\ Moved("schedule") /\ owner[a] = made /\ phase # "none"
            /\ UNCHANGED <<owner, state, sock, conn>>
        BY <2>2, <2>5 DEF NoSocket, IsFreed
      <3> QED
        BY <3>1
    <2>6. CASE Socket(a)
      <3>1. /\ at[a] = "resolve" /\ Moved("handshake") /\ owner[a] = made /\ phase # "none"
            /\ UNCHANGED <<owner, state, conn>>
        BY <2>2, <2>6 DEF Socket, IsFreed
      <3>2. sock'[made]
        BY <2>6, <3>1 DEF Socket, TypeOK, Order, Numbering, Managers
      <3> QED
        BY <3>1, <3>2
    <2>7. CASE ConnectFails(a)
      <3>1. /\ at[a] = "handshake" /\ Moved("schedule")
            /\ UNCHANGED <<owner, state, sock, conn>>
        BY <2>7 DEF ConnectFails
      <3> QED
        BY <3>1
    <2>8. CASE ConnectSucceeds(a)
      <3>1. /\ at[a] = "handshake" /\ Moved("entering")
            /\ UNCHANGED <<owner, state, sock, conn>>
        BY <2>8 DEF ConnectSucceeds
      <3> QED
        BY <3>1
    <2>9. CASE Enter(a)
      <3>1. /\ at[a] = "entering" /\ Moved("oncb")
            /\ UNCHANGED <<owner, state, sock>>
        BY <2>9 DEF Enter
      <3>2. conn'[made]
        BY <2>9, <3>1 DEF Enter, TypeOK, Order, Numbering, Managers
      <3> QED
        BY <3>1, <3>2
    <2>10. CASE OnConnect(a)
      <3>1. /\ at[a] = "oncb" /\ Moved("up") /\ UNCHANGED <<owner, sock, conn>>
            /\ a = tries /\ owner[a] = made
        BY <2>10 DEF OnConnect
      <3>2. phase = "live" => state' = "Connected"
        BY <2>10 DEF OnConnect, Listening
      <3> QED
        BY <3>1, <3>2
    <2>11. CASE Ends(a)
      <3>1. /\ at[a] = "up" /\ Moved("bye") /\ UNCHANGED <<owner, state>>
            /\ a = tries /\ owner[a] = made
        BY <2>11 DEF Ends
      <3> QED
        BY <3>1
    <2>12. CASE OnDisconnect(a)
      <3>1. CASE phase = "live"
        <4>1. /\ at[a] = "bye" /\ Moved("schedule") /\ a = tries
              /\ \A b \in Attempts : owner'[b] = IF b = a THEN made ELSE owner[b]
              /\ UNCHANGED <<state, sock, conn>>
          BY <2>12, <3>1 DEF OnDisconnect, Listening, TypeOK
        <4> QED
          BY <3>1, <4>1
      <3>2. CASE phase # "live"
        <4>1. /\ at[a] = "bye" /\ Moved("gone") /\ UNCHANGED <<owner, state, sock, conn>>
          BY <2>12, <3>2 DEF OnDisconnect, Listening
        <4> QED
          BY <3>2, <4>1
      <3> QED
        BY <3>1, <3>2
    <2> QED
      BY <2>4, <2>5, <2>6, <2>7, <2>8, <2>9, <2>10, <2>11, <2>12 DEF AttemptStep, Leaves
  <1> QED
    BY <1>6, <1>8 DEF Order, Single

\* scheduleReconnect() of the manager there is, whose only busy attempt is the one
\* that runs it, or of one that was disposed of.
LEMMA OrderSchedule ==
  ASSUME TypeOK, Order, NEW a \in Attempts, ScheduleReconnect(a)
  PROVE  Order'
  <1> DEFINE Moved(stage) ==
        \A b \in Attempts : at'[b] = IF b = a THEN stage ELSE at[b]
  <1> USE DEF AttemptUnchanged, ThreadUnchanged, ProcessUnchanged
  <1>1. \A stage : Goto(a, stage) => Moved(stage)
    BY DEF Goto, TypeOK
  <1>2. /\ UNCHANGED <<made, phase, tries, owner, sock, conn, early, dangling>>
        /\ at[a] \in Scheduling
        /\ \E stage \in Stages \ {"none"} : Goto(a, stage)
    BY DEF ScheduleReconnect, Schedule, Count, CancelSchedule, Prepare, CreateHandler, Post,
           Stages, Scheduling
  <1>3. /\ a # 0 /\ made \in 0..MaxManagers
        /\ \A b \in Attempts : posted[b] \in Nat /\ owner[b] \in 0..MaxManagers
        /\ \A m \in Managers : handler[m] \in 0..MaxAttempts
    <2>1. a # 0
      BY DEF Attempts
    <2> QED
      BY <2>1 DEF TypeOK
  <1>4. owner[a] # 0 /\ owner[a] <= made /\ owner[a] \in Managers /\ a <= tries
    BY <1>2, <1>3 DEF Order, Numbering, Scheduling, Managers
  <1>5. at[a] = "post" => at'[a] = "loop"
    BY <1>1 DEF ScheduleReconnect, Schedule, Count, CancelSchedule, Prepare, CreateHandler, Post
  \* What becomes of the handlers and of the retries.
  <1>6. \/ UNCHANGED <<handler, posted>>
        \/ /\ CancelSchedule(a) /\ UNCHANGED handler
           /\ \A b \in Attempts : posted'[b] = IF b = handler[owner[a]] THEN 0 ELSE posted[b]
        \/ /\ CreateHandler(a) /\ UNCHANGED posted /\ Moved("post")
           /\ \A m \in Managers : handler'[m] = IF m = owner[a] THEN a ELSE handler[m]
        \/ /\ Post(a) /\ UNCHANGED handler
           /\ \A b \in Attempts :
                posted'[b] = IF b = handler[owner[a]] THEN posted[b] + 1 ELSE posted[b]
    <2>1. CASE CancelSchedule(a)
      BY <2>1 DEF CancelSchedule
    <2>2. CASE CreateHandler(a)
      BY <1>1, <2>2 DEF CreateHandler, TypeOK
    <2>3. CASE Post(a)
      BY <2>3 DEF Post, TypeOK
    <2> QED
      BY <2>1, <2>2, <2>3 DEF ScheduleReconnect, Schedule, Count, Prepare
  <1>7. Numbering'
    <2>1. ASSUME NEW m \in Managers, handler'[m] # 0
          PROVE  at'[handler'[m]] \in {"post", "loop"} /\ owner'[handler'[m]] = m
      <3>1. CASE handler'[m] = handler[m]
        <4>1. /\ handler[m] \in Attempts
              /\ at[handler[m]] \in {"post", "loop"} /\ owner[handler[m]] = m
          BY <1>3, <2>1, <3>1 DEF Order, Numbering, Attempts
        <4> QED
          BY <1>1, <1>2, <1>5, <3>1, <4>1 DEF Scheduling
      <3>2. CASE handler'[m] = a /\ m = owner[a] /\ Moved("post")
        BY <1>2, <3>2
      <3> QED
        BY <1>6, <2>1, <3>1, <3>2
    <2>2. ASSUME NEW b \in Attempts, posted'[b] > 0
          PROVE  at'[b] \in {"post", "loop"}
      <3>1. at[b] \in {"post", "loop"}
        <4>1. CASE posted[b] > 0
          BY <4>1 DEF Order, Numbering
        <4>2. CASE b = handler[owner[a]]
          BY <1>3, <1>4, <4>2 DEF Order, Numbering, Attempts
        <4> QED
          BY <1>3, <1>6, <2>2, <4>1, <4>2
      <3> QED
        BY <1>1, <1>2, <1>5, <3>1 DEF Scheduling
    <2>3. \A b \in Attempts :
            owner'[b] <= made' /\ (at'[b] # "none" => b <= tries' /\ owner'[b] # 0)
      BY <1>1, <1>2, <1>4 DEF Order, Numbering
    <2> QED
      BY <1>2, <2>1, <2>2, <2>3 DEF Order, Numbering
  <1>8. ASSUME Orderly' PROVE Latest' /\ RetryAlone' /\ StateTells'
    <2>1. Latest /\ RetryAlone /\ StateTells
      BY <1>2, <1>8 DEF Order, Single, Orderly
    \* The scheduler of an older manager, or over none, leaves the rest alone.
    <2>2. CASE owner[a] # made \/ phase = "none"
      <3>1. phase = "live" => UNCHANGED state
        BY <2>2 DEF ScheduleReconnect, Schedule, Count, CancelSchedule, Prepare, CreateHandler,
                    Post, SetState
      <3>2. ASSUME phase # "none", NEW b \in Attempts, owner[b] = made
            PROVE  posted'[b] = posted[b] /\ at'[b] = at[b]
        <4>1. handler[owner[a]] # b
          BY <1>3, <1>4, <2>2, <3>2 DEF Order, Numbering, Attempts
        <4> QED
          BY <1>1, <1>2, <1>6, <2>2, <3>2, <4>1
      <3>3. phase # "none" => handler'[made] = handler[made]
        BY <1>3, <1>6, <2>2 DEF Order, Numbering, Managers
      <3>4. \A b \in Attempts : at'[b] \in Holding \cup {"bye"} => at'[b] = at[b]
        BY <1>1 DEF ScheduleReconnect, Schedule, Count, CancelSchedule, Prepare,
                    CreateHandler, Post, Holding
      <3>5. Latest'
        BY <1>2, <2>1, <3>2, <3>4 DEF Latest
      <3>6. at[tries] = "loop" => at'[tries] = "loop" \/ tries \notin Attempts
        BY <1>1, <1>2 DEF Scheduling
      <3>7. RetryAlone'
        <4> SUFFICES ASSUME NEW b \in Attempts, phase # "none", owner[b] = made, posted'[b] > 0
                     PROVE  /\ tries # 0 /\ at'[tries] = "loop"
                            /\ posted'[b] = 1 /\ b = handler'[made]
          BY <1>2 DEF RetryAlone
        <4>1. tries # 0 /\ at[tries] = "loop" /\ posted[b] = 1 /\ b = handler[made]
          BY <2>1, <3>2 DEF RetryAlone
        <4>2. tries \in Attempts
          BY <4>1 DEF TypeOK, Attempts
        <4> QED
          BY <3>2, <3>3, <3>6, <4>1, <4>2
      <3>8. StateTells'
        BY <1>2, <2>1, <3>1, <3>2 DEF StateTells
      <3> QED
        BY <3>5, <3>7, <3>8
    \* The manager there is has no other attempt and no retry.
    <2>3. CASE owner[a] = made /\ phase # "none"
      <3>1. a = tries /\ at[tries] # "loop"
        BY <1>2, <2>1, <2>3 DEF Latest, Busy, Scheduling
      <3>2. \A b \in Attempts : owner[b] = made => posted[b] = 0
        BY <1>3, <2>1, <2>3, <3>1 DEF RetryAlone
      <3>3. \A b \in Attempts :
              /\ at[b] \notin Holding /\ at[b] # "bye"
              /\ b # a /\ owner[b] = made => at[b] \notin Busy
        BY <1>2, <2>1, <2>3, <3>1 DEF Latest, Busy, Scheduling, Holding
      <3>4. Latest'
        <4>1. at'[a] \in Scheduling \cup {"loop", "gone"}
          BY <1>1 DEF ScheduleReconnect, Schedule, Count, CancelSchedule, Prepare,
                      CreateHandler, Post, Scheduling
        <4> QED
          BY <1>1, <1>2, <3>1, <3>3, <4>1 DEF Latest, Holding, Scheduling
      <3>5. \A b \in Attempts : owner[b] = made /\ posted'[b] > 0 =>
              /\ Post(a) /\ UNCHANGED handler
              /\ b = handler[made] /\ posted'[b] = 1
        BY <1>3, <1>6, <2>3, <3>2
      <3>6. RetryAlone'
        <4>1. Post(a) => at'[a] = "loop"
          BY <1>1 DEF Post
        <4> QED
          BY <1>2, <1>3, <3>1, <3>5, <4>1 DEF RetryAlone
      <3>7. StateTells'
        <4>1. /\ at'[a] \in Scheduling => state' = "Retrying" \/ phase # "live"
              /\ Post(a) => state' = "Retrying" \/ phase # "live"
              /\ at'[a] \in Scheduling \cup {"loop", "gone"}
          BY <1>1, <2>1, <2>3 DEF ScheduleReconnect, Schedule, Count, CancelSchedule, Prepare,
                      CreateHandler, Post, Scheduling, StateTells, SetState
        <4>2. \A b \in Attempts :
                b # a /\ owner[b] = made => at'[b] \notin Busy \cup Holding
          BY <1>1, <1>2, <3>3
        <4> QED
          BY <1>2, <3>5, <4>1, <4>2 DEF StateTells, Holding, Busy, Scheduling
      <3> QED
        BY <3>4, <3>6, <3>7
    <2> QED
      BY <2>2, <2>3
  <1> QED
    BY <1>7, <1>8 DEF Order, Single

LEMMA OrderStep == TypeOK /\ Order /\ [Next]_vars => Order'
  <1> SUFFICES ASSUME TypeOK, Order, [Next]_vars PROVE Order'
    OBVIOUS
  <1>1. CASE Set \/ StartPush \/ StopPush \/ OnReceive \/ Restart \/ UNCHANGED vars
    <2>1. UNCHANGED seen
      BY <1>1 DEF Set, StartPush, StopPush, OnReceive, Restart, vars, manager, native, seen
    <2> QED
      BY <2>1, SeenSame
  <1>2. CASE NullPointer \/ Kill
    BY <1>2, FreshOrder DEF NullPointer, Kill, Die
  <1>3. ASSUME NEW a \in Attempts, AttemptStep(a) \/ Ends(a) PROVE Order'
    BY <1>3, OrderAttempt, OrderSchedule
  <1> QED
    BY <1>1, <1>2, <1>3, OrderStart, OrderRetry, OrderDispose DEF Next, MainStep

LEMMA OrderInit == Init => Order
  BY DEF Init, Order, Numbering, Single, Latest, RetryAlone, StateTells, Busy, Scheduling,
         Holding

LEMMA Invariance == Spec => [](TypeOK /\ Order)
  <1>1. Init => TypeOK /\ Order
    BY TypeInit, OrderInit
  <1>2. TypeOK /\ Order /\ [Next]_vars => (TypeOK /\ Order)'
    BY TypeStep, OrderStep
  <1> QED
    BY <1>1, <1>2, PTL DEF Spec

\* In an orderly process g_self_global_ref_ names the client of every worker that has
\* more than its disconnect callback to call, and that client is not freed.
THEOREM OwnCallbacks == Spec => []CallbacksReachTheirOwn
  <1>1. Order => CallbacksReachTheirOwn
    BY DEF Order, Single, Latest, CallbacksReachTheirOwn, Holds
  <1> QED
    BY <1>1, Invariance, PTL

\* Until a connect() comes early or a thread goes on in a freed client, attempts come
\* one after the other: never two at a time, never two retries, and none of either
\* with the other.
THEOREM OrderlyIsOneByOne == Spec => []OneAfterTheOther
  <1>1. ASSUME TypeOK, Order, Orderly, NEW a \in Attempts, NEW b \in Attempts
        PROVE  /\ (Underway(a) \/ Holds(a)) /\ (Underway(b) \/ Holds(b)) => a = b
               /\ Waiting(a) => posted[a] = 1 /\ ~Underway(b) /\ (Waiting(b) => a = b)
    <2>1. Latest /\ RetryAlone
      BY <1>1 DEF Order, Single
    <2>2. \A c \in Attempts : Underway(c) \/ Holds(c) => c = tries
      BY <2>1 DEF Latest, Underway, Holds, Busy
    <2>3. \A c \in Attempts : Waiting(c) =>
            posted[c] = 1 /\ c = handler[made] /\ at[tries] = "loop"
      BY <2>1 DEF RetryAlone, Waiting
    <2>4. Underway(b) => at[b] # "loop"
      BY DEF Underway, Holding, Scheduling
    <2> QED
      BY <2>2, <2>3, <2>4
  <1>2. TypeOK /\ Order => OneAfterTheOther
    BY <1>1 DEF OneAfterTheOther
  <1> QED
    BY <1>2, Invariance, PTL

-----------------------------------------------------------------------------
(* Settings *)

\* Settings are numbered as they are made, and those in memory, once they are
\* loaded or set in this process, are at least those that were saved.
Loaded ==
  /\ mem <= sets /\ disk.settings <= sets
  /\ inited => mem >= disk.settings

LEMMA LoadStep ==
  ASSUME TypeOK, Loaded, LoadConfig
  PROVE  mem' >= disk.settings /\ mem' <= sets
  BY DEF TypeOK, Loaded, LoadConfig, Settings

\* A step that calls connect(), and the others.
LEMMA NextConnects ==
  ASSUME TypeOK, Loaded, [Next]_vars
  PROVE  /\ Loaded'
         /\ tries' > tries => used' >= disk.settings
  <1> USE DEF config, manager, native
  <1>1. /\ mem \in Nat /\ sets \in Nat /\ tries \in Nat /\ disk.settings \in Nat
        /\ disk \in [settings : Settings, inited : BOOLEAN]
    BY DEF TypeOK, Settings
  <1>2. CASE UNCHANGED <<mem, inited, disk, sets, tries>>
    BY <1>1, <1>2 DEF Loaded
  <1>3. CASE Set
    BY <1>1, <1>3 DEF Set, Loaded
  <1>4. CASE StartPush
    BY <1>1, <1>4 DEF StartPush, Loaded
  <1>5. CASE OnReceive
    BY <1>1, <1>5, LoadStep DEF OnReceive, Loaded
  <1>6. ASSUME NEW m, Connect(m), UNCHANGED <<disk, sets>>
        PROVE  Loaded' /\ used' >= disk.settings
    BY <1>1, <1>6, LoadStep DEF Connect, Loaded
  <1>7. CASE OnStart
    BY <1>2, <1>6, <1>7 DEF OnStart, TryConnect
  <1>8. ASSUME NEW a \in Attempts, Retry(a)
        PROVE  Loaded' /\ used' >= disk.settings
    BY <1>6, <1>8 DEF Retry, ProcessUnchanged
  <1>9. CASE NullPointer \/ Kill
    <2>1. mem' = 0 /\ ~inited' /\ tries' = 0 /\ UNCHANGED <<disk, sets>>
      BY <1>9 DEF NullPointer, Kill, Die, Fresh
    <2> QED
      BY <1>1, <2>1 DEF Loaded
  <1>10. ASSUME NEW a \in Attempts, AttemptStep(a) \/ Ends(a)
         PROVE  UNCHANGED <<mem, inited, disk, sets, tries>>
    BY <1>10 DEF AttemptStep, Leaves, CallConnect, NoSocket, Socket, ConnectFails,
           ConnectSucceeds, Enter, OnConnect, Ends, OnDisconnect, ScheduleReconnect,
           Schedule, Count, CancelSchedule, Prepare, CreateHandler, Post,
           AttemptUnchanged, ThreadUnchanged, ProcessUnchanged
  <1>11. CASE StopPush \/ OnStop \/ OnDestroy \/ Freed \/ Restart \/ UNCHANGED vars
    BY <1>2, <1>11 DEF StopPush, OnStop, OnDestroy, Freed, Restart, vars
  <1> QED
    BY <1>2, <1>3, <1>4, <1>5, <1>7, <1>8, <1>9, <1>10, <1>11 DEF Next, MainStep

\* No connect, in whatever process, uses settings older than those that startPush
\* saved last.
THEOREM SettingsAreKept == Spec => NeverOlderThanStarted
  <1>1. Init => TypeOK /\ Loaded
    BY TypeInit DEF Init, Loaded
  <1>2. TypeOK /\ Loaded /\ [Next]_vars => (TypeOK /\ Loaded)'
    BY TypeStep, NextConnects
  <1>3. TypeOK /\ Loaded /\ [Next]_vars => [tries' > tries => used' >= disk.settings]_vars
    BY NextConnects
  <1> QED
    BY <1>1, <1>2, <1>3, PTL DEF Spec, NeverOlderThanStarted
=============================================================================
