# Verification of ipush_client

TLA+ models of the push client in this repository, TLC configurations that check
them on small instances, and TLAPS proofs of what matters most. Names in the
modules are those of the source where TLA+ allows it; line numbers are those of the
sources next to this directory (`src/`).

## 1. The system

The client keeps one connection to a push server. It connects with an HTTP
request, then both ends exchange frames (`<hex length>CRLF<content>CRLF`). Messages
carry a sequence number that the client acknowledges; a heartbeat is sent when
nothing else happens; the connection is made again, by the Android library, when it
ends.

| component | source | state it keeps | operations |
|---|---|---|---|
| `SocketClient` | `cpp/src/socketclient.{h,cc}` | `sock_fd_`, `is_connected_`, `write_queue_`, `current_read_packet_`, `last_seq_`, the notify pipe | `Connect`, `Send`/`Publish`/`Subscribe`/`Unsubscribe`, `Close`, `WaitForClose`, destructor; in the worker thread `Loop`, `HandleRead`, `HandleWrite`, `SendAck`, `SendHeartbeat` |
| `Packet`, `BufferReader` | same files | phase and bytes left of the frame being read or written; a buffer of 4096 bytes | `Packet::Read`, `Packet::Write`, `ReadLine`, `Read`, `Shrink`, `AddToBuffer` |
| `BlockingQueue`, `BoundedBlockingQueue` | `cpp/src/blocking_queue.h` | a queue, a mutex, two condition variables | `Push`, `Pop`, `TryPop`, `Front`, `Clear` |
| HTTP handshake | `Connect` (233-350), `cpp/src/util.h` | `option_.host` and `option_.port`, the rest within the call | status, redirects with `ParseIpPort`, what arrives along with the response |
| sequence numbers | `HandleRead`, `SendAck`, and a server | `last_seq_`, the acks in `write_queue_`; the server's list of messages not acknowledged | hand over, acknowledge, send again |
| `Message` | `cpp/src/message.h` | one JSON value | typed fields, `Serialize`, `Unserialize` |
| `XPushManager`, `XPushService` | `android/.../XPushManager.java`, `XPushService.java`, `XPushReceiver.java` | `mInstance`, `mState`, `mRetryCount`, `mReconnectHandler` | `startPush`, `stopPush`, `tryConnect`, `disconnect`, `dispose`, the client's callbacks, the scheduled retry, `onStartCommand`, `onDestroy`, `onReceive` |
| `XPushConfig` | `android/.../XPushConfig.java` | settings in memory and in the preferences | setters, `setInited`, reload after a restart |
| JNI bridge, `XCometClient` | `android/src/main/jni`, `com/ipush/xcomet` | `g_self_global_ref_`, one for all clients; `mNativeHandler` | forwards calls and callbacks |
| browser and Node.js clients | `javascript/`, `nodejs/` | a WebSocket, a keepalive timer, four callbacks | `send`, `publish`, `sub`, `unsub`, `close`, heartbeats, acks |
| jsoncpp, logging, examples | `cpp/deps`, `cpp/src/logging.*`, `examples/` | – | – |

How they interact, and what is hard about it:

- `Connect` runs in the application's thread and ends by detaching a worker thread.
  From then on the two share `sock_fd_`, `is_connected_` and the queues without a
  lock (only `write_queue_` has one).
- A sender pushes to `write_queue_` and then writes a byte into the notify pipe; the
  worker looks at the queue, then at the pipe in `poll()`, and drains the pipe last.
  Whether a push or a `Close()` can fall between two of these is an ordering question.
- `Close()` only stores `false` and notifies; the destructor waits until the worker
  has reset `sock_fd_`, the worker calls one more callback after that.
- Bytes are cut anywhere by `read()` and `write()`; the phase kept in a `Packet`, and
  the packet at the front of the queue, outlive a connection.
- The callbacks of the worker run `XPushManager`'s code, which is not synchronized
  with `tryConnect`; retries run on the looper of whichever thread failed first.
- `Connect` makes one `recv()`, of a response that may be cut anywhere, and calls
  itself for a redirect; the server sends again what was not acknowledged, while the
  client acknowledges a sequence number only once.
- The Android service disposes of a manager and makes another in the same process,
  while threads and retries of the first one are still about; all native clients call
  back through one global reference. The system kills the process and starts a sticky
  service again, with the settings that were saved.
- The JavaScript clients restart their timer with every packet, whether or not there is
  a connection, and run the application's callbacks in the middle of their handlers.

What makes each component correct: one worker at a time and a socket of its own, no
lost wake-up, messages in order and once, acks that rise and are not lost, `Close` and the
destructor that end (`SocketClient`); frames that survive every cut, an end of
connection that is neither missed nor invented (`Packet`); no thread asleep over an
element or a place (`BlockingQueue`); never two connections, bounded retries, and no
waiting for a connect that nobody makes (`XPushManager`); a server that forgets only what
was handed over, and nothing that never arrives (sequence numbers); no connection for a
stopped service, the right settings in a new process (`XPushService`, `XPushConfig`); one
timer, stopped in time, and an ack before every message (JavaScript).

## 2. Modules

| module | models | composed of |
|---|---|---|
| `SocketClient` | the client, its application, worker threads, the kernel's sockets and pipe, the server | instance of `MessageOutbox` |
| `MessageOutbox` | what the write queue promises: packets are written in the order they were accepted, each once | – |
| `MCSocketClient` | symmetry for TLC | `SocketClient` |
| `SocketClientProofs` | five theorems about the threads of `SocketClient` | `SocketClient` |
| `SocketClientWireProofs` | three about what it puts on its connections | `SocketClientProofs` |
| `PacketFormat` | the bytes of a frame | – |
| `PacketWriter` | `Packet::Write` under `HandleWrite`, one `write()` at a time | `PacketFormat` |
| `PacketReader` | `BufferReader`, `Packet::Read`, `HandleRead`, one `read()` at a time | `PacketFormat` |
| `PacketStream`, `PacketStreamProofs` | both ends of a connection; implements `MessageOutbox`; four theorems | `PacketWriter`, `PacketReader` |
| `BlockingQueue`, `BlockingQueueProofs` | both queue classes; three theorems and type correctness | – |
| `Handshake` | the answer to the request of `Connect`, redirects, the frames behind the header | – |
| `AckSession`, `AckSessionProofs` | sequence numbers and acks against a server that sends again, connections lost, the process killed; three theorems | `Handshake` |
| `PushManager`, `PushManagerProofs` | `XPushManager` over an abstract client; five theorems | – |
| `PushService`, `PushServiceProofs` | the service, its settings and its managers in a row, the process; four theorems | – |
| `WebSocketClient`, `WebSocketClientProofs` | the browser's and the Node.js client; four theorems | – |

### SocketClient

A step of the model is what a thread does between two points where another thread can
see or change a shared field. The worker's program counter follows `Loop`: `spawned`
(before line 353), `oncb` (connect callback), `test` (the `while`), `read`
(`HandleRead`; `ack` before an ack is pushed), `write` and `pop` (`HandleWrite`), `arm`
(filling `pfds`, 361-369), `poll`, `drain`, then `clear`, `shut`, `unset`, `bye` for
lines 406, 408, 409, 410. Sockets are numbered in the order `Connect` opens them, 0 is
the -1 of `sock_fd_`, and a worker bears the number of the socket it was started for;
which socket it really uses is `sock_fd`, as in the code. A write takes a packet whole,
in part, or not at all. `told`, `wire` and `delivered` record callbacks, packets taken
by the kernel and messages handed over.

The application is as careful as the API lets it be: it calls `Connect` when no worker
is left (it waited for the disconnect callback) and closes a connection that has
started. `Liberties` gives it more freedom, each taken from code of the repository:
`reconnect_early` (connect as soon as `isConnected()` is false, what
`XPushManager.tryConnect` does), `close_before_connect` and `close_after_failure` (what
`examples/linux/main.cc` does).

Abstractions: frames and packets are whole units here, their bytes are
`PacketStream`'s; a `write()` on a socket that is shut down returns -1 (SIGPIPE ignored,
as on Android); `::poll` may fail for a signal (`PollError`); sockets are never
`::close`d by the code, and are not reused in the model either; the two workers that
`reconnect_early` allows really race on `current_read_packet_`, of which only the
frames read are kept. `Reconnect()` (416-432) has no caller.

The destructor is `destroying` before the `Notify` of its `Close()` and `waiting` in
`WaitForClose`. There are three ways in which it stays there: `NobodyDrains` (the pipe
is full and no worker is left to drain it), `NobodyResets` (a `Connect` that failed
behind `socket()` has left a number in `sock_fd_`) and `Overwritten` (the new worker's
`is_connected_ = true` came after the `Close()`). `DestructorReturns` starts at the
destructor's first step and names them.

### Packet modules

`PacketWriter` has `state_`, `left_`, `buf_start_` and one action for each branch of
`Packet::Write`, with `HandleWrite`'s test `ret == pkt->Size()` in `WritePart`. A refused
`write()` returns -1, which is less than `left_` as well, so the code adds one to `left_`
and goes one byte back; what lies before the buffer is `Stray`. `PacketReader` keeps
`start_` as `offset` and the bytes up to `end_` as `held`. Its `read()` returns as much as
has arrived and there is room for, 0 if there is no room or the peer has closed, -1
otherwise. The number in a header is a single byte (contents shorter than 16); JSON
text and the checks on it belong to `SocketClient`.

### BlockingQueue

One action is what a thread does while it holds the mutex. `notify_one` wakes any one of
the threads asleep on that condition, and a thread may wake without a notification.
`quietly` counts the places that `TryPop` and `Clear` free: neither notifies
`condition_full_`.

### PushManager

A thread `<<"call", n>>` is the one `connect()` starts for the n-th attempt and
`<<"work", n>>` the worker it gets; both may run `scheduleReconnect`, and `Looper.loop()`
does not return. `mState`, `mRetryCount` (load and store apart) and `mReconnectHandler`
are read and written one step at a time, since only `tryConnect` is synchronized. The
native client is reduced to `isConnected()`, a `connect()` that fails or starts a worker,
and a worker that goes from its connect callback to its disconnect callback.

### Handshake and AckSession

The header of a response is the sequence of the parts that `strstr` looks for (`200`, `303`,
`http://`, the URL, the blank line). `recv()` has no timeout, so a server that accepts the
connection and says nothing keeps `Connect` for ever (`Silence`); servers that redirect to
one another do the same (`circular`, `Circle`): `Connect` calls itself, until descriptors or
stack run out, which the model does not count. `Recv` takes a prefix of it, and after a
whole header some of the frames the server has sent; `Verdict` is what the tests of 301-336
make of that prefix. A response that says 200 but whose blank line has not arrived makes
`data_start` a `NULL` plus 4 and fails the `CHECK` of `AddToBuffer`; a 303 cut before
`http://` passes a `NULL` to `strstr`: both are `Crash`. `ParseIpPort` needs a colon and a
slash after it; of a URL without a port but with a colon in its path it takes half the path
for the host, which has no address. Each `Connect` begins with the host that
`XPushManager.connect` sets (`Call`), since a redirect has overwritten `option_`.

`AckSession` puts a server at the other end. It is external: it numbers messages, sends on
a new connection at least those that are not settled, in order, and takes an ack for one
message or for all up to it (both are checked). The client reads frames in order, hands
each to `message_cb_`, and queues an ack if the number is above `last_seq_`. The write
queue and `last_seq_` survive a connection (`Lose`) and not a process (`Die`, `Restart`).
The queue holds acks only: what the application sends and the heartbeats are left to
`SocketClient`. An ack is written whole, in part or not at all (`WriteAll`, `WritePart`,
`WriteRefused`). `part` says whether the first one is `"begun"` on this connection or
`"bent"`: begun on an earlier one, or moved by the -1 of a refused write, so that what
follows of it is no frame. From the moment such bytes go out (`garbled`) the server can
read nothing more on this connection, and the acks written there are `lost`. Received
frames are whole here: that bytes make frames is `PacketStream`'s business.

### PushService

All entry points of the library run on Android's main thread, so each is one action, but for
`dispose()`: it stays in `WaitForClose` (`phase = "freeing"`) while other threads go on.
Managers are numbered, the client of manager *m* bears its number, and attempts are numbered
across managers; `at` says where the thread of an attempt is: in `connect()`, then, if that
succeeds, in `Loop`, or else in `scheduleReconnect`, and at last in `Looper.loop()`.
`scheduleReconnect` is taken step by step (set the state, count, cancel, prepare, create the
handler, post), on any thread and for any manager, also one that was disposed of; `posted`
counts the retries on each looper and may exceed one. A callback reaches the manager made
last, through `g_self_global_ref_`, if it still has a listener; a disconnect callback that
is late therefore makes the next manager schedule a retry. What a thread finds of a manager
that was disposed of is what the code would find: a null `mPushClient` (`NullPointer`, the
process dies), or a client that has been freed under it, in which it goes on here as if the
memory were still there (`dangling`). `early` records that `connect()` was called while the
thread of an earlier attempt was still to report its end, or to schedule a retry for the
same manager. Both are ordinary executions; `Orderly` is the condition that neither has
happened yet. `Fresh` is a new process: static fields have their initial values; `disk`
stays. `tryConnect` is one step here and so is `onConnect`; their reads and writes one by
one, and `disconnect()`, are `PushManager`'s. `connect()` of the native client returns.

### WebSocketClient

JavaScript runs one handler at a time, so a handler with the callback in it is one action.
A callback may return, send, close or throw. `platform` chooses the code: where they differ
the action says so. `live` is the set of intervals that have not been cleared, `timer` the
number in `keepAliveTimer_`. A frame is the sequence number of its message; `NoSeq` is one
without (also a frame that is no JSON: its ack is the one of an undefined number), `Null`
the JSON `null`, for which `seq()` throws, and `Binary` a frame that is not text. What the
module shows of the code besides its properties: Node.js does not listen for
`connectFailed`; its timer is not cleared when the connection closes (heartbeats go on to a
closed connection); an `onOpen` that throws leaves a connection without a heartbeat; an
`onError` that throws is caught by nobody. Not in the module: `sub` and `unsub` of the
browser send `this.channelId`, which nothing sets, instead of their argument.

## 3. What is checked

Passing runs:

| run | configuration | bounds (states) | shows |
|---|---|---|---|
| `sessions` | `MCSocketClient_sessions.cfg` | 2 senders with a message each, 2 sockets, 1 heartbeat, pipe of 1 byte, two of the three `Liberties` (1 328 000) | `SocketOwned`: a worker uses only its own connection; `NoLostWakeup`, `CloseNoticed`: `poll()` is not entered over a message or a `Close()` unless a byte is, or is about to be, in the pipe; `CutOnlyFirst`: what another connection began is finished before anything else; `OnlyCallbackLeft`: the destructor returns over a worker that has at most its last callback to call; `OutboxSpec`: `MessageOutbox` is implemented, over both connections and with partial and refused writes |
| `progress` | `MCSocketClient_progress.cfg` | 1 sender with 2 messages, 2 sockets, pipe of 1 byte, two of the three `Liberties` (131 000) | `CloseEnds`: a `Close()` ends every worker but one that was coming up and overwrote it; `DestructorReturns`: whatever the destructor finds (no connection, one that comes up, is up or goes, a `Connect` that failed, a full pipe), it comes to its end but for the three cases of section 2, each of which occurs; `SenderReturns`, `MessagesGoOut` |
| `frames` | `MCSocketClient_frames.cfg` | 2 frames of all kinds, sequence numbers up to 2, 2 sockets (929 000) | `AcksInOrder`: acks rise, follow their message, and survive a reconnect; `EarlyFramesRead`: what came with the HTTP response is read without another byte |
| `packets` | `PacketStream_packets.cfg` | 2 packets of 1 or 5 bytes, a buffer of 9, 1 refused write (299 000) | `WholeUnlessRefused`: a packet is on the stream byte for byte exactly if no `write()` for it was refused; `ClosedAtTheEnd`: the reader takes the connection for closed after every whole packet, `ChannelSpec` (the connection implements `MessageOutbox`), `EverythingArrives`, `EndNoticed` |
| `acks` | `AckSession_acks.cfg` | 2 messages, 3 servers, 1 frame behind a header, 3 failures (99 500) | `SettledIsDelivered`: the server forgets only what `message_cb_` has had; `NoGap`: messages are handed over in order; `SocketsShut`: one socket or none; `EveryMessageArrives`; `AckedUnlessLost`: what was handed over is settled unless its ack was written in vain: under way when the connection ended, cut over two connections, or behind bytes out of place; `ConnectReturns`. These three hold unless a server is silent for ever or servers redirect in a circle |
| `manager` | `PushManager_manager.cfg` | 2 start commands, 1 disconnect, 1 loss, 5 attempts, 2 retries (302 000) | `WaitsForSomething`; `DisconnectHolds`: with nothing pending, `disconnect()` is undone only by `tryConnect`; with one start command `RetriesBounded`, `OneConnectionPerChain`, `WaitEnds` |
| `service` | `PushService_service.cfg` | 2 managers, 2 attempts, 1 change of settings, 1 intent on its way, 1 kill (227 000) | in an orderly process, `CallbacksReachTheirOwn`: a worker that has more than its disconnect callback to call belongs to the client `g_self_global_ref_` names, which is not freed; `OneAfterTheOther`: attempts, connections and retries come one at a time; in any, `NeverOlderThanStarted`: settings saved by `startPush` are used in every process; `StopReturns`: a stop of a connected client ends; `ComesBack`: a killed service that was started connects again |
| `queue` | `BlockingQueue_queue.cfg` | 3 producers, 3 consumers, 2 places (18 500) | `PoppersWoken`, `PushersWoken`: while a consumer (producer) sleeps, no fewer of them are awake than there are elements (places) |
| `websocket` | `WebSocketClient_websocket.cfg` | 3 frames, sequence numbers up to 2, all sets of callbacks (134 000) | `OneTimer`: no interval runs that cannot be cleared; `SilentAfterClose`; `CrashesOnlyForApplication`: a heartbeat finds no connection only if the application sent too early; `HandedIsAcked`; `NeverSilent`: a connection that has sent anything gets heartbeats |

The type invariant of each module is proved for every value of the constants (section 4),
and so is `NotAllAsleep` of `BlockingQueue`; no run repeats them.

The bounds are enough for the interesting cases to occur: two sockets for everything that
one connection leaves to the next; a pipe of one byte so that senders block; two frames for
a repeated, a lower and a higher sequence number; a frame longer than the buffer, and
lengths that leave its header and its CRLF cut at every place; three threads of a kind so
that one is woken, one sleeps and one comes in between; one retry that fails again. The real
buffer has 4096 bytes and shrinks below 10, the model's has 9 and shrinks below 3: it holds
a header and a whole small frame, and not a large one. Three servers make a redirect after a
redirect; three failures are, for instance, a redirect to no host, a connection lost with
its acks and a process killed; two messages are one whose ack is cut or lost and one behind
it. Two managers and two attempts are a manager disposed of, its thread or its retry left
over, and the connect of the next one; that three attempts do not change this is what the
proofs of section 4 say for any number. `MAX_RETRY_COUNT` is 3, as in the code.

`CHECK_DEADLOCK FALSE` is set where the system may stop: the client is freed, the bounds
are used up, or a worker waits in `poll()` with nothing to come. The queue never stops,
because of spurious wake-ups, and there deadlock is checked.

Runs that find a disagreement with what the source says of itself:

| run | property | what TLC shows |
|---|---|---|
| `freed` | `NoUseAfterFree` | `sock_fd_ = -1` lets the destructor return while the worker has `disconnect_cb_` still to call |
| `twice` | `OneConnection` | `tryConnect` tests `mState` more than once while a callback changes it, and connects a client that is connected |
| `late` | `OneConnectionPerUser` | a disconnect callback that comes after the next `connect()` schedules a retry, which connects the client a second time |

Other consequences of the same models, without a run of their own:

- With `Liberties = {"reconnect_early"}` a `Connect` before the first worker has left gives
  two workers on one queue, and one pops what the other wrote (`OutboxSpec` fails; the log
  line of 495 says "dangerous").
- With `"close_before_connect"`, as in `examples/linux/main.cc` (42), a `Close()` between the
  creation of the worker and its `is_connected_ = true` is overwritten and the connection
  goes on: `CloseEnds` and `DestructorReturns` (`Overwritten`) need the exception.
- With `"close_after_failure"`, as there (41-44), nothing resets the `sock_fd_` that a
  `Connect` failed with behind `socket()`, and the destructor waits for ever
  (`NobodyResets`).
- A frame written in part is taken up in the middle on the next connection (the field `cut`,
  the `part` of `AckSession`); in `PacketWriter`, after a refused write a partial one can
  return just `Size()`, and the rest of the packet is never sent.
- A 200 without its blank line in the one `recv()` brings the process down at the `CHECK` of
  `AddToBuffer` (`Crash`).
- Sockets are shut down and never closed: each connection, redirect and failure leaves a
  descriptor behind.
- A stop command while a thread is in `connect()` before `socket()`: the destructor returns
  at once, and the freed client opens a connection (`dangling`).

### Fairness

Steps of a worker, a sender between push and notify, and the thread in `Close()` or the
destructor are weakly fair: they are threads that the operating system runs. The
server reads what it is sent (`ServerRead`), without which no client could write. Not
fair: connecting, sending and closing by the application, frames from the server, the
keepalive timeout, errors of `poll()`. In `PacketStream` the network delivers, the reader
runs, and the peer writes on unless it closes. In `PushManager` threads run, `connect()`
returns and a posted retry comes due; starts, disconnects and losses are not fair.

In `AckSession` the client connects again when it can, both ends read what they are sent,
the kernel takes what is written, and the system starts a dead process again; failures,
refused writes and new messages need not happen, and a server need not answer: `recv()` has
no timeout. Failures are bounded, and at the bound the answer of a server, if it comes, is
one that helps (`Helpful`): liveness is about what happens once failures stop. The two ways
in which `Connect` does not return are named in the properties and not excluded by fairness:
`Silence` and `Circle`. In `PushService` the main thread handles its commands, the threads
of an attempt run (`Ends`, a loss, is not fair, `Leaves`, the end of a closed connection,
is), and the system starts a process again; retries and the application's calls are not
fair. `StopReturns` is stated for a connection that was up in an orderly process: after a
`Connect` that failed past `socket()` the destructor waits for ever, on the main thread. In
`WebSocketClient` a timer that is due fires.

`WaitEnds`, `RetriesBounded` and `OneConnectionPerChain` are stated for one start
command. With two, two chains of connects and retries can exist (run `twice`), which
share `mRetryCount` and the client: `OneConnection` and the bound on the retries do not
hold then, and nothing is claimed about `WaitEnds`.

`sessions` is checked up to a permutation of the senders: they run the same code, and
none of its properties names one of them. `BlockingQueue` is checked for the bounded
queue only; the proofs cover both.

## 4. What is proved

Assumptions are only the named `ASSUME`s of the modules: bounds are natural numbers,
producers and consumers are finite and disjoint, `MAX_RETRY_COUNT` is at least one, a
content has 1 to 15 bytes, and a header fits into the buffer.

- `SocketClientProofs`: `TypeCorrect`, for every application. `OwnsItsSocket`,
  `NoWakeupIsLost`, `CloseIsNoticed` and `DestructorLeavesCallback` for every application
  that makes no new connection before the last worker has left (`"reconnect_early"` is not
  in `Liberties`); it may close when it likes.
  `SocketOwned` is not inductive: that a `Connect` finds no worker rests on the disconnect
  callback being the last thing a worker does. `Ownership` adds which callback each worker
  made last, that there is at most one worker, and that workers are numbered no higher than
  the sockets opened. Given one worker, `NoLostWakeup /\ CloseNoticed` is inductive: a
  drain is followed by the test and by `arm`, so a byte that it swallows belongs to a push
  or a close that these see. `OnlyCallbackLeft` needs that no worker starts once the
  destructor runs (`Ending`), and that `sock_fd_` is the worker's until it resets it.
- `SocketClientWireProofs`, under the same assumption. `KeepsTheOrder`: `Spec => OutboxSpec`;
  `WriteAll` maps to `Write` of `MessageOutbox`, a push (of a sender, of a heartbeat, of an
  ack) to `Accept`, the rest to stuttering. `Front` is what it needs: a worker that is
  about to pop finds the queue not empty, since there is no other worker to pop.
  `CutComesFirst`, from `Fragments`: only the front packet has bytes on a socket,
  and if that is not the newest socket, nothing is on the newest one. `AcknowledgesInOrder`,
  from `AckTrail`: what has been acknowledged is no higher than `last_seq_`, and lower while a
  worker is between raising it and `SendAck`, which finds it unchanged; the application has
  had the message of every number acknowledged and of `last_seq_`.
- `AckSessionProofs`: `TypeCorrect`, `NothingIsForgotten`, `InOrder`, for any number of
  servers, messages and failures. `Flow`: the frames between server and `message_cb_`
  (first the reader's, then the network's) are consecutive numbers up to the last one
  published, and all before them have been handed over; `Waits` is the same for a
  connection whose response has not been looked at. `AcksDelivered`: acks that are queued or
  under way are of messages handed over. From these `NoGap` and `SettledIsDelivered` are
  inductive: a gap in the frames would let an ack for all messages up to a number settle
  one that was never seen.
- `PushManagerProofs`: `NeverWaitsForNothing`, `DisconnectIsHeld`. `WaitsForSomething` is
  inductive together with the types of the program counters and the fact that a thread
  about to post has a handler to post to (`Posting`); the action property follows from it.
  `TypeCorrect`, and `OneAtATime` and `RetriesAreBounded` for one start command: `Chain` says
  that a single thread is active at any time, in `connect()`, in its worker or with the one
  retry that is posted, and none while `tryConnect` is about to start; `Counting` follows the
  calls of `connect()`, one ahead of `mRetryCount` until `Count` catches up. `Numbered` is
  needed for a retry to be posted to a thread that does nothing else.
- `PacketStreamProofs`: for any number of packets and refusals, a buffer of any size and
  bytes cut anywhere (contents have at most 15 bytes, as everywhere in these modules).
  `TypeCorrect` and `WrittenWhole`: `Out` relates the stream to `buf_start_`: each refused
  `write()` leaves it one byte behind, so the packet becomes longer than it should be
  (`OutWhole`), unless `HandleWrite` takes a part for the whole, and then a byte from before
  the buffer is on the stream (`OutEarly`). `ClosesAtTheEnd` and `ReadsInOrder`
  (`Spec => ChannelSpec`): neither is inductive, since it depends on where in the stream the
  reader is. `Follows` says it: what has been consumed ends where a packet ends, or within
  the content of the next one, and what is held are the bytes behind (`Lies`). `PacketLies`
  gives these bytes from the writer's invariants; so the first line in them is a header and
  its number the length that was written (`HeaderThere`), a content with nothing left to read
  is the one written (`BodyThere`) and its first CR LF is the one that `SetContent` put there
  (`BodyCut`). `NothingMore`: where `read()` is called the buffer cannot be full, so 0 is the
  end of the stream and not a lack of room.
- `PushServiceProofs`: `TypeCorrect`, `OwnCallbacks`, `OrderlyIsOneByOne`,
  `SettingsAreKept`, for any number of managers, attempts, intents and kills, and any
  `MAX_RETRY_COUNT`. The invariant `Order` says, of every execution, that attempts and their
  managers are numbered in the order they were made and that a handler is on the looper of a
  thread of its manager (`Numbering`); and, of an orderly one, that only the last attempt
  holds a connection, is on its way to one, schedules a retry or reports its end (`Latest`),
  that a retry was posted by it, once, when it was over (`RetryAlone`), and that `mState`
  tells which of these it is (`StateTells`). So the steps of `scheduleReconnect` have nobody
  to interleave with as long as the process is orderly; once it is not, run `late` shows
  what happens. For the settings, in any execution: they are loaded, or
  `inited` is false, and then `connect()` loads them (`Loaded`).
- `WebSocketClientProofs`: `OneTimerRuns`, `ClosedIsSilent`, `CrashIsOfApplication`,
  `AckComesFirst`. Needed besides the properties: `conn_` is defined while the connection is
  open or about to close (`Connected`), and an interval that runs while it is not was started
  by an early packet (`Heartbeats`).
- `BlockingQueueProofs`: `TypeCorrect` (the bound is kept), `NoLostElement`, `NoLostPlace`,
  `NeverAllAsleep`, for both queues. The invariants count threads: each action changes
  `Cardinality(Awake(S))` by what lemmas `WakesUp`, `GoesAway` and `Relieved` say. Needed
  besides: nobody sleeps in the `Push` of an unbounded queue.

Every invariant, every action property and both refinements that the passing runs check are
stated by one of these theorems. Only model-checked: the properties under fairness
(`CloseEnds`, `DestructorReturns`, `SenderReturns`, `MessagesGoOut`, `EarlyFramesRead`,
`EverythingArrives`, `EndNoticed`, `EveryMessageArrives`, `AckedUnlessLost`,
`ConnectReturns`, `WaitEnds`, `StopReturns`, `ComesBack`, `NeverSilent`): the prover does
not handle `ENABLED`, which weak fairness is made of. So do contents of more than 15 bytes:
the length is one byte of the model, and the hexadecimal text of a number would be a
recursion over its digits.

## 5. What is not modelled, and the plan

What could be added, in this order:

1. Proofs of what the liveness properties rest on, as invariants: that a worker in `poll()`
   with something to write or to read has an event to come, that a thread in the destructor
   waits for a worker that exists.
2. `SocketClient`: a `message_cb_` that sends (a full pipe then blocks the only thread that
   drains it). No callback of the repository does.
3. `Handshake`: a response that fills the 1024 bytes, which then has no terminating zero.

Left out for good: jsoncpp and the text of messages, packets and `protocol.js`; time (a
timeout may come at any `poll()`, an interval may be over at any moment); logging, the
Android user interface and broadcasts of messages, constants; the lookup of classes and
methods in the JNI bridge (its exported names say `com_xuexibao_xcomet`, the Java class is
in `com.ipush.xcomet`); the memory model (a stale read of a field without a lock).
