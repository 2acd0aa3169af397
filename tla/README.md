# Verification of smfcpp

TLA+ models of smfcpp, a small robotics-style framework (nodes, timers,
recvers, executors) with a tcp client and server, and the sensor
applications built on them.  The models are read off the C++ sources under
`src/`; TLC checks them on small instances and TLAPS proves the most
important safety properties for every instance.

- [The system](#the-system): the parts, their state, how they interact
- [What is hard](#what-is-hard): the behaviours the properties are about
- [The modules](#the-modules): which module models which code, and how
- [The runs](#the-runs): what TLC checks, with which bounds, and why they suffice
- [Fairness](#fairness)
- [The proofs](#the-proofs)
- [What the checks found](#what-the-checks-found)
- [What is left out](#what-is-left-out)
- [Plan](#plan)

## The system

A program creates *nodes*; a node owns *callback groups*, a group holds
*timers* and *recvers*.  Nodes are added to an *executor*, whose `spin()` starts
a thread behind every timer and recver and then lets its worker(s) look for
one that is ready and run its callback.

| component | source | state | operations | must be right |
|---|---|---|---|---|
| Recver | `smfcpp/{src/recver.cpp,include/recver.hpp}` | `m_ready`, `m_mutex`, `m_condv`, one detached listener thread | `start`, `listen`, `get_ready`, `execute_callback` | check function and callback never overlap, no event erased, the listener resumes |
| Timer | `smfcpp/{src/timer.cpp,include/timer.hpp}` | `m_ready`, `m_running`, one detached thread per `start` | `start`, `stop`, `get_ready` | `stop` ends the ticking, a running timer ticks forever |
| Callback group | `smfcpp/src/callback_group.cpp` | lists of weak pointers, a mutex, an unread type | `add_timer`, `add_recver`, `activate`, `get_ready_timer`, `get_ready_recver` | every member is started once and found when ready |
| Executor | `smfcpp/{src,include}/executor.*` | `o_callback_groups`, `m_spinning`, `m_wait_mutex` | `add_node`, `spin`, `run`, the scan, the execution | each object gets the threads its group's entries ask for; who can starve whom |
| Node interfaces | `smfcpp/src/node*.cpp`, `include/create_obj.hpp` | the groups of a node, its default group | `create_callback_group`, `create_timer`, `create_recver` | members only of groups of the node |
| tcp framing | `smfcpp_tcp/*/tcp.*` | none | `sendn`, `recvn`, `PackHead` | head and payload stay together on the wire |
| tcp::Server | `smfcpp_tcp/*/tcp.*` | `m_readfds`, `m_tmpfds`, `m_max_fd`, `m_hearts_mp`, `m_mutex_mp` | check function (`select`), callback (`accept`, heads, payloads), `send_heart`, `keep_alive`, `losed_clinet_handle` | the records of a client agree; the silent are given up and only they |
| tcp::Client | `smfcpp_tcp/*/tcp.*` | `m_socket_fd`, `m_is_connected`, `m_hearts`, `m_mutex` | `connect_to_server`, `connect_ensure`, `send_data`, `recv_data`, `send_heart`, `keep_alive` | reconnects without mixing the frames of two connections |
| UartServer | `smfcpp_server_application` | log files | `recv_callback` | a frame goes to the log of its farm and sensor |
| Device cache | `smfcpp_client_application/src/uart_sensor_control.cpp` | a YAML file; the addresses of the devices | register, remove, clear, list | the file and the devices agree; no update is lost |
| UartSensorClient | `smfcpp_client_application/src/uart_sensor_client.cpp` | request buffers, an inotify watch | `collect_data`, `sync_device_cache` | every change of the cache reaches the server |
| Uart, addressing | `smfcpp_tool/src/uart.cpp`, `uart_sensor_control.cpp` | the serial line, its input queue, the addresses of the sensors | `send`, `receive`, `change_addr`, `set_addr` | an answer is read by whoever asked; one sensor is moved, and it is said truly |
| CRC | `smfcpp_tool/include/crc.hpp` | the static request arrays of its callers | `crc_comlete`, `reverse` | what is sent passes the sensor's check |
| Cameras, Python console, log, configuration | the rest | none of interest | vendor calls, menus, output | |

How they interact:

- Every recver and every timer has a detached thread of its own, which shares
  one atomic flag with the executor.  The executor's worker runs all callbacks;
  every program of the repository uses a `SingleThreadedExecutor`.
- The tcp server's check function (listener thread) and its three callbacks
  (worker) share the fd sets without a lock.  Recver keeps the check function
  away from the recver's callback and from nothing else.
- The tcp client creates its recver and its timers at its first successful
  connection, which may be inside a callback, after `spin()` has activated the
  groups.
- UartSensorClient is a tcp client; a timer collects data over the serial line, a
  recver watches the cache file which the consoles (other processes) change.
- Collector and console open the same serial device; the answers to both land in one
  input queue.
- Frames are sent by whichever thread calls `send_data` or `send_heart`; the client's
  `m_mutex` keeps head and payload together.

## What is hard

`PROJECT.json` lists the hazards at their lines.  In short:

- *interleaving*: listener against worker, ticker against worker and `stop()`,
  check function against keep-alive sweep;
- *lost wakeup*: `m_ready` is cleared and the condition notified without the
  mutex of the wait;
- *unclaimed events*: a recver is found ready by a load, a timer by an exchange;
- *order of registration*: nodes added twice, objects created too late;
- *starvation*: every scan starts at the first group;
- *stale descriptors*: a number closed by the sweep is given to a new client
  while an fd set still names it;
- *blocking*: the only worker waits in `recv` for the rest of a frame or in `send` for room, or sleeps in `connect_ensure`;
- *the file in between*: the cache is read, changed and rewritten in place without a
  lock, with the serial line in between, by processes that may fail half way;
- *unwatched changes*: the client watches the file only while it waits for an event;
- *answers taken for others*: late, short, lost or taken by the other user of the line;
- *partial sends and receives*, a connection that breaks inside a frame, a mutex held
  while the socket is full, a payload is awaited or a connection is made;
- *counts*: `m_max_fd` after its client is lost, the hearts of a used-again number.

## The modules

```
EventChannel          what a recver promises
   ^ implements
Recver   Timer        the two kinds of executables, one thread each
   ^       ^
   +-- Executor       nodes, groups, spin, scan, execution; composes both
TcpServer, TcpClient  use EventChannel as their recver
Framing               frames on a connection; implements FrameChannel
DeviceCache           the cache file; implements Registry while calls do not overlap
SensorBus, Crc        the serial line, and the checksum on it
ExecutableProofs (of Recver and Timer), ExecutorProofs, FramingProofs,
TcpServerProofs, TcpClientProofs, DeviceCacheProofs, SensorBusProofs,
CrcProofs             theorems
MCRecver, MCExecutor  instances for TLC
```

**EventChannel** is the abstract specification of a recver: `rest`, `watching`,
`event`, `handling`, in this cycle, with a way back from `watching`.

**Recver** has one action per access to shared state.  `listener` is the program
counter of `listen()`, `exec` that of a worker in `execute_callback()`, `r_ready`
is `m_ready`.  `Test` and `Block` are the two halves of `m_condv.wait(lock, pred)`:
the predicate is evaluated with `m_mutex` held (`block`), the release and the
sleep are atomic (`blocked`).  The worker never takes `m_mutex`, so `Clear` and
`Notify` may fall between the two, and they are two steps.  `m_ready` has no
initialiser; `UninitReady` is the set of values memory may have held.  `fresh` is a
history variable: reported and not yet taken.  `SpuriousWake` is what the C++
standard allows.

**Timer** has `start`, `stop`, the ticker's loop and `get_ready`.  Time is left out: a
sleep ends at any moment, which covers every interval and every delay.  `stop()` has
no caller in the repository; the module checks what it would do.  Its names say Timer where Recver has the same, so that proofs can extend both.

**Executor** instantiates Timer and Recver (`T`, `R`) and conjoins their actions
with its own: `started` is where the loop of `activate_callback_groups` stands, in the list
of groups and in the members of one; `ActivateNext` is its next `start()`,
`ActivateNextGroup` its step to the next group;
`ExamineTimer` and `ExamineRecver` are a `get_ready` inside the walk over a list
(`cursor` is where the walk stands, `m_wait_mutex` is held in `scan` and `sleep`),
`FinishTimer`, `ClearRecver` and `NotifyRecver` are the ends of the two kinds of
callback.  A thread is named by the entry of `o_callback_groups` it was started
for, so that a group entered twice starts its members twice, as in the code.
`Late` names the objects that callbacks create after the workers have started;
`MayCreate` says that applications otherwise set up first and then spin.

**TcpServer** models `tcp::Server` between the kernel and its worker.  The
worker's loops `for(fd = 0; fd <= m_max_fd; ++fd)` are walks over the descriptors
of a set in increasing order (`Due`, `VisitIn`, `at`), with the bound read afresh
each time round, as the code does.  `phase` is the recver's EventChannel (shown for
Recver, with one worker), so the check function (`CopyFds`, `CallSelect`,
`SelectReturns`) never runs beside `walk`, but does run beside the timers'
callbacks.  The recver starts in either phase of `BornIn`, because `m_ready` has no initialiser; one
that is born ready walks over `m_tmpfds` first, which has none either and starts as any set of
descriptors.  `LosedClient` is the whole of `losed_clinet_handle`.  `guarded` is the
mutex a `lock_guard` holds; `unlock_recv` and `unlock_send` are the moments between
`losed_clinet_handle` and the end of the guard's scope.  The peers are the environment: they send
hearts, data frames (a head and a body) and frames of unknown type, stop reading, and close or break the
connection.  A part arrives whole (`Send`) or with its first bytes first (`SendSome`, `partly`): `select()`
reports those, and `recvn` waits for the rest, of a head as of a body.  A peer that stops reading
(`StallsOrReads`, `full`) makes the send of a heart wait.

**TcpClient** models `tcp::Client`: `conn` is the connection of `m_socket_fd`, `pc` and
`after` are the worker in a callback and the place `connect_ensure` returns to
(`ensure`, `connect`, one attempt per turn).  `CloseSocket` closes whatever the socket was;
`Connect` is `connect_to_server` on success, with the hearts restored.  `served` says
whether the first connection succeeded before `spin()`, for otherwise the recver and the
heart and keep-alive timers are created too late to be started (`ThreadPerEntry` in
Executor says what happens to late objects): `phase` is `none` until a later `Connect`, and a recver
that is then born ready gets one callback.  The server sends pieces and stops reading as in TcpServer.  `polled` is the connection that
`select()` was called for, which the kernel keeps until `select()` returns even
if the worker closes it meanwhile.  `m_mutex` is taken only by callbacks, of which one runs
at a time.

**Framing** is one connection between the threads that send and the callback that
receives, byte by byte where TcpClient and TcpServer know only whole parts and parts that
have begun to arrive.  A thread that takes `m_mutex` (`Lock`) comes to `connect_ensure`, and from
there to `send_data` or `send_heart` (`Begin`), to the `recv` of a payload in `recv_data`
(`BeginRecv`), or, if the client is not connected, to closing the socket and connecting anew, where
this module ends for it (`elsewhere`).  `KeepAlive` gives the connection up without the mutex.  `nleft` is that of `sendn`; each `SendSome` is one `send()` that takes
as much as the socket has room for, each `RecvSome` one `recv()`.  A unit in the
socket carries the index of its frame and its place in it, so that the receiver's
frame is `Garbled` unless it is made of the very units that were sent for it.
**FrameChannel** is the promise: frames arrive whole, in the order in which their senders got the mutex.

**DeviceCache** follows a call of `UartSensorControl` from access to access of the
file: `LoadMissing`, `Create`, `LoadToSave` are `get_device_cache` and what is decided on its
result, `SetAddr` the request to the sensor, `Truncate` and `Write` the opening of the
output stream and its closing, which is when the text reaches the file.  Two streams
that are open at once write from the start of the file, so the later text lies over the
earlier: `Write` leaves the new content, both, or a text that does not parse.
`phase` is the EventChannel of `device_cache_syncer`; `Watch` makes the inotify watch,
`modified` is its event.  An exception in a console goes back to its menu, one in the
client ends the process (`Throw`).  History: `given` (addresses that sensors got), `missed`
(changes nobody watched, since the last reading), `overlapped`.  **Registry** is the
abstract set of sensors; `Registered` maps a save in progress to its result.

**SensorBus** has the two users of the line, `wire` (answers under way) and `rx` (the
input queue both read).  `Send` is a request with what the sensors make of it: those with the address
may hear it or not, a sensor moves before it answers, two answers are noise.  `Select`,
`Read` and `Timeout` are `Uart::receive`, which returns nothing, part of an answer, or what
another request left.  The console compares the echo (`Tried`), the collector compares nothing.
`clean` and `sure` are history: what the properties have to assume about a request or about
a whole `set_addr`.  An answer of 15 or 19 bytes is two chunks, an echo one.

**Crc** is `crc_comlete` on `uint16_t`, for data of any length, with the static arrays it
is applied to, against the definition of the checksum as a division of polynomials over GF(2).
A word is the set of its bits that are 1, so that `^` is the symmetric difference (`\oplus`), `<<` is
`Up` without bit 16 and `>>` is `Down`; a polynomial is the set of its exponents.  The two loops
are the recursive functions of `AddByte` and `Register`.  `Accepted` is the receiver's
side, by long division (`Remainder`), and shares no loop with the code.

## The runs

The longest, `server_two` and `framing`, take about two minutes, `client` one and a half; the
others finish within a minute or so.

| run | instance | shows |
|---|---|---|
| `recver_one_worker` | two recvers, one listener and one worker each, `m_ready` of any value | exclusion, no erased event, `IInv`, the waiting listener is woken, and Recver implements EventChannel |
| `timer` | one timer, up to three `start()`s | `stop()` ends all tickers, even revived ones; a running timer ticks forever |
| `executor_single` | one node, two groups, recvers r1, r2 and timer t1 from the start, r3 and t2 created by a callback, one worker | the composition keeps what Recver keeps for each recver; every object has a thread for each entry of its group and no other, the late ones none |
| `executor_multi` | two timers and a recver, two workers | only what is earlier in the scan starves the rest |
| `server_two` | descriptors 4 and 5, two hearts, one frame part under way and the beginning of one | records agree, `m_max_fd` is watched, a head's `recv` waits only for the rest of a head or for a new client under an old descriptor, only the silent are given up, and they are unless the worker is stuck in a `recv` or a `send` or `m_max_fd` hides the client |
| `client` | two hearts, two attempts, two frame parts under way | a payload comes from the connection of its head unless that had been given up; a head's `recv` waits only for the rest of a head or on a connection that `select()` was not called for; the client connects again unless stuck in a `recv` or a `send`; only the silent are given up |
| `device_cache` | two consoles, two ids, the sensor client | nothing is named that has no address; a watching client's server is up to date unless a change was missed, and ends up so unless its worker is held up; while calls do not overlap the cache is a Registry |
| `sensor_bus` | two sensors, addresses 0 to 2 with `max_addr` 1, three chunks on the line | a report is the asked sensor's if its request was clean; a sure `set_addr` moves the sensor with the lowest address and no other; every call ends |
| `framing` | two threads, four frames of up to two units behind a head of two, room for three | Framing implements FrameChannel; what is begun arrives unless the server turns to the client no more; a thread keeps the mutex for good only if the server keeps it waiting |
| `crc` | ten addresses, two requests | every request is divisible |
| `recver_lost_wakeup` | one recver | **violated**: detection resumes after a callback |
| `server_max_fd` | two client descriptors | **violated**: `m_max_fd` is the largest watched descriptor |

Why the bounds are enough:

- *Recver*: recvers share nothing, so two show each other's independence; the proofs
  cover every number.  One listener and one worker is the program as run.
- *Timer*: timers share nothing.  Three tickers let a ticker of an earlier
  `start()` be revived by a later one while a third has ended.
- *Executor*: two groups make the order of groups and of kinds matter; three recvers give one in each
  group and one created late.  Two workers are enough for one to be examining while the other runs a callback.  `AddLimit` (how
  often a node is added) is 1, as the repository runs it; with 2, `executor_single`
  finds `CheckCallbackExclusion` violated.
- *TcpServer*: with two clients one is the largest descriptor and the other is
  not, and both orders of losing them occur.  `MaxOpenFd` bounds the descriptors,
  `InboxLimit` the whole parts in flight (one here and two in `client`; the beginning of a next part
  comes on top once they are read), `MaxHearts` the count (two: a first, a last and one between restoring
  and giving up; the code has more, but every step of the count is alike).
  `Connect` keeps the backlog within the free descriptors: `accept` does not
  fail.
- *TcpClient*: three names of connections are enough, for the current one, the one in
  `select()` and that of the pending head are all that is held at a time; names are
  used again, so nothing bounds the number of reconnects.  `MaxReconnects` is 2, so
  that a loop can fail and then succeed, and can fail altogether.

- *DeviceCache*: two consoles and the client give three processes on the file, of which any two
  may overlap; two ids let a call add to, or take from, what another has saved.  Nothing
  bounds the number of calls, failures or restarts.
- *SensorBus*: with `MaxAddr` 1 the scan has an address where it starts and one where it
  ends, and sensors beyond it; two sensors may share an address.  `LineLimit` 3 leaves room
  for a late answer before a whole one.
- *Framing*: a head and a payload of two units are cut in the middle, and socket room
  for three makes the cuts fall anywhere; frames without payload, of both types, occur.
- *Crc*: the addresses set each bit and all of them; the state between requests is the
  content of the arrays, which two requests reach.

Every passing property has a mutant in `PROJECT.json`: a definition of the same
module with a plausible bug (a claim instead of a load, a callback that does not
notify, a kept `m_max_fd`), under which TLC finds the property violated.

`executor_single`, the timer and the recver runs check for deadlock.  The server's
and client's do not: SIGPIPE ends the process (`pc = "dead"`), after which nothing moves;
nor do those whose bounds (`framing`, `crc`) or callers (`device_cache`, `sensor_bus`) run out.

## Fairness

- *Recver*: a thread that can take a step takes it, and a callback that began ends (weak
  fairness of `Test`, `Block`, `Store`, `Clear`, `Notify`).  No fairness for the
  check function (it may block), for spurious wakeups, or for the executor's turn.
- *Timer*: detached threads run and sleeps end.
- *Executor*: weak fairness of each worker as a whole, of the tickers and of
  `spin()`.  `std::mutex` promises no order among waiters, so no worker is owed
  strong fairness.
- *TcpServer*: a callback that can go on does.  `StartKeepAlive` has strong
  fairness: the keep-alive timer is ready every few seconds, timers come before
  recvers in the scan, the two timers have equal intervals, so a worker that
  keeps becoming idle turns to it.  Nothing is owed by peers, and none is assumed for
  the listener thread, which may be stranded by the lost wakeup.
- *TcpClient*: a callback that can go on does.  For a client whose timers have threads, strong fairness
  of *either* the heart or a send of the application: a worker that keeps becoming idle finds the heart
  timer in its scan, unless the application's older timer takes every scan, which it can only by calls that collect
  and send.  The application's timer alone is owed nothing: `collect_data` sends nothing when no device is
  registered.  `ReconnectsUnlessBlocked` assumes of a client without a heart timer that its application
  sends again and again.
- *DeviceCache*: the client's worker goes on in `collect_data` and in the callback, and so does a `read()`
  that has an event.  The event's turn (`TakeEvent`) is owed nothing, because timers come first in the scan and `collect_data`
  may outlast its interval; nor is the return of `send_data`, which may wait for the server.  Both are
  `HeldUp` in `SyncedInTheEnd`.  Nothing is owed by consoles, and the listener need not watch again (the
  lost wakeup).
- *SensorBus*: a user in a call goes on, because `select` has a timeout.
- *Framing*: a thread inside a call goes on when the socket has room, and the receiver reads on in a frame it
  has begun to read (`Reading`).  That it turns to the next frame is *not* assumed: its listener may be stranded, `m_max_fd` may hide
  the client, and its worker may wait for another peer.  `Unattended` names that outcome, and both
  liveness properties except it.  The server owes no payload to `recv_data`.

## The proofs

Every invariant, every action property and every refinement that a passing run checks is also
a theorem, for every value of the constants.  Each module of theorems names its
inductive invariant `IInv` (or says what it is made of); TLC has checked these on the
instances of the runs before they were proved.

### Recver and Executor

`ExecutableProofs`, for all sets of recvers and threads:

| theorem | statement |
|---|---|
| `TypeCorrect` | `Spec => []TypeOK` |
| `ExclusionWhenSpawnedOnce` | `Spec /\ []SpawnedOnce => []CheckCallbackExclusion` |
| `NothingErasedWhenSpawnedOnce` | `Spec /\ []SpawnedOnce => []NoEventErased` |
| `ImplementationWhenSpawnedOnce` | `Spec /\ []SpawnedOnce => ImplementsChannel` (every such behaviour is one of EventChannel) |
| `IInvHolds`, `Exclusion`, `NothingErased`, `Implementation` | the same, with at most one listener to begin with |

All but the first assume one worker.  `SpawnedOnce` says that no recver has two
listener threads: it is what the executor guarantees when every node is added once,
and it is necessary, because with two listeners exclusion is lost.

Neither exclusion nor `NoEventErased` is inductive.  A listener inside the check
function excludes the callback only because `m_ready` is down all that while:
`IInv` adds that `m_ready` is down from predicate to store (`DownWhileDetecting`), up
during the callback (`UpWhileHandling`), and that a reported event is still up and not in
a callback (`FreshNotHandled`).  Each action moves one recver, so the step is proved
for that recver (`ListenerSound`, `WorkerSound`) and carried over to the others
(`OthersSound`).  The refinement uses the same split: a step moves the phase of one
channel along the cycle, or none (`ListenerSimulates`, `WorkerSimulates`).

`ExecutorProofs`, for all nodes, groups, timers, recvers and workers:

| theorem | assumes | statement |
|---|---|---|
| `TypeCorrect` | | `Spec => []TypeOK` |
| `TimersImplemented`, `RecversImplemented` | | `Spec => T!TimerSpec`, `Spec => R!Spec` |
| `ThreadEach` | | `Spec => []ThreadPerEntry` |
| `Exclusion`, `NothingErased`, `Implementation` | `AddedOnce`, `OneWorker` | `Spec => []CheckCallbackExclusion`, `Spec => []NoEventErased`, `Spec => ImplementsChannel` |

`AddedOnce` (`AddLimit = 1`) and `OneWorker` are how every program of the repository
runs its executor; both are needed (*What the checks found*).  The argument goes in three
parts.

- *The registry* (`RegistryInv`): a node lists a group of its own and once, a group lists
  objects that were created in it, and an entry of `o_callback_groups` is told from all
  others by its group and the call of `add_node` it came with (`EntriesCounted`).  The last
  bounds the entries by `AddLimit` times the groups, so that a `start()` always has a
  thread name that T and R know: hence each step of the executor is one of Timer and
  of Recver, or leaves them alone, and the two refinements follow.
- *The threads* (`ThreadsInv`): the threads that exist are exactly those of the objects
  that the activation has passed (`ThreadsStarted`), which needs the order of `spin()`
  (`SpinOrdered`).  That is `ThreadPerEntry`: one thread per entry of the object's group, however many there
  are.  `SpawnedOnce` follows when no group is entered twice.
- *The theorems of `ExecutableProofs`*, instantiated with the entries as listeners, then give
  the last row without another invariant.

`ExecutableProofs` also holds `TimerTypeCorrect`, the types of Timer for all timers and tickers, on which
`TypeCorrect` of the executor rests.

### Tcp

`FramingProofs`, for all threads, all lengths of heads and payloads, all room in the
socket and every number of frames: `Implementation`, `Spec => ImplementsChannel`.
`IInv` looks at the units that are read of the current frame followed by those in
the socket, as one sequence (`Stream`): it starts at the beginning of the first frame that was not received
(`StartsAtCurrent`), goes on in order (`InOrder`), and ends where the
thread that sends will go on, unless the connection broke (`SenderFollows`).  A
`recv()` moves the boundary inside the stream, a `send()` appends the next
units, and a whole frame at its start can only be `begun[Current]`.  `Holding` says that a thread outside a call
does not hold the mutex and any other holds it alone, and that the one that sends (`Sending`) sends the frame that was
begun last; without it two senders could both be next.  `recv_data` and `connect_ensure` keep the
stream as it is, or end the connection.

`TcpServerProofs`, for every range of descriptors and every `MAX_HEARTS`:

| theorem | statement |
|---|---|
| `TypeCorrect` | `Spec => []TypeOK` |
| `RecordsCorrect` | `Spec => []RecordsAgree` |
| `MaxFdCorrect` | `Spec => []MaxFdIsWatched` |
| `HeadRecvIsPrompt` | `Spec => []HeadRecvWaitsForRestOrNewClient` |
| `KeepAliveIsPatient` | `Spec => GivenUpOnlyWhenSilent` |
| `FramesInStep` | `Spec => []ReadsInStep` (defined beside it): a payload is read where its head was read before it, and nowhere else |
| `RecverIsAChannel` | `Spec =>` `phase` starts in `BornIn` and moves as EventChannel says, until SIGPIPE ends the process |

Here `IInv` joins the records and `m_max_fd` with three facts: the worker sends to clients
only (`FdsAreKnown`, without which the listening socket could be given up), there are as many
free descriptors as connections in the backlog (`BacklogFits`, without which `accept`
hands out nothing), and hearts left and sweeps missed of a client add up to
`MAX_HEARTS` (`HeartsAreCounted`).  Five actions give a client up;
`LosedClientSound` is their common part.  The new `m_max_fd` is watched because the
listening socket always is.  For the head's `recv`, `EventInv` adds that a descriptor which
`select()` reported and the walk has not come to is still readable, perhaps by the first bytes of a
head only, or was given to a new client by this very callback (`EventIsReadable`), and that the listener thread rests
meanwhile (`EventIsHandled`).  A callback without a `select()`, of a recver born ready, can find a client
only by accepting it.

`FramesInStep` shows that the model needs no action for a `recv` that takes one part of a frame
for another.  Its invariant `StepInv` ranges over what is under way and over what the peer still
owes: a payload follows a head and nothing else, be it still under way or read just now, and a
descriptor that is given up leaves nothing behind for the next connection under its number.
TLC found `StepInv` to hold with the constants of `TcpServer_two.cfg` before it was proved.

`TcpClientProofs`, for every `MAX_HEARTS` and every number of attempts:

| theorem | statement |
|---|---|
| `TypeCorrect` | `Spec => []TypeOK` |
| `PayloadBelongs` | `Spec => []PayloadOfHead` |
| `HeadRecvIsPrompt` | `Spec => []HeadRecvWaitsForRestOrNewLink` |
| `KeepAliveIsPatient` | `Spec => GivenUpOnlyWhenSilent` |
| `RecverIsAChannel` | `Spec =>` `phase` starts in `BornIn`, before `spin()` or with the first connection, and moves as EventChannel says |

`PayloadOfHead` is about the moment after `connect_ensure`; the invariant says what is known
before it: the connection is lost exactly if the head came from one that was not taken for
connected (`HeadIsKnown`).  Three names of connections are enough because a fresh one is
neither the one `select()` holds nor that of the head (`FreshIsFresh`).

`RecverIsAChannel`, here and in `DeviceCacheProofs`, is the other half of `Implementation` above:
recver and executor give what EventChannel says, with `rest` and `event` as the phases an uninitialised
`m_ready` may start it in, and the three models that have `phase` in the place of a recver admit both
and use no more.  It is a theorem about the invariants as well as about the
actions: that `FinishEvent` and `Send` end the phase `handling` and no other needs `EventIsHandled`.

### Applications

`DeviceCacheProofs`, for all consoles, all ids and `Worker \notin Consoles`:

| theorem | statement |
|---|---|
| `TypeCorrect` | `Spec => []TypeOK` |
| `NamesAreGiven` | `Spec => []NamedWasGiven` |
| `SyncCorrect` | `Spec => []WatchedIsSynced` |
| `RegistryKept` | `Spec => RegistryUnlessOverlap` |
| `RecverIsAChannel` | `Spec =>` `phase` starts in `BornIn` and moves as EventChannel says, except where the client ends or starts anew |

`NamedWasGiven` needs to know that a console between reading and `set_addr` holds one
id that is not given yet (`AddrIsNew`).  `WatchedIsSynced` needs the list on its way to
the server to be the file unless that has changed since (`EventIsHandled`), and the
same once it was sent (`RestIsSynced`).  The four, with the types, are inductive (`IInv`).
For the registry `RInv` adds that, while nothing has overlapped, there is one writer,
that what it is to save differs by one sensor from what the file holds *now*, and that
the file stays empty between its opening and its closing (`OneWriter`); a second writer
breaks exactly this, and raises `overlapped`.

`SensorBusProofs`, for any sensors, any `max_addr` and any amount on the line:

| theorem | statement |
|---|---|
| `TypeCorrect` | `Spec => []TypeOK` |
| `ReportCorrect` | `Spec => []ReportIsCurrent` |
| `MovesLowest` | `Spec => SetAddrMovesLowest` |

While a request is clean the line, queue and wire together, is empty or holds the answer to it and
nothing else (`CollectorIsAlone`), so that whatever part `receive()` takes begins that answer.
While a `set_addr` is sure, no sensor has an address below the one that is tried, and either nobody has
that one and the line is empty, or one sensor has just moved from it and the echo is on the line (`ConsoleIsAlone`, `MovedBy`):
a timeout then means the first, a read the second.

`CrcProofs`, for octets of any values and data of any length:

| theorem | statement |
|---|---|
| `RemainderIsDivisibility` | the long division leaves nothing of a polynomial exactly if the generator divides it |
| `CompletedIsAccepted` | `Accepted(crc_comlete(data))` |
| `CompletionIsUnique` | of all frames with the same data, `crc_comlete(data)` is the only one that is accepted |
| `SentCorrect` | `Spec => []SentIsDivisible` |

The argument is congruence modulo the generator: `Congruent(a, b)` says that `a` and `b` differ
by a multiple of it.  One turn of the inner loop multiplies the register by x (`ShiftCorrect`), the whole inner loop adds an
octet and multiplies by x^8 (`AddByteCorrect`), so the outer loop holds the data times x^16 with the first sixteen
bits inverted, up to multiples (`RegisterCorrect`); the two octets that are appended take that away
(`FrameCorrect`).  Each step of the division keeps the class and lowers the degree (`DivideAtCorrect`),
and the only word in the class of 0 is 0 (`NoMultipleIsAWord`), which is also why no other two octets do.
The four loops (of the code and of the division) need an induction.  The library's theorems for it take an operator, which the
provers cannot instantiate; `Induction` states it of a set instead, proved from the least element of its complement,
and `Iteration` gives the recursive functions their values.

The invariant of `SentCorrect` adds that the static arrays keep eight octets (`ArraysIntact`): the next request is
made of the last one in place.

### Model-checked only

Liveness: `WaitingListenerResumes`, `StopEndsTickers`, `TicksForever`, `StarvedOnlyByEarlier`,
`LostUnlessBlocked`, `ReconnectsUnlessBlocked`, `SyncedInTheEnd`, `CallsEnd`, `AllArrive`,
`MutexIsReleased`.  They rest on fairness, hence on `ENABLED`, which is out of the prover's reach.

## What the checks found

With a counterexample in a run:

- *Lost wakeup* (`recver.hpp:80`).  `execute_callback` stores and notifies
  between the listener's predicate and its wait; the recver never detects again.
- *`m_max_fd`* (`tcp.cpp:463`).  The loop for the next largest descriptor has no
  `break` and ends at the smallest; the other clients leave every loop until a new
  client raises the value.

Shown by what a passing property has to except, or by changing one constant:

- *A node added twice* (`executor.cpp:158`).  `executor.hpp:80` promises an
  exception; the code starts a second listener (`ThreadPerEntry` and its proof, for any `AddLimit`), and
  exclusion is gone (`executor_single` with `AddLimit = 2`).
- *A group created after `add_node`* (`executor.cpp:154`) never reaches the executor, and its objects get no
  thread, although `executor.hpp:73-75` says that such groups are associated automatically: `ThreadPerEntry` states what the code
  does, and in `executor_single` the second group is created before or after `add_node`.
- *A client silent in the middle of a frame* (`tcp.cpp:496`), or of a head (`tcp.cpp:22`), blocks the only worker, and with
  it the keep-alive sweep that should give it up; so does one that reads nothing (`tcp.cpp:39`)
  (`WaitsForPeer` in `LostUnlessBlocked`, `partly` in `HeadRecvWaitsForRestOrNewClient`).
- *`m_mutex` is held while the client waits for the server* (`tcp.cpp:245,276`): in the `recv` of a payload, in
  a `send` to a server that does not read, and while `connect_ensure` tries and sleeps (`KeptWaiting` in `MutexIsReleased`).
- *The cache is not synchronised after every change* (`uart_sensor_client.cpp:58`): one that falls
  between an event and the end of its callback is not seen, and an update that
  cannot be sent is forgotten (`missed` in `SyncedInTheEnd`).
- *Overlapping calls on the cache* (`uart_sensor_control.cpp:119,148,104`) lose updates, and may leave
  a text that does not parse: every later call throws, `clear_all_devices` included
  (`overlapped` in `RegistryUnlessOverlap`).
- *A failed save reports success* (`uart_sensor_control.cpp:128`) and leaves the cache empty (`Wipe`).
- *A late answer shifts the reports* (`uart.cpp:67`): each request of the collector then reads the answer
  to the one before, of another sensor, and sends it as its own (`clean` in `ReportIsCurrent`).
- *`set_addr` moves other sensors* (`uart_sensor_control.cpp:74`): if the new sensor misses its request or
  its echo is late, the scan goes on and moves a registered one (`sure` in `SetAddrMovesLowest`).
- *The client ends if there is no cache file yet* (`uart_sensor_client.cpp:59`), by an exception in the detached listener
  thread (`Watch`).

Met while modelling, not checked by a run: with two workers one event can be
handled twice and the next be erased (`recver.cpp:13`); a timer whose callback outlasts its interval starves
everything after it; the mutex of a failing client is destroyed while a
`lock_guard` holds it (`tcp.cpp:470`); `m_spinning` is never cleared and the test
after the sleep is inverted (`executor.cpp:97`); a tcp client whose first connection fails
before `spin()` connects later but has no thread that detects or sends hearts
(`tcp.cpp:150-211`, `served = FALSE`); a client that gave its connection up and still reads a
data head from it takes the payload from the next connection (`tcp.cpp:278`;
`PayloadOfHead` says exactly when).

## What is left out

- Object lifetimes: nothing in the repository drops an object while an executor spins,
  so the weak pointers never expire in the models.
- The C++ memory model: atomics are sequentially consistent by default; the plain
  shared data of the server (fd sets of a few words, `m_max_fd`) are read and
  written in one step each.
- Time: intervals, timeouts of sleeps.
- Descriptors below the listening socket in an uninitialised `m_tmpfds`: a recver born ready would
  treat them as clients.
- Failures of `socket`, `bind`, `listen` and `accept`; `Server::send_data`, which has no
  caller; byte order.  In TcpServer and TcpClient a part of a frame is
  whole or has begun to arrive; partial sends, bytes and empty payloads are in Framing only.

### Not modelled

- *Cameras* (`mindvision_camera`, `hikvision_camera`, `hik_push`, `camera.hpp`): loops around vendor
  SDKs; the headers of these SDKs, `HCNetSDK.h`, `CameraApi.h` and the like, are nine tenths of the
  lines of the repository and declare nothing of its own.  `camera.hpp` is a remnant
  of an older tcp interface and is not built.
- *UartServer*: `recv_callback` keeps nothing between calls; it sorts a payload by two substrings and
  appends it to a file.  `DeviceUpdate` payloads are dropped by it.
- *Log*: the one decision, to rotate a file of 100 MB, asks the position of a stream that was just
  opened, because every frame makes a new `log`: it is never taken.  Nothing else is state.
- *UartSensorConfig, glog, Context, macros, exceptions*: values read once, aliases, output.
- *Types of sensors, texts of reports, the conversion of periods* to nanoseconds: no property depends on them.
- *Errors of descriptors* on the serial line and in inotify other than a missing file: exceptions that end the
  caller like those that are modelled.
- *Address 0 in the cache*: ids start at 1, because 0 is what `reset_device` gives; whether the
  YAML library keeps an empty document with key 0 as a list is not modelled.
- *The Python menus*: text input; the calls they make are the consoles of DeviceCache.

## Plan

Done: all modules and runs named above, and the proofs of every safety and action property.  Next:

1. That the connections of Framing are what the `inbox` of TcpServer and TcpClient abstracts,
   as `RecverIsAChannel` says it of their recver.
2. The proofs' length: `ExecutorProofs` and `FramingProofs` share lemmas about
   sequences that could be stated once.
