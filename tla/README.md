# A verification of mmdriver

mmdriver is a C++ framework for game servers: services that a manager schedules
on a pool of threads, shared-memory channels of messages between them, buffered
TCP sockets, and wrappers for databases, Lua, logs and timers. `test/` is a demo
server built from it: clients log in through `NetService`, the login is verified
by an HTTP request that `HttpManagerService` hands to one of its `HttpService`s,
and the answer goes back the same way.

This directory holds TLA+ models of the parts where threads, queues and streams
meet, TLC configurations that check them on small instances, and theorems that
TLAPS checks for every instance. Paths below are relative to the repository;
`src/` in it is the library, `include/` its headers, `test/` the demo, `lib/` what
others wrote.

## 1. The system

| Part | State | Operations | Interacts with |
|---|---|---|---|
| `Msg_Queue` (common/msg_queue) | in shared memory: `read_`, `write_`, `queue_size_`, the bytes | `init`, `append`, `pop` | one producing and one consuming service, no lock |
| `Share_Memory`, `MessageChannel` (common/share_memory, msg_channel) | key, size, mode, address; two queues in one block | attach, detach, `InitMessageQueue`, `SendMessageInput/Output`, `RecvMessageInput/Output` | every service that names the same key, and an earlier process |
| `Service`, `ServiceManager` (service/) | per service: `m_enmServiceState`, `m_enmRunState`; the manager: the services, the pool, `m_bShutdown` | `Register`, `Run` (three phases of `RunLogic`), `Tick`, `Wait`, `ShutDown`; `Service::Run` | main thread and pool threads share the states without a lock |
| `NetService`, `ConnectionPool` (test/) | connections and their status, `m_kOnlineUser`, `m_uIDGenerator` | socket callbacks, packet and message handlers | channel 200; sockets |
| `HttpManagerService`, `HttpService` (test/) | the pool of services, `m_bFree`, a channel each | `Tick`, `Verify`, `IsFree`, `RecvMessasgeInput` | channel 200, each other's channels, a web server |
| `ClientSocket` (network/) | descriptor, status, receive buffer, send buffer (`m_send_head`, `m_send_tail`) | `send_data`, `send_cache`, `send_cache_data`, `recv`, `disconnect` | the kernel; the owner's callbacks |
| `ServerSocket` (network/) | listening socket, client list, `m_funOnConnect` | `open`, `accept_ex`, `recv`, `close` | `OnNewConnec`, `ClientSocket`, the kernel's descriptors |
| `ClientService` (test/) | a `ClientSocket`, `m_nLastTickTime` | `Tick`: `open`, `connect`, `recv`, `HeartBeat` | the process's descriptors, which everything else in it uses too; a server |
| `PacketHead`, `PacketEncoder`, `MessageHead`, `MessageEncoder` | a buffer | `Encode`, `Decode` | sockets; channels |
| `TimerEx` (common/timer_ex) | last trigger, alarm word, interval | setters, `Tick` | the `Service` it is added to |
| `Log_Engine` (common/log) | stream, name with the date, count of files | `init`, `log`, `check_file` | every service has its own; files outlive the process |
| `MonitorService` (test/) | `m_nLastTickTime`, a timer, a log | `Init`, `NeedSchedule`, `Log` | the manager, which gives it a copy of the time |
| `Redis_Handler`, `Mysql_Handler`, `SQLite_Handler`, `Pool`, Lua | a connection; a table | see the sources | their service only |

What is hard, and what makes each part correct:

* **Msg_Queue**: every load of the other end's index may be followed by the
  other end moving it, and bytes are written and read while the other side runs.
  Correct means: a FIFO of whole messages, copies that never meet, no byte of
  room lost over a wrap.
* **Scheduling**: the main thread and the workers both write a service's states.
  Correct means: a service is never run by two workers, starts once, is not
  ticked before all services have started, is shut down once, and is not
  forgotten; and the program ends when it is told to.
* **Login flow**: connections are reused while replies are under way, queues are
  full, services are busy, several queues share one buffer length. Correct means:
  a login is answered at most once, to whoever sent it, and none is lost or stuck
  within what the server is dimensioned for.
* **Sockets**: the kernel takes or gives any part of the data, and packets are cut
  from it by a size that two classes understand differently. Correct means: an
  unbroken stream out, inside the buffer; all bytes in, in order, none waiting that
  could be handled, whatever the cuts.
* **Server socket**: a connection is dropped in the middle of a poll or while a
  reply is sent, goes back to the pool and may be handed out again while the client
  list still names it; open and accept fail in several places, and descriptors run
  out or do not fit into an `fd_set`. Correct means: a descriptor open for each
  connection in use and no other, and whatever a peer does is noticed.
* **Client**: each of `open`, `connect`, `recv` and `send` may fail, on two workers
  at once that share one table of descriptors. Correct means: each descriptor is
  closed once, by whoever opened it; no connection begins with bytes of the last
  one; and the client connects and logs in again.
* **Shared memory**: two services set up the same queues on two workers, and the
  segment outlives a crash. Correct means: what is received was sent in this run,
  nothing sent is cleared, and the server comes up.
* **Timers and logs**: two triggers with one clock, a Tick that is late or in
  another day than the log's file, files that are full, deleted or left by another
  run. Correct means: each alarm in its minute and once, and no line that was written
  is lost by the moving of files.

`PROJECT.json` lists every component, the hazards with their lines, and which
lines each definition translates.

## 2. The modules

| Module | What it is |
|---|---|
| `Fifo` | what a queue promises: a sequence of messages, appended and delivered whole |
| `MsgQueue` | `Msg_Queue::append` and `pop`, load by load, and the bytes of the ring |
| `MsgQueueProofs` | its index arithmetic; until a comparison is torn, and with one worker always: its freedom from overlaps, that it is a FIFO and takes exactly what fits, proved |
| `ServiceLifecycle` | what the manager promises the services |
| `ServiceManager` | the main thread, the pool and `Service::Run`, access by access |
| `ServiceManagerProofs` | one run at a time, the phases, and the services' life, proved |
| `LoginService` | what the server promises a client: a login is answered at most once or dropped |
| `LoginFlow` | the three services and the channels between them, pop by pop |
| `LoginFlowProofs` | types, the table of users, that it implements `LoginService`, and that no login is lost within the pool, proved |
| `Stream` | what the sending side of a connection promises |
| `SendBuffer` | `ClientSocket`'s send buffer against the kernel |
| `PacketStream` | `ClientSocket`'s receive buffer and `NetService::PeekPacket` |
| `ClientSocketProofs` | of the two halves: types, that data stays inside the send buffer, that it implements `Stream`; that what is received is read whole and in order whatever the headers say, and which sizes a header carries, proved |
| `ServerSocket` | the listening socket, the pool's connections, `recv`'s list and select, and the peers |
| `ServerSocketProofs` | types, whose each descriptor is, and that `recv` watches every connection in use, or stops where an `fd_set` has no room, proved |
| `ClientService` | clients that open, connect, read, log in and close, and the process's descriptors |
| `ClientServiceProofs` | types, whose each descriptor is, and whose the bytes in a buffer are, proved |
| `MessageChannel` | two services that set up a channel in shared memory, over crashes and clean ends |
| `MessageChannelProofs` | types, and that neither old messages are met nor new ones cleared |
| `Calendar` | the clock, and the fields of a time that alarms and file names are made of |
| `TimerEx` | an interval and an alarm, and their setters |
| `LogEngine` | `Log_Engine` and the files of a directory |
| `MonitorService` | a timer and a log in a service that is scheduled late, crashes and restarts |
| `MonitorServiceProofs` | types, alarms and written lines, proved for every calendar and every limit of the log |
| `MC...` | instances for TLC |

The models compose by levels. `MsgQueue` justifies that `LoginFlow` uses plain
sequences for queues; `ServiceManager` (`OneRunPerService`) justifies that a service
in `LoginFlow` and an end of a queue in `MsgQueue` is one sequential process, and that
two services may run at the same moment only when the pool has two workers;
`SendBuffer` and `PacketStream` are what happens below `NetService` on a connection;
`ServerSocket` is how the connections that `LoginFlow` takes as given come and go, and
`ClientService` the other end of them, with the two-worker interleavings that
`ServiceManager` allows. `MessageChannel` justifies that the queues of `LoginFlow` are
empty when its services are first ticked, and takes from `ServiceLifecycle` that none
is ticked before all are initialised. `MonitorService` is composed of `TimerEx` and
`LogEngine` over one `Calendar`. Mistakes that the properties are tried on stand
beside the definition they replace, as `X_How`; no specification uses them.

### MsgQueue

`read`, `write` are the two indexes, `cells` the bytes; a cell shows which byte of
which message it holds. An `append` is `AppendBegin` (the call, and the comparison
`read_ > write_` of `get_free_size`), `AppendCheck` (the branch of that
expression, loading the indexes again, and the comparison with the message's
size), `AppendHeader`, `AppendPublishHeader`, `AppendBody`, `AppendPublishBody`.
A `pop` is `PopBegin`, `PopUsed`, `PopLength`, `PopHeader`, `PopBody`,
`PopRelease`. Differences of `size_t` wrap at `SizeMod`. `torn` records that an
operation used a comparison that was no longer true; `UntornSpec` is the behaviours
without one. The repository's two workers (`ThreadCount=2`, Script/service.lua:3) can
have the others, and then the copies may meet (`torn` in section 3).

### ServiceManager

`mpc`, `at`, `phase` are the main thread's place in `RunLogic`: `SetServiceState`,
`Tick` (one service per step), `BreakCondition`, `Wait`. A worker fetches a task
and goes through `Service::Run`: `RunBegin`, `RunSwitch`, the handler's return,
`RunEnd`, `TaskReturns`. Each step reads or writes one shared field, with one
exception: `HttpManagerService::IsStartOK` and `IsShutdownOK` read the states of
all services of their pool in a step, which is exact for a pool of one, as in the
runs, and for the others leaves out interleavings with the states in between.
The throttled `MonitorService` consults the clock (`due`) in `NeedSchedule`.
doc/dev.txt:4 wonders whether `schedule` makes several threads call `tick`, and a
callback come twice. Several threads do, but never two for one service at once: a
service is scheduled only in `RS_READY`, which only the worker that ran it stores
again (`OneRunPerService`).

### LoginFlow

A pop and what is done with the message is one step; the services' steps
interleave freely. `net`, `mgr` and `http` hold the place in each Tick and its
`bufSize`, which `pop` overwrites with the length of what it copied. A channel has
room for `QueueCap` messages. Lengths are small numbers in the order of the repository's: a
request with an empty `validateinfo` has a body of 5 bytes, a reply to the account
`ddddd` one of 9 or 11 (HttpService.cpp:235, :246), so `returns` has requests of 1 and
replies of 1, 2 and 3. That a login reaches `NetService` as it was sent is taken from
outside: with the repository's own client it does not, as `PacketStream` shows.

### SendBuffer

One call is one step: the socket belongs to one service, and each loop around
`send` ends when everything is sent or the kernel would block. `room` is the
kernel's free space. `SendBehind` is `send_data` when the kernel does not take all
the old data (`Appended`, `Compacted` or `Refused`), `SendDirect` when it does.
Any call may fail instead, after any number of bytes, and disconnect.

### PacketStream

A client sends packets; `RecvData` is `recv_data` with any part of what is on the
wire, `PeekPacket` one turn of `OnRecvMessage`'s loop, `RecvExEnds` and
`RecvExGivesUp` the end of `recv_ex`. `SizeExtra` is what the client's size field
counts besides the body, `Base` the number of values of a byte. `PacketEncoder` counts
the header (packet.cpp:58), so `framing` has `SizeExtra = HeadLen`; `PeekPacket` takes
the field for the size of the body. From the second header on the server is out of
step and reads sizes in the midst of packets: any size, in the model, but the same one
as long as it looks at the same bytes (`shown`). What can be promised then is about
the bytes, and about packets as the headers announce them: `StreamKept`,
`NothingLeftBehind`, `NeverCutOff`. A client whose packets fit may well be cut off,
because a header that is none calls for more than the buffer holds. `stream` and
`taken` are histories of what was sent and of what was taken off the buffer.

### ServerSocket

`net` is the place in NetService's `Tick`. `StartAccept`, `Accept`, `TurnAway` and
`AcceptEnds` are `accept_ex`; `Select` erases the invalid entries of `list`
(`Kept`) and keeps what select answers, `Poll` is one turn of the loop behind it.
Peers act between any two of these. `input` is what select sees of a descriptor:
nothing, data, or the end. `SendFails` is a reply that drops its connection.
`OpenFails` says where: in `socket`, or later (`setsockopt`, `bind`, `listen`,
`set_non_block`), where `close` also clears the callback. `AcceptFails` is accept's own
failure and that of `set_non_block` behind it. `listenFd` and `others`, the rest of
the process, use up descriptors too; of these the process has `Fds`, and an `fd_set`
has room for `SetSize`. A `FD_SET` beyond it writes behind the set (`Overrun`), and the
model stops there.

### ClientService

`pc` is a client's place in `Tick`, with a step per system call; no more than
`Threads` clients are in one at a time. `owner` says who opened the object behind a
descriptor, `link` what kernel and server hold of its connection, `others` what the
rest of the process has open. `Open` and `OpenFails` are `ClientSocket::open`;
`Connect`, `ConnectFails` and `Close` are `connect`, whose failure is either
immediate or comes after `connect_nonblock` has closed the descriptor (`later`).
`RecvNothing`, `RecvData`, `RecvLost` are `recv`; `HeartBeat` the login every five
seconds, with `Sent` for `send_data`; `RandCloses` the random disconnect. Bytes are
marked by the connection they belong to: `set_buf_size` gives new memory and keeps
the lengths, so what is in a buffer then is of an earlier one. The client's
`PeekPacket` skips `sizeof(PacketHead)`, which with its vtable is more than the
encoded header, and then takes off a size that counts the header as well, read out
of step; `RecvData` lets it take nothing or any number of bytes from `SkipLen` on
(`Taken`). A buffer of `RecvSize` that is full with nothing taken ends the connection.

### MessageChannel

`step` is how far each service is in `InitMessageQueue`. `OpenShareMem` and
`CreateShareMem` are the two system calls of `attach_share_memory`, between which
the other service may act; `InitQueue` is `Msg_Queue::init`. A message carries the
run that sent it, as a history of what the uids in it cannot tell apart. `Crash`
may come at any point; `RunReturns` and `Detach` are the end of `main.cpp` as it is
written. `ESM_RESUME` is never chosen, as each `Share_Memory` attaches once.

### Calendar, TimerEx, LogEngine, MonitorService

Time is a number of units; minutes, hours, days, weeks and months are as long as an
instance makes them. `TimerEx` keeps flag and value of each alarm field, because a
setter that clears the one leaves the other. `LogEngine` has one definition per
numbered step of `check_file`; `disk` maps a file's name, the day and a number, to
its lines, and a stream whose file was deleted is `Gone`. `log` does not look at what
`fputs` and `fflush` return (outputstream.cpp:52-67), so `LogTrue` is given the lines
that reach the file: `<<line>>`, or `<<>>` when the disk is full. In `MonitorService`
setters are called in `Init` only (the repository's sets the hour and the minute; an
instance may set any field and an interval), `Schedule` copies the time (`td`), and
`Tick` is a worker's whole run: alarm, callback and log. The histories `asked`, `born`,
`heard` and `stored` say what was asked for, what came of it, and which lines of this
run reached a file that has a name.

## 3. The runs

Runs that pass:

| Run | Shows | States |
|---|---|---|
| `two_workers` | untorn, the ring is a FIFO of whole messages (`ImplementsFifo`), copies never meet (`NoOverlap`), `append` accepts exactly what fits beside what is queued, so that no byte of room is lost over a wrap (`TakesExactlyWhatFits`), every message is popped | 195,917 |
| `lifecycle` | `ServiceManager` implements `ServiceLifecycle` when no task outlasts `Wait`; if no `Init` fails every service is ticked again and again, and gets its `Shutdown` after `ShutDown` | 310,468 |
| `timeouts` | a service runs on one worker at a time and its state never goes back, even when `Wait` times out and the next phase begins under a running task | 195,532 |
| `overload` | `LoginFlow` implements `LoginService` with too few services and too little room; users and connections are each other's inverse | 268,328 |
| `returns` | no login is lost when there are no more than services and room in a channel, with replies longer than requests; and each returns once no newer one is sent that overtakes it (`ReturnsUnlessOvertaken`) | 168,009 |
| `sending` | `SendBuffer` implements `Stream` and stays inside the buffer | 45,624 |
| `framing` | of packets as `PacketEncoder` makes them, in every cut, all bytes are read in order and each once; nothing waits that its header says is there; a connection is given up only for a header that calls for more than the buffer holds; all is received | 300,219 |
| `clients` | no descriptor leaks or is shared, whatever fails and whatever else the process opens; everything a peer does is noticed, although the list holds stale and repeated entries; waiting peers are answered unless descriptors run out or an earlier `open` failed behind `socket` | 300,544 |
| `reconnects` | unless a descriptor is opened between the two closes of a late connect failure, each is held by whoever opened it; no byte of one connection shows up in another; the client comes to try again after every end and every failure, and logs in on each connection that lasts, although it reads the replies out of step | 185,456 |
| `channel` | a set-up by two services at once, over crashes and clean ends: no message of an earlier run is met, none of this run is cleared, and a server that is started again and again comes to serve | 9,357 |
| `monitor` | each alarm in its minute and once, over late Ticks, midnight and restarts; no line that reached its file is lost by `check_file`, whatever it fails to open, move or write | 3,005,904 |

Runs in which the code does not do what its comments say:

| Run | Property | What happens |
|---|---|---|
| `double_close` | `ValidIsConnected` | a connect that fails late has closed its descriptor (socketapi.cpp:209) and `ClientSocket::connect` closes it again; what another worker has opened there in between is gone, and its socket is still `valid()` |

The models show more of the kind. The first eight rows have configurations of their
own, `MC<module>_<name>.cfg`; the others are changes to one:

| Configuration or change | Property that fails | What happens |
|---|---|---|
| `MCPacketStream_encoder` | `ArrivedIsHandled` | `PacketEncoder` counts the header in the size (packet.cpp:58), `PeekPacket` takes it for the body's (NetService.cpp:241): a packet that has arrived whole waits for the first bytes of the next one, and the server is out of step from then on. clientsocket.h:98 says that `recv_ex` receives packets and calls their handler |
| `MCMsgQueue_torn` | `ReserveKeepsApart` | with two workers, a wrap between the comparison and the subtraction in `get_used_size` makes `pop` take bytes that `append` is still writing, and one in `get_free_size` makes `append` write over unread bytes (`AppendFits`) (msg_queue.h:52). msg_queue.h:26 says of the reserve that it keeps the two apart |
| `MCMsgQueue_index_at_end` | `InsideBlock` | a body that ends exactly at the ring's end leaves an index there (msg_queue.cpp:64), and the next header's first byte goes behind the block |
| `MCServiceManager_shutdown` | `ShutdownCompletes` | `IsShutdownOK` asks for the state that only `IsShutdownOK` leads to (service.cpp:113); `Run` never returns after `ShutDown`, and main.cpp:74 never deletes the services |
| `MCLoginFlow_starving` | `EveryLoginReturns` | a reply longer than a request waits as long as each Tick pops a request before it: `bufSize` keeps the last length (HttpManagerService.cpp:109). HttpManagerService.cpp:102 says that the replies are received and forwarded |
| `MCSendBuffer_long_message` | `InsideBuffer` | `send_data` keeps the rest of a message whatever the buffer's size (clientsocket.cpp:473). clientsocket.h:14 says the send buffer must hold more than 65535 bytes; `set_buf_size` allocates `max_s2c_pkg_size`, 11K |
| `MCServerSocket_deaf` | `ListeningHandsOut` | an `open` that fails in `setsockopt`, `bind`, `listen` or `set_non_block` calls `close`, which clears the callback that only `Init` sets: the next `open` succeeds and no peer is ever accepted (serversocket.cpp:91) |
| `MCMonitorService_oversize` | `SizeBounded` | the last file is written without end (log.cpp:142), and any other when `rename` fails, whose result nobody looks at (log.cpp:180). log.h:23 says a single file has 1G at most |
| `returns` with `ReqLens = {1, 5}` | `ReturnsUnlessOvertaken` | a message longer than the receiver's 2048 bytes blocks its queue (HttpManagerService.cpp:76) |
| `overload` with `INVARIANT FreeMeansIdle` | `FreeMeansIdle` | a busy `HttpService` is marked free whenever the manager looks for its replies (HttpService.cpp:305) |
| `sending` with `SPECIFICATION ServiceSpec`, `PROPERTY AcceptedIsSent` | `AcceptedIsSent` | what `send_data` keeps is not sent until it is called again (clientsocket.cpp:442) |
| `monitor` with `<<"minute", -1>>` in `SomeAlarms` | `AlarmExact` | a setter given a value out of range leaves the old value in the word, which `Tick` takes for an alarm in every minute (timer_ex.cpp:45, 109) |

Some behaviours the modules allow are worth knowing although no property forbids
them:

* On a key without a segment the two services of a channel may both find none and
  both create it. The second create fails, `InitMessageQueue` does not look at that,
  and `init` writes through a null pointer. The next start finds the segment, which
  is why `ServesInTheEnd` holds.
* An entry of the client list whose connection is reused before it is erased stays,
  beside the new one; the list grows with each such reuse.
* A process that is started in the minute of an alarm does not report it, and a
  minute that passes without a Tick is not made up for.
* The number of log files is not put back at midnight, so that from the last file on
  none is moved aside again; a file deleted after that is not made again. A process
  that is started again on the same day counts from 1 and removes the earlier one's
  files. `rename` moves to `./log/` followed by a prefix that begins with
  `LogFilePath`, `./Log` in Script/config.lua; nobody creates that directory, so with
  the repository's configuration every `rename` fails and the file grows beyond its
  size, as in `MCMonitorService_oversize`.
* That `log` returns true does not mean that the line is in a file: a full disk, or a
  file deleted under the stream, loses lines. In the model a line whose writing failed
  is lost even if the stream brings it into the file with a later one.

### Bounds, and why they are enough

* `MsgQueue`: a header of 2 bytes (enough for it to straddle the wrap), a ring of
  6 or 7 bytes beside its reserve, bodies of 1 to 5. Every message wraps sooner or
  later at every offset, a header, a body or neither crosses the end, a ring is
  exactly full, and a body ends exactly at the end. The caller's buffer is once
  smaller than a message. `two_workers` is checked on the behaviours in which no
  comparison is torn (`UntornSpec`). `MCMsgQueue_torn` shows what happens in the
  others, which the repository's two workers can have; with one worker all behaviours
  are untorn, as proved, and up to the first torn comparison the queue is a FIFO in
  all of them, as proved too.
* `ServiceManager`: two workers and three services, of the kinds that differ:
  plain, manager, pooled, throttled. One service per worker and one more is what
  it takes for a task to wait while others run and end.
* `LoginFlow`: one or two connections for two uids, so that a connection is
  reused while its old login is under way; one or two HttpServices; queues of one
  or two messages and up to three logins, so that queues and services run out;
  replies as long as a request, longer, and longer than another reply, as the
  repository's are. `MaxUid` bounds the connections
  made and `MaxOwed` the logins under way.
* `SendBuffer`: a buffer of 4 bytes, messages of 1 to 4 and a kernel that takes
  3: every message may be cut at every byte, the buffer is exactly full, and old
  data has to be moved to the front. Messages of one length are alike; they differ
  from those of other lengths, which is enough to see bytes swapped or repeated.
* `PacketStream`: three packets with bodies of 1, 3 or 4, a header of 4 that counts
  itself, a byte of 16 values and a buffer of 11: the sizes announced are 5, 7 and 8,
  of which 7 fills the buffer exactly and 8, with a low byte of half the base,
  decodes as a size that never fits; the third packet is read out of step after both
  ways of being handled late. `SizeExtra` may be anything in the proofs.
* `ServerSocket`: two connections, four descriptors of which the rest of the process
  may take three, and an `fd_set` of four, so that a peer waits, is turned away, takes
  a descriptor just closed, or finds none; four peers, so that a connection is used
  twice and its entry repeated; two accepts a Tick; one `open` that fails with
  descriptors left, in each of the places, while `accept` and `send` may fail each time.
* `ClientService`: one client, and three descriptors that the rest of the process
  opens and closes on the other worker: the lowest free number, which `socket`
  returns, is often the one just closed. Room for five bytes, logins and replies of
  two, and a send buffer of five, so that a login or a reply is cut; a header skipped
  as three, longer than a reply, and a receive buffer of five, which fills up.
  `reconnects` is checked on the behaviours in which nobody opens the number between
  the two closes (`UndisturbedSpec`); `double_close`, with two clients and one other
  holder, says what happens in the others, and with one worker there are none, as
  proved. What several clients may do to each other's descriptors and buffers is
  proved for any number of them.
* `MessageChannel`: queues of two messages and three sent, so that a queue is full
  and is emptied; three crashes or clean ends, so that a run meets a segment that
  was crashed on while being set up, while in use, and while being removed.
* `MonitorService`: minutes of three units and Ticks at least two apart, so that a
  minute has one Tick or two or none; two minutes an hour, two hours a day, and a
  clock that passes midnight; files of one line and three files a day, so that the
  limit is reached; two runs; one failed open or write, or deleted file, while
  `rename` may fail each time.

### Deadlock

TLC reports a state without successors except in `lifecycle` and `timeouts`, where
the program may end (`exit`, or an exception from a failed start); in `framing`,
where the client has sent `MaxPackets` and closed; in `channel`, where both services
may have nothing more to send; and in `monitor`, where the process may be down and
nobody start it again.

### Fairness

* Threads run (`WF` on the main thread and on each worker, `ServiceManager`), and
  handlers return: network and HTTP calls have time-outs (`curl` 10 s to connect
  and 60 s in all). Time passes for a throttled service. Nobody need call
  `ShutDown`.
* Services are ticked again and again, which `lifecycle` checks of the manager;
  hence weak fairness of each service's Tick in `LoginFlow` and of `append` and
  `pop` once begun. A `pop` is called infinitely often, with a buffer that holds
  the longest message, but on the behaviours of `two_workers` not at every moment:
  hence strong fairness of the call.
* `recv` is called in each Tick of `NetService` and `select` keeps reporting
  unread data: weak fairness of `Receive`. The kernel gets bytes through while a
  connection lasts: weak fairness of `KernelDrains`.
* NetService's Tick runs to its end and comes again: weak fairness of its steps in
  `ServerSocket`. `select` reports what is there; that it fails (it is not called
  with a bad descriptor, and the program handles no signals) and the limit of 15 on
  peers that wait are not modelled. What liveness promises ends where a descriptor
  has no room in an `fd_set`: with Linux's default limit of 1024 descriptors, which
  is `FD_SETSIZE`, that never comes (`SetsHoldAllKept`); with the limit raised for the
  pool of 5000 (ConnectionPool.h:10) it may.
* The two services' set-up and deletion run to their end, and somebody starts the
  server again when it is gone, as for any server (`Start` in `MessageChannel`).
* Clients are ticked again and again and a Tick runs to its end; strong fairness of
  its beginning, because the other client may hold the worker in between; five
  seconds pass; and `socket` succeeds now and then (`SF` of `Open`), as it does once
  somebody else closes something. Nothing is assumed of the server: connections may
  fail for ever.
* No fairness is assumed of `LoginFlow`'s and `ServerSocket`'s clients, of failures,
  or of anything that happens only because somebody asks for it.

### Memory

Shared fields are read and written one after the other (sequential consistency).
The indexes and states are `volatile` or plain words on x86, where loads and
stores of one thread are not reordered in a way that these programs observe; a
compiler that reorders plain accesses is outside the models.

## 4. The proofs

Each proof module extends its model. All assumptions are the named `ASSUME`s of
the models, which say that sizes and counts are natural numbers, that a ring holds
more than a header, that services are distinct, and the like.

* **MsgQueueProofs**. `TypeCorrect`: for any ring, message lengths and workers the
  indexes stay in `0 .. Q`, torn comparisons included. `RoomKept`: `RoomInv`
  (reserved bytes plus unread bytes fit; claimed bytes are unread) is inductive
  together with `TypeOK`: each action moves one index by what its end had claimed,
  and an untorn comparison yields the exact distance (`UntornSizes`).
  `NoOverlapKept` follows: disjoint intervals of the ring are disjoint cells.
  `OneWorkerNeverTears` and `OneWorkerIsSafe`: with one worker an append never
  meets a pop, so the wrong sizes of `MCMsgQueue_torn` cannot occur.

  `FifoUntilTorn` is of every behaviour, two workers included: each step that begins
  and ends untorn is a step of `Fifo` or none. `OneWorkerFifo` and
  `OneWorkerTakesExactly` are of every behaviour when `Threads = 1`. `RoomInv`
  says nothing of what the bytes are, so the invariant is that a *layout* exists:
  for each queued message the index at which it begins and its distance from `read`,
  each one span (`H` plus the length) behind the last; header and body of that
  message at that index; and where `read` and `write` stand in the chain in each
  step of `pop` and `append`. A writer touches only what lies behind the published
  bytes (`WriterApart`) and a reader only what lies before the rest (`ReaderApart`),
  so the messages in between stay. Hence `PopBodyDelivers`: what `pop` copies is the
  head of the queue. A proof cannot add up the spans of a queue; `OneWorkerTakesExactly`
  counts its bytes as a set instead (`BytesAppend`, `BytesTail`), and `StoredInv`
  says that the published bytes are those, with the header of a message half
  appended or the rest of one half popped.
* **ServiceManagerProofs**. `OneRunKept`: the running state says where the one task
  of a service is; it is inductive with `TypeOK`, since the only step that queues a
  service needs `RS_READY` and the only step that restores it is the worker's.
  `PhaseKept`: `PhaseInv` says that a phase begins when each service has ended
  the one before, so a worker in the middle of a handler finds the state as it left it.
  `StatesOnlyAdvance` follows from it as an action property, whether or not `Wait`
  times out.

  `LifecycleImplemented` needs that it does not (`~WaitMayTimeOut`): otherwise the
  next phase begins under a running task, and a handler may return in another state
  than it was called in. `LifeInv` is what is gained: a phase is stored while the
  pool is idle, so `Tick` is called and returns in `SS_RUN` and `Shutdown` in
  `SS_SHUTDOWN_PROCESS`. Each step is then a step of `ServiceLifecycle` or none.
* **LoginFlowProofs**. `TypeCorrect` and `OnlineKept`, from the conjunction of the
  type, `OnlineIsConnected`, that uids in use are below `nextUid` and that an
  `HttpService` that verifies has a request. `OnlineIsConnected` needs the third:
  a fresh uid must not be somebody's.

  `LoginImplemented`: the queues and the hands of the `HttpService`s are so many
  *places*, and the logins under way of a uid are the pairs of a place and a position
  in it (`Held`), counted by `Load`. A queue that gets or loses a message gains or
  loses one such pair (`LoadAdd`, `LoadPop`, `LoadPut`), so every action does one of
  five things to the places: nothing, a login sent, returned, moved or refused
  (`NextMoves`), and each is a step of `LoginService` or none (`LoginSteps`).
  `NoneLostKept`, if `MaxOwed` is no more than `Https` and than `QueueCap`: a service
  that is not marked free has a login waiting for it or in its hands (`PoolInv`;
  the converse is false, see `FreeMeansIdle` above). If all were taken for busy, they
  and the login the manager has just popped would be more than `MaxOwed`; and a popped
  login leaves room in every queue, as all the others cannot fill one.
* **ClientSocketProofs**, the sending half. `SendTypeCorrect` holds whatever is sent,
  `InsideBufferKept` if no message is longer than the buffer: each action either
  checks the room behind the tail, or starts again at the front with part of one
  message.
  `StreamImplemented`: the bytes from head to tail are what `Stream` has accepted and
  not sent, and what a call sends, moves to the front or adds cuts and joins them as
  the stream does. It needs no condition on the messages, but the model stops once
  memory behind the buffer has been written, so that it is to be read with
  `InsideBufferKept`.
  The receiving half holds for any size field, `PacketEncoder`'s included.
  `StreamIsKept`: what `PeekPacket` took, what is unread in the buffer and what is on
  the wire are together the bytes sent; each action moves bytes from the front of one
  of the three to the end of the one before. For `NothingLeftBehindKept` and
  `NeverCutOffKept` the invariant remembers the size found in the header at the front
  (`shown`) for as long as that header stays there: `recv_ex` returns only when
  `PeekPacket` has asked for more than is there, and gives up only when the buffer is
  full then. `WhichSizesAreCarried` says what an encoding does to packets: if the
  client counts the body alone, the header gives back exactly the sizes with a low
  byte below 0x80 or an upper byte of 0xFF; if it counts up to 255 bytes more, as
  `PacketEncoder` does with the header, none.
* **ServerSocketProofs**. `TypeCorrect` needs to know what `recv` keeps of the list.
  The k-th entry to stay is the valid one with k valid entries up to it: no two
  entries have the same count, and there are as many entries as counts, so each place
  is filled and each valid entry stays (`PlacesFill`, `KeptTyped`). Hence a poll
  starts inside the list, and `EveryoneWatchedKept`: each connection in use has an
  entry. `DescriptorsOwnedKept`: `DescriptorsOwned` is inductive as it stands, since a
  connection is dropped only with a descriptor of its own, and one is handed out only
  when it has none. `SelectSeesAllKept` puts the three together: the descriptors given
  to select are those open, the highest is below the bound it is given (`MaxIsLargest`,
  by the same counting), so each `recv` finds exactly the connections whose peers have
  sent something or left, or stops at a descriptor that an `fd_set` has no room for.
  `SetsHoldAllKept`: with `Fds < SetSize` there is none, however large the pool. That
  each connection is then received, as `EveryInputReceived`
  says, is liveness.
* **MonitorServiceProofs**. Both of the disk rest on one invariant, `Sound`: no two
  alarm lines in the files are of one minute, no line is later than the last trigger,
  and each line of this run that has reached its file is in a file whose number is
  below `count`. An alarm goes off only in a minute later than that of the last
  trigger or of the process's start, which gives `ReportedOnceKept`; `check_file`
  removes or replaces only the file with the number `count`, which gives
  `NoLineLostKept`. They hold for every setting and calendar, and whatever fails to
  open, to be written or to be moved. `AlarmExactKept` needs
  `NotTakenBack`: no `Init` sets a field to a proper value and then to an improper
  one, which leaves the value in the word without its flag (the `monitor` row of the
  third table). Then the word matches a minute exactly when each field asked for does,
  and the last trigger says whether this minute has had its Tick.
* **MessageChannelProofs**. `OnlyThisRunKept` and `NothingLostKept`: both follow from
  what a queue holds, the messages of this run from the next to be received to the
  last one sent, but only once both services are ready. Before that the invariant
  says of each queue a service has set up that it holds nothing: a service always
  clears, because its object has not held the key before (`AlwaysCleared`), and
  nothing is sent while one is setting up (`Unsent`). That a service is never
  deleted under one that is ready (`StopsTogether`) is needed for the removal.
* **ClientServiceProofs**. `DescriptorsKept`: `DescriptorsOwned` and
  `ValidIsConnected` hold as long as nobody opens a descriptor between the two
  closes. They are inductive together with two facts: between the two closes a
  client's number is its own or nobody's (`Closing`, the only conjunct that needs
  the assumption), and what is not a client's has no connection (`Linked`).
  `OneWorkerOwns`: with one worker at most one client is in a Tick (`OneBusy`), and
  nothing can be opened while it is between the two closes. `NothingCarriedOverKept`:
  a socket that is not connected has nothing in its buffers, since every way a
  connection ends goes through `close`, so the next `connect` finds lengths of 0; this
  is of every behaviour. With `DescriptorsKept` it gives `BytesKept`, that each byte in
  the buffers is of the connection there, and with `OneWorkerOwns` `OneWorkerBytes`.
  `TypeCorrect` has no condition either: the client always has room to read more, since
  a full buffer of which nothing is taken ends the connection.

The conditions in these theorems (untorn or one worker, `~WaitMayTimeOut`,
`NotTakenBack`, `UndisturbedSpec`, no message longer than the buffer, `Fds < SetSize`)
are met by the passing runs of the same properties, except that `two_workers` has two
workers without a torn comparison and `clients` has `Fds = SetSize`, so that a set does
overrun there. What happens where one is not met is in the third table and in
`double_close`; `timeouts` leaves `ImplementsLifecycle` out for the same reason.

Proved, and not in a run: the strengthenings `RoomInv`, `PhaseInv`, `LifeInv`,
`RecvInv`, `EveryoneWatched`, `SelectSeesAll` and `SetsHoldAll` of `ServerSocket`,
`NothingCarriedOver` of `ClientService`, and the types of `SendBuffer`; inside the
proofs, the layout of the ring and its count of bytes, `PoolInv`, and what the log's
files hold.

Only model-checked is liveness (`two_workers`, `lifecycle`, `returns`, `framing`,
`clients`, `reconnects`, `channel`), because the prover has no fairness. Every
invariant, action property and refinement of a passing run is a theorem, under the
conditions above; `ImplementsFifo` and `TakesExactlyWhatFits` with two workers and no
torn comparison, as in the run, are the lemmas `FifoImplemented` and `TakesExactlyKept`.

## 5. What is not modelled

* Most of the repository: `lib/` is boost, protobuf, curl, Lua, SQLite and others as
  their authors publish them. Of these only the thread pool is modelled, from its own
  source (lib/threadpool, pool_core.hpp). Sockets and files are as the kernel shows
  them.
* Redis and `DBService`: `ExecuteRedisCommand` repeats a failed command on the
  context it has just freed (redis_handler.cpp:64-71), so what the program does
  after the first lost connection is undefined; before that it is one call after
  the other.
* A client's descriptor that another worker has closed and reopened: what is then
  read from or written to somebody else's file is followed up to the first failure
  only. A server that is not configured (`ClientService::Tick` returns before
  `connect`) is left out.
* MySQL, SQLite, Lua, configuration, CPU statistics, base64, strings, exceptions:
  sequential wrappers and helpers whose unit is a function call.
* The object pool, which nothing instantiates; sample objects and generated code.
* Of the parts modelled: what a message's or packet's body holds, log lines, the
  handler tables (`RegisterMessage`), Windows variants, and
  what a program does after memory has been overwritten (the models stop there).

## 6. Plan

In order of what matters to the program:

1. Composition: `PacketStream` and `ServerSocket` below `LoginFlow`'s `NetService`.
   Abstract: what a connected client sends is read in order, or the client dropped
   (that its packets are handled needs another encoder).
2. The start of the program: `main.cpp`, where a missing configuration value or a
   failed `Init` leaves the services half made.
3. Proofs: every safety property and refinement that the passing runs check is
   proved. The composition of 1 would give one theorem from the socket to the answer.

## 7. Checking

`tlc -config MCx_run.cfg MCx.tla` checks a run, `tlapm XProofs.tla` a proof. Each
run ends in under five minutes on two cores.
