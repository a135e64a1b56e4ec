# Verification of the network and concurrency code in TLA+

The repository is a collection of C and C++ programs around networking and threads. Its largest
part is a chat service over UDP whose reliability comes from the KCP protocol (`ikcp.c`); next to it
stand a thread pool, a database connection pool, several event-driven servers and a few small
programs. This directory holds TLA+ modules translated from that code, the TLC configurations that
check them on small instances and TLAPS proofs for all instances.

## 1. Inventory

| Component | State | Operations | Interacts with | What is hard | Correct when |
|---|---|---|---|---|---|
| KCP protocol `2.2.3-udp-kcp-quic/ikcp.c` (a copy is under `tcp-udp-rtt/udp-rtt`) | per control block: `snd_queue`, `snd_buf`, `rcv_buf`, `rcv_queue`, `acklist`, `snd_una/snd_nxt/rcv_nxt`, windows, congestion state, timers | `ikcp_send`, `ikcp_recv`, `ikcp_input`, `ikcp_update`/`ikcp_flush`, `ikcp_check` | output callback to a UDP socket; driven by two threads of the session layer | lost, repeated, reordered datagrams; stale windows; timers; windows at 0; wrap-around of clocks | every message is delivered once, whole, in order, and in the end; nothing is freed before the peer has it; windows hold |
| Session, server, client `kcp_session.cc`, `kcp_server.cc`, `kcp_client.cc` | session table by conversation, last receive time, shared receive buffer | `Run` (receive thread), `Update` (update thread), `GetOrCreate`, `Close`, keep-alive | `ikcp`, chat server callbacks | two threads and three nested locks; timeout racing a late datagram; a session made anew against a client with old numbers | a live client keeps its session; a message read is handed over unchanged |
| Chat server and client `chat_server.cc`, `chat_client.cc` | set of users | join, leave, broadcast | callbacks of the KCP server | callbacks under the server's lock | the user set matches the session table |
| Round-trip client and server `tcp-udp-rtt/udp-rtt` | client: a send time, a condition variable; server: a session | send loop, receive loop; joining, answering, dropping a session | KCP client | wait without predicate; one `start_time` for all answers; a session made anew | an answer is measured from its own send (violated, section 3; the answer to the newest message is); main is woken |
| Thread pool `test3/threadpool.h` | task queue, `active_flag`, mutex, condition variable, workers | `start`, `submit`, `stop` | any thread | lost wakeups, stop against submit and wait | no task is lost or repeated; work is not left while workers sleep; `stop` returns |
| Connection pool `test4/connectionpool.h` | idle queue, counters, `active_flag` | `init`, `acquire`, `release`, `shutdown`, `available` | the MySQL client library (external), threads of `sqltest.cpp` | newcomers overtaking woken threads, release after shutdown, init again | a connection is in one place and open; counts are exact; no thread waits beside an idle connection |
| Reactor and web server `test8` | per-descriptor buffers and write state | accept, recv, send callbacks | epoll, sendfile | partial writes, descriptor reuse | a response is sent whole from its own state |
| Poll and epoll TCP servers `test7`, `test8/tcpserver.cpp` | poll set | accept, read, close | kernel | removal while iterating | closed descriptors leave the set |
| Edge-triggered server with work queue `2.3.1-coroutine/server_mulport_epoll.c` | job queue, workers, terminate flags | `add_job`, worker loop, shutdown, accept/read | epoll, worker threads | termination, edge-triggered events | no job is lost; nobody keeps the mutex |
| Asynchronous DNS client `async_dns_client_noblock.c`, `test5` | request contexts | commit, callback loop, parser | epoll, UDP | answer after the context is gone, compression pointers | each request gets its own answer |
| Database example `test4/sqltest.cpp` | an image, a statement, the connection | insert, select, delete, store and fetch an image in chunks | connection pool, MySQL (external) | a call failing in the middle, noticed or not | images are stored and fetched whole, unless a call failed whose result is ignored; the connection is given back once |
| Coroutine examples, hooks | contexts | switch | libc | sequential | - |
| Contact list `test2/contacts.cpp` | linked list, file | insert, delete, search, save, load | file | round trip | load gives back what was saved |
| Word counter `test1` | a state and a count | one pass in blocks | file | words divided by a block | the count is that of the whole text |
| HTTP client `test6`, WebSocket stub `test8` | - | one request, nothing | - | - | - |

`PROJECT.json` lists every component with its files and status, and under `hazards` what is hard to
test in this code, line by line.

## 2. Modules

| Module | Models | State and actions |
|---|---|---|
| `KcpPeers` | the two ends and the fragments `ikcp_send` cuts a message into | constants and pure operators |
| `KcpCwnd` | congestion control: the tail of `ikcp_input` (`CwndOnAck`) and of `ikcp_flush` (`CwndOnFlush`) | pure operators over `cwnd`, `ssthresh`, `incr`, with the code's integer arithmetic |
| `KcpChannel` | what KCP promises: a pair of reliable ordered message channels | abstract: histories `sent`, `delivered`; `Send`, `Recv` |
| `Kcp` | two control blocks and the network | one variable per field of `IKCPCB` that matters; actions below |
| `MCKcp` | values of the constants for TLC | - |
| `ThreadPool` | `threadpool.h` | every thread's place in its code; `Submit*`, worker steps, `Stop*` |
| `ConnectionPoolState`, `ConnectionPool` | `connectionpool.h` used as `sqltest.cpp` does | `InitPool`, `InitFails`, `Acquire`, `Release`, `Shutdown` |
| `MCPools` | extends `ThreadPool`, composes it with `ConnectionPool` for TLC; a behaviour runs one of the two | `active` |
| `Chat`, `MCChat` | `kcp_server.cc`, `chat_server.cc`, the keep-alive and timeout of `kcp_session.cc`, what `chat_client.cc` sends | sessions, users, what each session was told to send; `Type`, `SendKeepAlive`, `Receive`, `Update`, `Tick` |
| `ChatClient` | `kcp_client.cc`: from the datagram to `HandleMessage` | lengths of messages; `Notify`, `Run` |
| `KcpClock` | the 32-bit clocks of `ikcp.c`: `ikcp_update`, `ikcp_check`, the timers of `ikcp_flush`, `ikcp_update_ack` | timestamps modulo `ClockModulus` beside the time that really passed |
| `Reactor` | `test8/reactor.cpp` and `webserver.cpp` | per descriptor the write state `conns[fd]` and the bytes on the wire; accept, recv, send with and without progress |
| `TcpServers` | `selectio`, `pollio`, `epollio` of `test8`, `epoll_server` of `test7` | sockets, watched set, poll array, pending events; one server to a behaviour |
| `WorkQueue` | `server_mulport_epoll.c` | the linked job list, the workers, edge-triggered events, the main loop |
| `DnsClient` | `async_dns_client_noblock.c`: commits and the callback thread | ports, datagrams under way, perhaps repeated, epoll's set, what callbacks got |
| `DnsMessage` | the bytes of questions and answers, in both DNS clients | host name, request, records, response, what is reported; `Ask`, `Respond`, `Parse` |
| `RoundTrip` | `udp-rtt/chat_client.cc` and the server's session with it | the two threads, the condition variable, the notices by number, the session; `Lock`, `SendAndWait`, `HandleConnection`, `ServerHandleMessage`, `HandleClose`, `ReadClock`, `Measure`, `NotifyOne` |
| `Contacts` | `contacts.cpp` | linked list with the nodes allocated, file, and the book as its user knows it; add, delete, save, load, exit |
| `CountWord` | `count_word.cpp` | the file, the offset, state and count |
| `SqlTest` | `sqltest.cpp` | the call that is next, the image on its way, the table, failures that went unnoticed |
| `MCNetwork` | extends `DnsClient` and composes it with `Reactor`, `TcpServers` and `RoundTrip`, with the assumptions on their constants and their fairness | `active` |
| `LocalPrograms` | composes `KcpClock`, `CountWord`, `SqlTest`, `Contacts` and `DnsMessage`, with the assumptions on their constants | `active` |
| `MCPrograms` | extends `WorkQueue` and `LocalPrograms`, composes the two and gives values for TLC | - |
| `KcpTypeProofs`, `KcpProofs` | theorems about `Kcp` | - |
| `ThreadPoolProofs`, `ConnectionPoolProofs`, `ChatProofs`, `WorkQueueProofs` | theorems about the module in their name | - |
| `NetworkProofs` | theorems about `MCNetwork`: `DnsClient`, `Reactor`, `TcpServers`, `RoundTrip` | - |
| `ProgramProofs` | theorems about `LocalPrograms`: `KcpClock`, `CountWord`, `SqlTest`, `Contacts`, `DnsMessage` | - |

### Kcp

`Kcp` composes two instances of the control block (every variable is a function of the peer), the
congestion control of `KcpCwnd` and a network. Correspondence:

| Code | Action |
|---|---|
| `ikcp_send` | `Send`: cuts a message of 1 .. `IKCP_WND_RCV` - 1 fragments (more is refused with -2) and appends it to `snd_queue` |
| `ikcp_recv` with `ikcp_peeksize` | `Recv`: `MessageReady`, takes up to the first `frg = 0`, moves `rcv_buf` on to `rcv_queue`, asks for a `WINS` when the window reopens |
| `ikcp_update` with `ikcp_flush` | `Update`: ACKs, probes, new segments within the window, resends by timer and by fast resend, packing into datagrams, `state`, congestion window |
| `ikcp_input` with `parse_una`, `parse_ack`, `shrink_buf`, `parse_data`, `parse_fastack` | `InputBegin`, then `InputAck`/`InputPush`/`InputWask`/`InputWins` for each segment, then `InputEnd` |
| UDP | `Lose`, `Duplicate`, `Delay`, and the socket buffer that drops what does not fit |

Abstractions.

* A payload is the identity of its fragment, so that delivering a wrong or repeated one shows.
* `snd_buf` and `rcv_buf`, which the code keeps sorted by number, are functions of the number.
* Sequence numbers are naturals: `_itimediff` orders them as long as fewer than 2^31 are in use.
* Clocks are left out. Which retransmission timers (`due`) and whether the probe timer (`timeout`)
  have run out is chosen at each flush, so every timing is covered, at the price that nothing is said
  about how long a retransmission takes. `ikcp_update` when its flush is not due changes nothing here.
* A datagram holds `MtuSegs` segments, whatever their sizes. The window in a header has 16 bits.
* `xmit` and `fastack` stop growing at the largest limit they are compared with.
* The whole `ikcp_input` call runs before anything else happens (`Idle`): the session holds its lock.
* `ikcp_recv` is called with a buffer large enough and without `IKCP_PEEK`, as the session layer does.
* Stream mode, which is never switched on, and the rejection of malformed datagrams and of other
  conversations, which leave the control block as it was, are not modelled.

### ThreadPool

Every call of `submit` is named by its task; the test of `active_flag`, the critical section and
`notify_one` are three steps, as the code takes and gives up the mutex between them. A worker's test
of the wait's predicate and its going to sleep are separate steps with the mutex held, since `stop`
needs no mutex and can run between them. Spurious wakeups are allowed, never required.

### ConnectionPool

`ConnectionPoolState` has the variables and what is promised of them, `ConnectionPool` the operations.
Every operation is one critical section and notifies inside it, so it is one step; only `wait`
splits `acquire`. `InitFails` is the return after some connections were made: those are closed.
A thread holds one connection at a time, as in `sqltest.cpp`. A connection released after a shutdown
returns to the queue, as in the code, and is there when `init` is called again. `total_connection`
then counts fewer connections than there are; nothing reads it, so nothing is claimed of it.

### Chat and ChatClient

Both server threads hold `KcpServer::mtx_` for a whole round, so a round is one action: `Receive` is
`Run`'s body with `GetSession`, `NewSession`, `HandleConnection`, `HandleSession` and the
`HandleMessage` calls of its loop; `Update` is the walk over the sessions with `HandleClose` for each
that has timed out, in any order, as the table is unordered. The chat server's and the session's own
mutexes are taken inside and always in the same order.

* KCP is used through what section 4 proves of it: messages of one control block are handed over in
  order, once, whatever arrives. A message is known by its number in the client's session; a
  new server session starts at 0 and may meet messages that are sent again.
* A message is the keep-alive command, a text that is a proper prefix of it (`"prefix"`), another text
  or empty: the read loop tells no others apart. The length matters only for `"prefix"`, where the
  19 bytes compared reach into what an earlier message left in `buf_`. A datagram is read into the same
  buffer first, so only messages of the same round can be left there.
* `age` is the time since `recv_latest_time`, in ticks, up to one more than the limit.
* Each client keeps its conversation and its address, and messages fit `body_size`.
* `ChatClient` is a module of its own since what it is about, the length of the messages in one
  round, matters nowhere else. A message is its length; `shown` counts the bytes that are still
  those received when `HandleMessage` is called.

### The smaller programs

`MCNetwork` and `MCPrograms` hold programs that are executables of their own and never meet. A
behaviour runs one of them, chosen at the start (`active`), and the others stay in one initial state,
so the state space is the sum of theirs and every property speaks of its own program only. Sharing a
run costs nothing but the reader's patience; the first run has the programs whose liveness is
checked, the second those checked for safety.

**KcpClock** stands beside `Kcp`, which leaves to chance what timers do. Each timer carries, in `due`,
the real time it was set for, and the property compares the code's signed difference with it. The
clock is `gettimeofday` and may be set once, either way. One segment at a time is in `snd_buf`: each
has a timer of its own and no two are compared, except for the minimum `ikcp_check` takes with the
flush. A segment is acknowledged once, with one of the timestamps it was sent with, and fast resend and
`nodelay` are off, as `KcpOpt` has them. It is mapped to the `ikcp.c` under `tcp-udp-rtt/udp-rtt`, which differs from the
other copy, to which `Kcp` is mapped, in two comments.

**Reactor.** A byte is named by its position in the response. `send` and `sendfile` take any part of
what they are offered, or nothing. A slot of `conns` belongs to the descriptor and is not cleared when
its connection is closed in the middle of a response, so the next connection begins from there;
`tainted` marks such a connection, and one whose file could not be opened. `killed` is the end of
the process by `SIGPIPE`, or by the copy of negative length a left-over slot leads to. Requests carry
no content: the server never looks at them.

**TcpServers** only read, so data is counted in pieces. `ready` is what the last wait reported and
is not handled yet, while clients go on. `slipped` marks two steps of `pollio`: it overwrites the
entry of a leaving client with the last one and then closes the descriptor of the entry that was
moved there, and it makes an entry where the last one left its `revents`.

**WorkQueue** keeps the pointers of `LL_ADD` and `LL_REMOVE`, since what is doubtful is the list. What
`jobs_mutex` protects is one step; each `recv` of `nRecv` is a step. `curfds` is protected by nothing,
and overlapping updates may be lost. After `RunLimit` connections the main thread reads by itself. A client
sends as much as it likes. `nRecv` reads until its buffer of `MAX_BUFFER` is full or nothing is there;
`cut` marks a descriptor whose last read ended with the buffer full, until the client sends again.

**DnsClient.** A socket is its port, and a closed port is free for the next query. The network loses,
delays, reorders and repeats, queries and answers alike, so an answer may be under way to a port (`source`)
that another query has been given meanwhile. Nothing in an answer is compared with the query, as in the
code. **DnsMessage** is the
one module about bytes, since the property is about an encoding: labels and their lengths, compressed
names, record headers, the uninitialised bytes a `memset` leaves out (`Junk`). The two clients differ
in how they build the question and in what they do with records they do not know. A loop of the code
(over labels, names, records) is a function from the number of turns to what the loop works on, so that
each turn is an operator of its own (`Token`, `EncodeLabel`, `ParseLabel`, `SkipLabel`, `AsyncRecord`,
`Test5Record`); the number of turns is one that suffices for the loop to end (`Enough`: labels and pointers
take two bytes at least). The server accepts every question whose labels end right before its type and
class. That is more than real servers do, which refuse labels beyond 63 characters, so such names are not
`Proper` and nothing is claimed of them. Its answers have up to `MaxRecords` records of four kinds, whose
owner is a pointer to the name asked for or to the alias in the record before.

**RoundTrip** uses KCP as the channel that `Kcp` is shown to be. The receive thread's reading of the
clock, its reading of `start_time` and the notification are separate steps; main's `wait` gives up the mutex
and may wake spuriously. The server drops a session it has not heard of for five seconds (`HandleClose`) and
makes a new one of the next datagram. Both its directions count from 0 while the client goes on with its
numbers. So the client takes a notice only when it is numbered behind those it was handed (`told` keeps,
per number, what any session sent under it; `taken` is how far the client is), and the new session is handed
messages only up to the first that an earlier one acknowledged (`reach`).

In **Contacts** a node is an address that `delete` makes free for the next `new`; the lowest free
one is taken, and what is allocated (`heap`) is kept beside the pointers, so that a node left out of the
list shows. `List` follows `next` for as many steps as there are nodes.

**Contacts**, **CountWord** and **SqlTest** are sequential. They are checked against a definition by
sequences, by positions and by the image itself. In `SqlTest` every call of the database or of stdio that the
code looks at may fail, and so may three whose results it ignores: `mysql_stmt_send_long_data` (the server
misses a chunk and the loop goes on), `mysql_stmt_fetch_column` (the buffer keeps the zeros of its `resize`) and
the `fclose` of `write_img` (the file is cut short). `unnoticed` records those for the property. The table may hold an
image of an earlier run.

## 3. What is checked

| Run | Instance | Shows |
|---|---|---|
| `kcp_lossy` | 2 fragments, as one message or two; fast resend and congestion control on; 2 faults | types, `NothingForgotten`, `OldestUnacked`, `CwndPositive`, and that `Kcp` implements `KcpChannel` |
| `kcp_window` | 3 messages, windows of 2, one segment to a datagram, congestion control off, 1 fault | `WindowRespected` with the window closing and stale advertisements overtaken |
| `kcp_live` | 3 messages, windows of 2, congestion control on, 1 fault | `EventuallyDelivered`, `EventuallyDrained` under fairness |
| `pools` | one of: 3 concurrent submits, 2 workers, `stop` at any time; 3 threads, 2 connections to an `init`, 5 handles | types, `TaskInOnePlace`, `NoIdleBacklog`, `TaskEventuallyRuns`, `ConnInOnePlace`, `AvailableExact`, `NoIdleConnection`, `ShutdownFreesWaiters` |
| `threadpool_drain` | the same submits and workers | **violated**: `DrainedAtExit` |
| `threadpool_stop` | 1 submit, 2 workers, fair | **violated**: `StopReturns` |
| `chat` | 2 clients, one with 2 messages and one with 1, up to 2 sessions each, timeout of 1 tick | types, `SameRoom`, `RoomView`, `ReadsAll`, `SessionExpires` |
| `chat_keepalive` | the same | **violated**: `OnlyCommandsSwallowed` |
| `chat_shown` | 3 messages of 1 to 3 bytes | **violated**: `ShownUnchanged` |
| `network_programs` | one of: a web server with 2 connections to a descriptor and files of 0, 3 or 5 bytes; a TCP server with 2 descriptors and 3 clients; 3 DNS queries; 3 round trips | types, `ResponseExact`, `WatchedExact`, `AnswerToOwner`, `NewestExact`; under fairness `ResponseEnds`, `Served`, `CallbackComes`, `KeepsMeasuring` |
| `rtt_paired` | 2 messages, no other user, no session dropped | **violated**: `PairedWithSend` |
| `programs` | one of: 2 workers, 2 descriptors, 3 jobs, 3 pieces to a connection against buffers of 2; host names of up to 4 characters with labels of up to 3, answers of up to 3 records; a clock modulo 64; 4 nodes and 3 persons; texts of up to 5 characters; images of up to 5 bytes in chunks of 2 | `JobInOnePlace`, `NothingStranded`, `AcceptReturns`, `AnswersExact`, `TimersTrue`, `FlushInTime`, `ListExact`, `CountExact`, `ImageWhole` |

Meaning of the properties:

* `NothingForgotten`: a numbered segment is in `snd_buf` or with the receiver. It is what makes
  freeing on late and repeated acknowledgements safe.
* `OldestUnacked`: `snd_una` is the oldest segment of `snd_buf`, or `snd_nxt`.
* `WindowRespected`: at most `snd_wnd` segments are outstanding; `rcv_queue` stays within `rcv_wnd`
  and `rcv_buf` within the receive window. The stronger claim that a sender never transmits a segment
  the receiver must refuse is false: an old advertisement that is overtaken makes `rmt_wnd` too large,
  and the receiver drops the segment; the retransmission repairs it.
* `CwndPositive`: after the first flush the congestion window is at least 1.
* `ImplementsChannel`: every `ikcp_recv` returns exactly the next message of the other side.
* `EventuallyDelivered`, `EventuallyDrained`: every fragment arrives, and the sender learns of it.
* `TaskInOnePlace`: a pushed task is once in the queue, with one worker, or finished.
* `NoIdleBacklog`: an active pool never has work while all workers sleep and no notification is due.
* `TaskEventuallyRuns`: a submitted task runs unless the pool is stopped.
* `ConnInOnePlace`: a connection is open exactly while it is once in the queue or with one thread.
* `AvailableExact`: `available()` is the number of open connections that no thread uses. After a shutdown,
  connections that come back are counted although `acquire` returns `nullptr` until the next `init`.
* `NoIdleConnection`: while a thread sleeps in `acquire`, the idle connections are matched by woken
  threads.
* `ShutdownFreesWaiters`: nobody stays in `acquire` of a pool that is shut down.
* `SameRoom`: the users are those with a session, and what a later user was sent is the tail of what an
  earlier one was sent: one order of messages, joins and leaves for all.
* `RoomView`: a user is told of its own join first, and was last told of another that he left exactly
  when he is gone.
* `ReadsAll`: a round of the server leaves no message ready in KCP, except behind an empty one.
* `SessionExpires`: a session ends once its client has stopped, though late datagrams go on arriving.
* `ResponseExact`: a client is sent its responses byte for byte, each whole before the next request is
  read, however little `send` and `sendfile` take and although a file of which nothing was taken is
  opened again. Exceptions: `tainted` connections.
* `ResponseEnds`: a response that was begun ends, or its connection or the process does.
* `WatchedExact`: each server watches exactly the open descriptors, and no blocking `recv` or `accept`
  finds nothing; for `pollio` as long as it has not `slipped`.
* `Served`: what clients send is read to its end, with one report per edge or not.
* `AnswerToOwner`: a callback is called once and with the answer to its own query. The exception is a datagram
  that the network repeated: then it may get the answer to an earlier query that had the same port, and
  still never one to a later query or to another that is waiting.
* `CallbackComes`: an answer that has arrived is handed over, also when it came before the socket was
  registered.
* `NewestExact`: the answer to the newest message is measured from its send, whatever comes in between, and
  the answer to an older one is never measured too long.
* `PairedWithSend`: every answer is measured from the send it answers.
* `KeepsMeasuring`: the round-trip client is not left waiting for a notification that has gone by, until the
  server drops a session of which the client was handed something.
* `JobInOnePlace`: the list ends and holds exactly the jobs nobody has taken, and while it holds one not
  all the workers wait.
* `NothingStranded`: unread data has its event still to come, a job waiting or a thread receiving, unless the
  last read of its descriptor was cut short by a full buffer; then it waits for the client.
* `AcceptReturns`: the main thread's blocking `accept` finds a connection.
* `AnswersExact`: host names without empty or too long labels make questions a server accepts, and of the
  answer exactly the addresses are reported, in order and by the asynchronous client under the full
  name; in that client up to the first record of an unknown type.
* `TimersTrue`: the signed difference of wrapped timestamps says of each timer what is true of the time
  that passed, and no round-trip time is estimated longer than that.
* `FlushInTime`: the next flush is neither due at once nor further off than the interval or 10 s,
  however late the call and however the clock is set, and `ikcp_check` does not let it be slept over.
* `ListExact`, `CountExact`: list and count are what their definitions say.
* `ImageWhole`: a row holds a whole image, or what the server received of one of which it missed a chunk
  unnoticed; a run that succeeds leaves a row, whole, in the file, unless `fetch_column` or `fclose` failed
  unnoticed; the connection is given back once before the pool is shut down.
* `OnlyCommandsSwallowed`, `ShownUnchanged`: the read loops pass on every message that is not a
  keep-alive, and pass it on as received.

Two violations are disagreements between `threadpool.h` and its comments. `while(active_flag)`
makes a worker leave with tasks queued, though the comment says it leaves when there is nothing to
execute; and `stop` changes the flag and notifies without the mutex, so a worker that has just found
nothing to do sleeps through the signal that should wake it and `join` never returns.

Two are in the read loops. The server compares 19 bytes of its buffer with the keep-alive
command whatever the length of the message, so a user's `KCP_` read right behind a keep-alive is taken
for another one. The client reuses one string for the messages of a round and calls `resize` after the
bytes were written: behind a shorter message the string grows, and growing writes zeros over what was
just received.

The fifth is the round-trip client. `tcp-udp-rtt/README.md` says that `udp-rtt` computes the time from
sending a packet to receiving it. The notice of the client's own joining is measured and wakes main like an
answer, so main sends its second message before the first is answered, and from then on each answer is
measured from a later `start_time`: times are too short, or negative.

Seen while modelling, and not listed as findings since no text of the repository says otherwise:

* `reactor.cpp`: a slot left in the middle of a response is not cleared; the second opening of the file
  leaks the first descriptor; a full `recv` puts its terminator one past the buffer; writing to a client
  that is gone ends the process by `SIGPIPE`; when the file cannot be opened, what the buffer held is sent.
* `pollio` closes the wrong descriptor and reads stale `revents`, as said above.
* `server_mulport_epoll.c`: `workqueue_shutdown` is never called, and a worker told to terminate would
  keep the mutex; one `accept` for an event leaves connections that came together in the backlog; a
  job may close a descriptor that belongs to the next connection by then; `nRecv` stops when its buffer is
  full, and the data left has no event to come (`cut`); `curfds` may reach 0, which `epoll_wait` rejects.
* The DNS clients: identifiers are equal within a second and are not compared; a query that is lost keeps
  its socket for ever; a repeated answer may be handed to a later query with the same port;
  unknown record types make the asynchronous parser lose its place; a trailing dot or an empty label makes a malformed question.
* `contacts.cpp` truncates its file before it saves, and loops on a menu choice that is not a number.
* `sqltest.cpp`: `mysql_write` leaves its statement open, and a chunk that is not sent, a column that is not
  fetched or a file that is not flushed goes unnoticed, so part of an image may be stored or saved as a success.
* After the server dropped its session the round-trip client may wait for ever: the notices of the new session
  are numbered as ones it already has. The chat client misses messages in the same way.

### Bounds

`SendLimit` bounds the fragments sent, `NetCap` the datagrams queued for a peer, `AckCap` the
acknowledgements a peer collects before it flushes, `MaxFaults` the losses, repetitions and
reorderings in transit (drops at a full socket buffer come on top). Two fragments are the fewest that
let one be acknowledged before the other, form a message of two parts and trigger a fast resend; three
against windows of two close the window, and the third cannot be numbered before the first is
acknowledged. Only one side sends: the halves of a control block share nothing but the headers `una`
and `wnd`, which acknowledgements carry too. In the pools, two workers and three tasks (three
threads and two connections) are the fewest where one is overtaken while another waits; five handles
allow two initialisations and a third that fails. In `Chat`, two messages of one client are the fewest that
can be read in one round, the other client is the one who is told, and two sessions let a conversation
come back after its timeout. A client's limit counts its keep-alives.

In the smaller programs: a header that fills the buffer, a file that does not divide by it, and an
empty one; two connections to one descriptor, so that the second meets what the first left; two
descriptors and three clients, so that a descriptor is used again while the other is handled; three
queries, as ports are reused while two others are open; answers to two messages under way while a third
is sent, one datagram repeated and one session dropped. Three jobs are one with each of two workers and one waiting.
With a `RunLimit` of 1 the second connection makes the main thread read by itself, and three pieces against a
`MAX_BUFFER` of 2 fill a buffer with data left. The clock wraps
at 64 within the 14 ticks of a behaviour that starts at 58, and is set by less than and more than the
slack of 9. Of host names over a letter and the dot, four characters allow two labels, empty labels at either
end and in the middle, and labels at and beyond the limit of 3; three records are the fewest where an
address follows an alias and something follows that. Two persons share a name and one is blank, as a
lookup goes by name and a blank entry is what an unused node holds; four nodes let one of the middle be
deleted and its address be used again. Blocks and chunks of 2 against sizes 0 to 5 end within, at and
behind a word or an image.
Each bound is a constant of its module and is marked so.

`programs`, which checks invariants only, uses the symmetry of the workers, who are never compared
with one another. No other run uses symmetry: their state spaces are small and most check liveness.

### Fairness

* `Kcp`: the update thread flushes for ever and time passes, so flushes that find all timers run out
  recur; strong fairness says that some of them meet an empty socket buffer (a link congested for good
  would deliver nothing). The receive thread hands over what arrives and reads complete messages.
  Sending and faults are never obliged.
* `ThreadPool`: weak fairness of each thread's steps and of calls already begun. The mutex being
  passed fairly is not needed: a weak assumption per worker is enough.
* `ConnectionPool`: a woken thread gets the mutex in the end. Nobody is obliged to release.

* `Chat`: the update thread runs for ever and time passes. Clients, and the network, are never obliged.

* `Reactor`: the loop runs on, and a client takes something now and then.
* `TcpServers`: the loop runs on; clients are never obliged.
* `DnsClient`: both threads run on; nothing is assumed of the network.
* `RoundTrip`: the threads and the server run on, keep-alives make a session, and KCP delivers what the session
  has sent once it is numbered behind what the client has (`kcp_live`). What a dropped session left under way
  need not arrive. Nothing keeps the server from dropping a session.

Deadlock checking is off for the pools and for the two runs of the smaller programs: with the
finite set of submits used up and the pool stopped, it really stops, and so do programs that end and
servers whose clients have all left.

## 4. What is proved

All theorems hold for every value of the constants that meets the named assumptions, which TLC
evaluates in the runs. They are what the code's own constants and arrays satisfy:

| Assumptions | What they ask |
|---|---|
| of `Kcp`, `KcpCwnd`, `KcpPeers` | window sizes at least those `ikcp_wndsize` enforces, a positive `mss`, thresholds as in `ikcp.c` |
| of the pools | `None` and `NoConn` are distinct, the set of threads is non-empty or finite |
| `ChatAssumption` | finitely many clients, a `None` that is no session, natural bounds |
| `QueueAssumption` | finitely many descriptors and jobs, which are no null pointers; a worker; room for a byte; `MaxPieces` is a bound, any positive number |
| `DnsConstants` | positive query numbers; `NoPort` is no port |
| `WebAssumption` | the header fits in its buffer of `BUFFER_LENGTH`, as `webserver.cpp` formats it into that array |
| `TcpAssumption`, `RttAssumption` | finitely many descriptors; positive loop and piece counts |
| `ClockAssumption` | `IKCP_INTERVAL` is within the limits of `ikcp_interval`; interval plus slack, and the time that passes in a behaviour plus the longest wait (twice that time, `RTO_MAX` with its eighth, or `PROBE_LIMIT`), are below half the range of a timestamp; `MaxElapsed` is the model's bound, and with timestamps of 32 bits it may be 12 days |
| `WordAssumption`, `SqlAssumption` | blocks and chunks are not empty |
| `BookAssumption` | finitely many nodes, none of them `nullptr`; a block of the file is not empty |
| `MessageAssumption` | host names of up to 125 characters, which with an alias before them fit `aname[128]`; the records begin within the 256 bytes that a pointer reaches, as `dns_parse_name` uses its second byte only |

Invariants over sequences need induction on a length. The library's induction theorems cannot be
instantiated here, but well-foundedness of the naturals can be cited: a statement that failed for
some number would fail for a least one (`LeastNat`), and that it holds one below gives the contradiction.

* `KcpTypeProofs`
  * `TypeCorrect`: `Spec => []TypeOK`. `TypeOK` is inductive; one lemma per action. The work is in what
    the helpers return: datagrams are sequences of segments, the flushed buffer is finite, congestion
    arithmetic stays in the naturals (the divisor `imax(incr, MSS)` is positive).
  * `CwndStaysPositive`: `Spec => []CwndPositive`. Inductive together with the types: a flush ends with
    at least 1, and an acknowledgement changes the window only when it is below `rmt_wnd`, which
    is then positive, so the cap cannot close it.
* `KcpProofs`: `NoSegmentForgotten`, `UnaIsOldest`, `WindowsHold` and `KcpImplementsChannel`
  (`Spec => ImplementsChannel`), all from one inductive invariant `IInv` (`Invariance`). None of the four
  is inductive alone, because what a step does depends on datagrams sent long before. `IInv` says of
  every place a fragment can be in that it carries the fragment of its number: `QueueInv` for
  `snd_queue` (the part of `sent` from `snd_nxt` on), `BufInv` for `snd_buf`, `ReceivedInv` for what is
  delivered, in `rcv_queue` and in `rcv_buf`, which together are a prefix of `sent` with gaps only
  beyond `rcv_nxt`. `NetInv` says that what a datagram or a pending acknowledgement claims (`GoodSeg`:
  `una` at most `rcv_nxt`, an ACK names a segment the receiver holds, a PUSH carries the fragment of its
  number) is true, and `GoodGrows` that it stays true: `rcv_nxt`, `snd_nxt`, `sent` and the set of
  segments held only grow, so a datagram may be as late as it likes. `KeptInv` and `WndInv` are the
  properties themselves, and `MessageInv` says that `sent` is made of whole messages. One lemma per action
  shows the step. For the refinement, `WholeMessage` shows that the merge loop of `ikcp_recv` stops at
  the end of a message and not at the end of the queue, so `Recv` is a `Channel!Recv`; `Send` is a
  `Channel!Send`, and every other action leaves both histories alone.
* `ThreadPoolProofs`: `TypeCorrect`, `TasksKept` and `NoLostWakeup`. The inductive invariant adds that a worker holds
  the mutex exactly in its critical section (`MutexInv`), that one about to sleep still has an empty
  queue (`SleepInv`), since pushing needs the mutex, that `running` matches the place in the code
  (`RunInv`) and that workers leave only after `stop` (`DoneInv`).
* `ConnectionPoolProofs`: `TypeCorrect`, `ConnectionsKept`, `NoWaitBesideIdle`, `CountExact` (`AvailableExact`).
  `IInv` has the first three and, for the last, that the counter is the length of the queue (`CountInv`). That this is
  the number of open connections nobody holds follows from `ConnectionsKept`: the queue is a bijection onto
  them (`IdleCounted`). For `NoIdleConnection` the counting step is that waking one thread adds one to the awake
  set, while an `acquire` removes at most one awake thread together with one idle connection.
* `ChatProofs`: `TypeCorrect`, `OneConversation` (`SameRoom`), `EveryoneKnowsTheRoom` (`RoomView`) and
  `AllRead` (`ReadsAll`). What a user is told is a suffix of what an earlier user is told, so of any two
  users one's messages end with the other's; `RoomInv` says that, that everybody's begins with his own
  join, and that the last thing it says of anybody agrees with the set of users (`Knows`).
  `ReceivedInv` ties each session's receive window to what its client has sent, from which `Receive`
  reads on to the first gap. The walk of `Update` over the expired sessions is the long step: each
  departure is told to those who are left, in whatever order the map yields.
* `WorkQueueProofs`: `QueueKeepsJobs` (`JobInOnePlace`), `NoDataStranded` (`NothingStranded`) and
  `AcceptNeverBlocks` (`AcceptReturns`). `ListInv` says that some arrangement of the waiting jobs is what
  `next` and `prev` link from `head`; inserting in front and taking the first are shown to yield another
  arrangement, and `TakenInv` that no two threads have one job. `NothingStranded` is not inductive:
  `StrandInv` asks that a reader is still in the loop of `nRecv` (`Takes`), which he leaves when nothing is there
  or with the buffer full, and then the descriptor is `cut`, however much a client sends. `AcceptInv` counts
  the events of the listening socket against arrivals.
* `NetworkProofs`
  * `AnswersReachOwners` (`AnswerToOwner`), for any queries, ports and repetitions. It is not inductive: a
    callback takes what is in its socket's buffer. `BoundInv` says that every datagram is addressed to the
    port its query named, and `SourceInv` that of the queries that ever had a port, its owner is the last; so what is
    read is the answer to that query or to an earlier one (`Callable`). As long as nothing was repeated, `StrictInv`
    excludes the earlier one: a query is on its way, answered or received but never two of these, so
    nothing is left under way when its port is closed. A query has its port exactly from its commit to its
    callback (`OpenInv`), and a port is given only when nobody has it (`PortsApart`).
  * `ResponsesExact` (`ResponseExact`). `woffset` counts the bytes sent of a response, so
    the bytes on the wire number `woffset` modulo the length of a response and each is the one of its
    position (`Exact`); `SlotOK` relates `woffset`, `wfile_offset` and what is left in the buffer, also
    in a slot that an earlier connection left. Connections that found their slot not clean, or whose file
    could not be opened (`tainted`), are excepted, as in the property.
  * `WatchExactly` (`WatchedExact`). For `select` and `epoll` what was reported is still open when its
    turn comes although descriptors are reused at once (`LoopInv`); `pollio`'s array lists the open
    descriptors once each until it slips (`ArrayInv`), and as many as there are, by counting.
  * `NewestTimeExact` (`NewestExact`). `start_time` is the latest of the sending times, which never run
    back, and an answer in hand, of whichever session, is to a message that was sent (`SentInv`, `NoticeInv`).
  * `NetworkTyped`: the type invariants of all four.
* `ProgramProofs`
  * `TimersExact` (`TimersTrue`). Until the clock is set, every timestamp in a segment or probe tracks a
    real time up to one multiple of the modulus (`Tracks`), which `_itimediff` undoes if the times are
    less than half the range apart. A retransmission time doubles, but only after its timer
    has really run out, so it is never more than twice the time that passed, or that and `RTO_MAX`:
    `seg.rto <= seg.due` is the strengthening this rests on. No bound on the number of
    transmissions is needed.
  * `FlushesOnTime` (`FlushInTime`), also after the clock was set by any amount: `Corrected` leaves a
    `ts_flush` within the slack of the clock, and within half the range the difference changes its sign
    with its arguments. At exactly half the range it does not (`_itimediff` is negative both ways);
    the correction is what keeps `ikcp_check` from that point.
  * `WordsCounted` (`CountExact`): the state and the count after each character of a block are those of
    all the characters so far, by the least character for which they are not.
  * `ImagesWhole` (`ImageWhole`), however the calls fail, noticed or not. `WriteInv` says that what the server has
    is what the image begins with, up to the offset, unless a chunk was missed; `ReadInv` the same of the buffer
    and the row; `PieceGrows` that a chunk continues it and `PieceFits` that it stops at the end. `RowsInv` keeps
    the table; `FailInv`, `ReleaseInv` and `StmtInv` say for each step what has failed, was given back and is open.
  * `BookExact` (`ListExact`). `BookInv` says that some arrangement of the allocated nodes is what `next`
    and `prev` link from `data`, without repetition, and that its persons are the user's book. Insertion
    puts a free node in front, removal takes any position out, at either end or between; both yield an
    arrangement again, and the walk `List` is that arrangement since it visits a new node at every step.
    For `load_file`, the entries inserted after each block are those read so far, in reverse (`Loaded`),
    by the least entry of a block and the least block for which that fails.
  * `AnswersRight` (`AnswersExact`). The strengthening says what the bytes are: after `Ask`, in both clients
    and whatever `malloc` left, the request is `Begin(hostname, 0)`, a closed form of header, name and
    trailer in which the length of each label stands where its dot was (`Name`); after `Respond` the
    response is `Answer(hostname, records)`. Each loop is unrolled by the same lemma (`TurnsAre`) and
    gets an invariant on its turns. Encoding: the bytes written up to a label are those of `Name` (`NamesWritten`).
    Skipping: after each label the position is the start of the next, and the last turn stands at
    the zero (`NameSkipped`). Decoding: what is read up to a label is the host name up to there (`NameRead`),
    also behind a pointer and behind an alias' own label (`HostNamed`, `AliasNamed`). Records: the k-th is found
    where it was put unless an unknown type came before, and the addresses found so far are the expected
    ones (`Finding`).

Only model-checked:

* all liveness properties (`EventuallyDelivered`, `EventuallyDrained`, `TaskEventuallyRuns`,
  `ShutdownFreesWaiters`, `SessionExpires`, `ResponseEnds`, `Served`, `CallbackComes`, `KeepsMeasuring`), as
  fairness and `ENABLED` are outside the prover;
* the five properties that the code violates, for which a counterexample is the result.

## 5. Not modelled

Of the session layer: a client that changes its address (`SetAddr`), two clients with the same
conversation (`rand() * rand()`), messages longer than the read buffers, on which both programs exit, and
the client's `HandleClose`, which is never reached because only a server's `Update` returns true.

Of the servers: the loops of `test7` and `test8` with a thread or a task for each connection, whose
threads share nothing; errors of `accept`; the echo of `nSend`; `workqueue_shutdown` and `client_cb`, which
nothing calls. Of the DNS clients: messages beyond the
buffers and the synchronous client that is compiled into the asynchronous one and never called.
Of `contacts.cpp` the reading of the menu.

The HTTP client is one blocking request, the WebSocket files are stubs, the coroutine examples are
sequential demonstrations with fixed numbers of switches, the hooks print around the real calls, and
the TCP round-trip pair is one blocking exchange after the other: these stay out. `server.c`,
`client.c` and `test.cpp` are example programs over the same `ikcp.c`, and the latency simulator does at
random what the network of `Kcp` does nondeterministically. The load generators are clients.

## 6. Plan

Every invariant and the refinement that the passing runs check are proved; what could be added:

1. Of the session layer: address changes and shared conversations; a session made anew against a client
   with old numbers, composed with the control block's receive window.
2. `KcpClock` with several segments, as a refinement of the choices `Kcp` makes at a flush.
