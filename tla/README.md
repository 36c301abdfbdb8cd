# TLA+ models of muduo_study

These are TLA+ models of the muduo networking library as it appears in `src/muduo/`. The models are checked with TLC. Each module is translated from the C++ source. The exceptions are the parts of EventLoop whose `.cc` file is absent from the tree: those follow `spec.md` §4.4 and are marked `spec_modelled` in `PROJECT.json`.

## 1. The system

muduo is a reactor library with one `EventLoop` per thread. Its parts interact as follows.

| Part | Source | State | Operations | Talks to |
|---|---|---|---|---|
| EventLoop functor queue | `net/EventLoop.h` (the .cc file is absent) | `pendingFunctors_` (under `mutex_`), `callingPendingFunctors_` | `runInLoop` (runs inline on the loop's own thread), `queueInLoop`, `doPendingFunctors` (swap the queue out, then run it) | every other part: it is how work crosses threads |
| TimerQueue / Timer | `net/TimerQueue.{h,cc}`, `net/Timer.cc` | `timers_` (by expiration), `activeTimers_` (by address and sequence number), `cancelingTimers_`, `callingExpiredTimers_`, the timerfd | `addTimer`/`cancel` (any thread, through `runInLoop`), `addTimerInLoop`, `cancelInLoop`, `handleRead` = `getExpired` + callbacks + `reset`, `insert`, `Timer::restart` | EventLoop (functors), user callbacks |
| TcpServer | `net/TcpServer.cc` | `connections_` (name → `TcpConnectionPtr`), `started_`, `nextConnId_` | `start` (`getAndSet`, then the pool and `listen`), `newConnection`, `removeConnection` → `removeConnectionInLoop`, `~TcpServer` (queues `connectDestroyed` for each connection) | Acceptor (base loop), TcpConnection (I/O loop) via functors |
| Acceptor | `net/Acceptor.cc` | listen socket, `idleFd_` | `listen`, `handleRead` (accept, EMFILE recovery) | TcpServer::newConnection |
| TcpConnection | `net/TcpConnection.cc` | `state_` (Connecting, Connected, Disconnecting, Disconnected), channel interest, `outputBuffer_`, the socket, the shared_ptr count | `connectEstablished`, `send`→`sendInLoop`, `shutdown`→`shutdownInLoop`, `forceClose`→`forceCloseInLoop`, `handleRead`/`handleWrite`/`handleClose`, `connectDestroyed` | its I/O loop, TcpServer, the user thread, the peer |
| Channel | `net/Channel.h` | `events_`, `index_` | `enable`/`disable` interest, then `update()` | Poller |
| PollPoller | `net/poller/PollPoller.cc` | `pollfds_`, `channels_` | `poll`, `updateChannel`, `removeChannel` (swap with the last entry) | Channel |
| EventLoopThread(Pool) | `net/EventLoopThread*.cc` | `loop_` under `cond_`; `loops_`, `next_` | `startLoop` handshake, destructor `quit`, `getNextLoop` round-robin | TcpServer |
| Buffer | `net/Buffer.cc` | read and write indices | `readFd` (two-vector read) | TcpConnection |
| HTTP | `net/http/*` | `HttpContext` parse state | `parseRequest`, `onMessage`, `onRequest` | TcpConnection callbacks |
| base threading | `base/*.h`, `Thread.cc` | queues, latch, mutex, condition | `put`/`take`, `countDown`/`wait`, `Thread::start` | ThreadPool, EventLoopThread |
| logging | `base/Logging.cc`, `base/LogStream.h`, `base/LogFile.cc` | `g_logLevel`; a `FixedBuffer` per record; file roll and flush counters, the current file's written bytes | `LOG_xxx` and `~Logger`, `setLogLevel`, `FixedBuffer::append`; `append` (under `mutex_`), `append_unlocked`, `flush`, `rollFile` | `Logger::setOutput`/`setFlush` wire the Logger to a LogFile; the wall clock |

**Threads.** The base loop runs the Acceptor and the TcpServer registry. With `setThreadNum(n)` for n > 0, connections live on I/O loops; with n = 0 they live on the base loop. A user thread may call the thread-safe methods `send`, `shutdown` and `forceClose` on a `TcpConnectionPtr` it holds, and `addTimer` and `cancel` on a TimerQueue.

**Hard behaviours.**
- Cross-thread calls that test `state_` and then act on it, which the code marks "FIXME: use compare and swap".
- Functors bound to a raw `this`.
- The connection's lifetime, spread over the registry, the user's copy and the queued functors.
- The graceful-close protocol: FIN waits for the output to drain.
- Timer cancellation while callbacks run.
- Re-arming the timerfd.
- Level-triggered poll fairness.
- The `pollfds_` vector's swap-with-last removal, with fds reused by the kernel.
- Start-up handshakes between threads (latch, `cond_`), and signal-one wakeups on bounded queues.
- Flow control (`startRead`/`stopRead`) driven from write-complete and high-water-mark callbacks.
- HTTP requests that arrive several per `read()`.

**One loop iteration.** `EventLoop::loop()` polls, runs `handleEvent()` once for each active channel (a channel's read before its write), and then runs `doPendingFunctors()`. Functors queued during an iteration therefore run before any channel is handled again. The models keep this shape through `HandleEvent` and `DoPendingFunctors` in `EventLoop.tla`: a channel already handled in the current iteration cannot be handled again until the functor round has run. Without this, a model would let the same socket be read twice between a callback and the functor it queued, which the code never does.

## 2. Modules

| Module | Models | Composes |
|---|---|---|
| `EventLoop` | `pendingFunctors_`, `queueInLoop`, `doPendingFunctors`, and the shape of one `loop()` iteration (spec_modelled; `EventLoop.cc` is not in the tree) | — |
| `TimerQueue` | TimerQueue on one loop; a thread that adds and cancels timers; callbacks that add and cancel timers inline | EventLoop |
| `TcpServer` | TcpServer + the accept path + TcpConnection + Channel interest; a base loop and an I/O loop (possibly the same); a user thread; TCP peers | EventLoop |
| `PollPoller` | `PollPoller` (`poll`, `updateChannel`, `removeChannel`), Channel's interest calls, and the Acceptor (constructor, `listen`, `handleRead` with EMFILE recovery, destructor), with fd reuse | — |
| `EventLoopThreadPool` | `EventLoopThreadPool::start`/`getNextLoop`/destruction, `EventLoopThread::startLoop`/`threadFunc`/destructor, `Thread::start` with its `CountDownLatch` | — |
| `Buffer` | one `Buffer`: `readFd` (two-vector `readv`, spill from `extrabuf` through `append`), and `append`/`makeSpace`/`retrieve`/`retrieveAll` from spec 4.6 (`Buffer.h` is not in the tree) | — |
| `MutexLock` | `MutexLock`'s `lock`/`unlock` with `holder_`, `Condition::wait`'s `UnassignGuard`, `notify` and spurious wakeups, statement by statement, driven by one `EventLoopThread`'s `startLoop`, `threadFunc` and destructor | — |
| `FifoQueue` | the abstract queue both blocking queues promise: whole `put`, `take` and `drain` calls on a FIFO of bounded length | — |
| `BoundedBlockingQueue` | `put` and `take` with `notFull_`/`notEmpty_` and `pthread_cond_signal` wakeups | refines `FifoQueue` |
| `BlockingQueue` | the unbounded queue: `put` (never blocks), `take`, `drain`, and spurious wakeups from `pthread_cond_wait` | refines `FifoQueue` |
| `LogFile` | `LogFile::append`/`append_unlocked`/`rollFile`/`flush` and the constructor, with a wall clock that can be stepped back and the bytes still in `AppendFile`'s buffer | — |
| `Logging` | the `LOG_xxx` macros' level filter, `Logger`'s constructors and `Impl`, `finish`, `~Logger` (`g_output`, and for FATAL `g_flush` and `abort`), `setLogLevel`, `initLogLevel`, and `FixedBuffer::append` over piece lengths | `LogFile`, through `INSTANCE` with shared variables: `g_output` is `LogFile::append` and `g_flush` is `LogFile::flush` |
| `HttpServer` | `HttpServer::onMessage`/`onRequest`, the whole `HttpContext::parseRequest`/`processRequestLine` state machine, `HttpRequest::setMethod`/`addHeader`/`getHeader` | — |
| `MC_*` | the instantiations TLC checks: model values and small sets for the constants. `MC_Queues` runs both blocking queues side by side in one specification | their module. `MC_PollPoller` runs a `Buffer` beside the poller, and `MC_EventLoopThreadPool` runs a `MutexLock` beside the pool; the pairs share no state, so each step is a step of one of them |

### TimerQueue

- **Addresses and ids.** `timer[a]` is the `Timer` at heap address `a`. Addresses are naturals, ordered the way `std::set` orders the pointers. An address is reused after `delete`. A `TimerId` is the pair `<<address, sequence>>`.
- **State.** The sets `timers` and `activeTimers` are `timers_` and `activeTimers_`. `armed` is the timerfd's expiration.
- **Actions.**
  - `AddTimer` and `Cancel` are the other thread's `addTimer` and `cancel`, queued through `runInLoop`. `RunFunctor` runs `addTimerInLoop` or `cancelInLoop`.
  - `HandleReadBegin` covers `handleRead` up to its callback loop: `getExpired`, setting `callingExpiredTimers_`, and clearing `cancelingTimers_`.
  - `RunExpired` is one callback. It does nothing, cancels a timer it knows, or adds a timer, inline.
  - `HandleReadEnd` is `reset(expired, now)`, with `Restart` = `Timer::restart`.
- **timerfd.** `ResetTimerfd` is `resetTimerfd` with `howMuchTimeFromNow`, which floors the delay at 100 µs. An expiration already in the past therefore arms the timerfd to fire at once (here: at `now`) instead of disarming it. `Tick` advances the clock.

### TcpServer

**State.**
- `state[c]` is `state_`. Its extra value `"None"` means the peer has not connected yet.
- `chan[c]` is the channel's `events_`, and `inPoller[c]` says whether the channel is registered in the poller. `reading[c]` is `reading_`.
- `out[c]` is `outputBuffer_.readableBytes()`, and `sock[c]` is the number of units in the kernel send buffer (capacity `SndBuf`).
- `finSent[c]` records that `shutdownWrite()` has run. `registry` is `connections_`.

**Functors.** Functors are records. A functor that bound `shared_from_this()` or a `TcpConnectionPtr` holds a reference: `StrongOps`. A functor that bound the raw `this` does not: `RawOps`. `RefCount(c)` counts the registry, the user's copy and the owning functors. `Destroyed(c)` means this count has gone to 0 after creation: the destructor has run. When a raw functor runs on a destroyed connection, the behaviour is undefined. The model lets it do nothing, and `NoDanglingRawFunctor` flags the state before that happens.

**Actions.**
- `NewConnection` (base loop) is `Acceptor::handleRead` plus `newConnection`. It runs `connectEstablished` inline when the I/O loop is the base loop.
- `HandleReadData`, `HandleReadEof` and `HandleWrite` are the I/O loop's channel events.
- `RunFunctor` dispatches each functor kind to the TcpConnection/TcpServer operator it calls.
- `HandleClose` includes `connectionCallback_` and `closeCallback_` = `removeConnection`. It runs `removeConnectionInLoop` inline when the loops coincide.
- The message callback's choices are what `HttpServer::onMessage`/`onRequest` do: nothing (incomplete request), `send`, or `send` then `shutdown`. `forceClose` is the other call a callback makes.
- The write-complete and high-water-mark callbacks are queued functors. With the constant `FlowControl`, they call `startRead()` and `stopRead()`, the usual back-pressure use. Otherwise they do nothing.
- The user thread's `send`, `shutdown` and `forceClose` are each split where the code reads `state_` and then acts: `SendCheck`/`SendQueue`, `ShutdownCheck`/`ShutdownSet`, `ForceCloseCheck`/`ForceCloseSet`. `UserRelease` drops the user's pointer.
- The peer sends (`PeerSend`), closes (`PeerClose`) and drains the kernel buffer (`PeerRead`).

**Server lifetime.** `server` is `"constructed"`, `"started"` or `"destroyed"`. `Start` is the first `start()`: it must run on the base loop's thread (the pool's `start` asserts it), so a second call is a no-op and is left out. `NewConnection` needs a started server. With the constant `ServerDestroyed`, `TcpServerDestroy` is `~TcpServer` on the base loop: it empties `connections_` and, for each connection, runs `connectDestroyed` in place (one loop) or queues it on the I/O loop behind whatever is already there. The connections themselves survive, held by those functors and by the user. The destructor goes on into the thread pool's (`TcpServer.h` is not in the tree; the pool is a member, destroyed after the body): `~EventLoopThread` calls `quit()` on the I/O loop and joins its thread. `ioLoop` tracks that loop: `QuitIoLoop` is the `quit()`, which lets the loop finish the round it is in (`"final"` when `doPendingFunctors` is under way, `"wake"` when the loop will first poll once more); `LoopExit` is `loop()` returning in `threadFunc`, where the `EventLoop`, a local, is destroyed with whatever functors it still held. While the base thread waits in `join()` (`InDestructor`) its loop runs nothing, and after `LoopExit` the I/O loop neither polls nor runs functors. `RemoveConnection` is `closeCallback_`: it binds the server's raw `this`, so a call after the destructor is counted in `deadServerCalls` and its effect is left out.

**Writes.** A direct write writes `min(len, room)` units, where room is the free space in the kernel buffer. With no room it fails with EWOULDBLOCK and writes 0. After `shutdownWrite()` it fails with EPIPE, which sets `faultError` and drops the data.

### PollPoller

`pollfds` is `pollfds_` as a sequence of `[fd, events]`, and `channels` is `channels_` (fd → channel). `index[ch]` is `index_`. An entry with no interest keeps its place with fd `-fd-1` (`Ignored`). `removeChannel`'s asserts set `aborted`, which ends the behaviour with the state the failed assert found. `connState` keeps `state_` as far as `connectDestroyed` needs it: `ConnectEstablished` (kConnected and `enableReading`), `Shutdown` (kDisconnecting, no poller change), `HandleClose` (its assert, kDisconnected and `disableAll`), and `ConnectDestroyed`, which disables the channel only in kConnected before `remove()`. `UnlistenedAcceptor` lets the Acceptor be destroyed without `listen()` (a TcpServer destroyed before `start()`). The kernel hands out the lowest free fd (`Lowest(FreeFds)`), so a closed connection's fd is reused by the next `accept`. The Acceptor holds the listening fd and `idleFd_`. With three fds, the second connection meets EMFILE unless the first is closed.

### EventLoopThreadPool

Each critical section is one step. A condition wait is split into the step that releases the mutex and blocks, and the step that re-acquires it after a notify; only a notify wakes a waiter. The base thread's `basePc` walks through `start()` (for each worker: `Thread::start`, the latch wait, `startLoop`'s `cond_` wait), then `NumConns` calls to `getNextLoop()`, then destruction (quit, then join, worker by worker). Each worker's `childPc` walks through `runInThread` (store tid, count down), `threadFunc` (publish `loop_`, notify, serve) and the exit.

### Buffer

`store` is `buffer_`, with `store[i+1]` the byte at index `i`. A byte is its position in the stream of bytes that entered the buffer (1, 2, ...), and `Garbage` (0) fills fresh space, so a lost, doubled or reordered byte is visible. `kernel` counts the bytes the peer sent that `readFd` has not taken. `ReadFd` offers `writable` bytes plus `extrabuf` when `writable < sizeof extrabuf` (the `iovcnt` test), takes what the socket holds up to that, and when `n > writable` sets `writerIndex_` to the end and `append`s the rest, which may move the readable bytes back to `kCheapPrepend` or resize (`MakeSpace`). `AppendData` is `sendInLoop`'s `append` and `Retrieve` is `retrieve`, which becomes `retrieveAll` when it takes everything.

### MutexLock

Each thread runs its statements in order (`Prog`), with `pc` its position. `owner` is the pthread mutex's owner and `holder` is `holder_`. `lock()` is two steps (`pthread_mutex_lock`, then `assignHolder`) and `unlock()` is two (`unassignHolder`, then `pthread_mutex_unlock`). `Condition::wait()` is `UnassignGuard`'s `unassignHolder`, then `pthread_cond_wait` (release and block atomically; `Notify` or `SpuriousWakeup` makes it runnable; `Reacquire` takes the mutex back), then the guard's `assignHolder`, and the `while` re-tests `loop_`. The destructor reads `loop_` without the mutex, as the code does.

### Queues

`queue` is the deque, and each thread's `pc` is `idle`, `waitNotFull`, `waitNotEmpty` or `woken` (runnable again, not yet holding the mutex). One critical section is one step. `Notify` wakes one waiter of the condition. A woken thread re-tests the condition in the code's `while` loop, and another thread may take the mutex first. In `BlockingQueue`, `SpuriousWakeup` makes a waiting consumer runnable with no signal; it is a fault the code must tolerate, so it has no fairness. `Drain` is `drain()`: it moves the whole deque out and signals no one.

**Refinement.** `FifoQueue` is the queue as its callers see it. Each of its steps is one whole `put`, `take` or `drain` on a sequence of at most `Capacity` items. Both blocking queues instantiate it with `INSTANCE FifoQueue WITH ...` and check `Fifo!Spec` as a property. The mapping is the identity on `queue`, `done` and `got`. `BlockingQueue` maps a drainer to an abstract consumer and hides its `done`. Blocking, waking and re-testing are stuttering steps of the abstract queue.

### LogFile

`file` is `file_` reduced to its name and `writtenBytes()`. `disk` holds the bytes on disk under each name, because `AppendFile` opens its file for appending. `getLogFileName()` is modelled by what varies in it: the second it is called in. A line is its length. `now` is `time(NULL)`. `Tick` moves it on, and `StepBack` sets it back (a wall-clock adjustment), at most `MaxStepBacks` times. `unflushed` counts the bytes of `file_` still in `AppendFile`'s 64 KiB stdio buffer: a roll (new file) or a periodic flush empties it, and `Flush` (`LogFile::flush`) does too. The buffer never fills within the bounds, so no write of its own happens. With `threadSafe`, a whole `append()` runs under `mutex_` and is one step. `overrun` counts the lines in a row written into a file while the clock is already past the file's day.

### Logging

A statement is a record of its macro, the lengths of its message pieces, its `__FILE__` as the lengths of the path's parts, its `__LINE__` and `errno`. `Pieces` lists every piece the statement puts into its `LogStream`, in order: `formatTime()`'s 17 + 8 or 9 characters, the tid, the level name, for `LOG_SYSERR`/`LOG_SYSFATAL` strerror and `(errno=N) `, for TRACE/DEBUG `__func__` and a space, the message, and `finish()`'s ` - basename:line\n`. `RecordLen` folds `FixedBuffer::append` over them: a piece is copied only when `avail() > len` and is otherwise dropped whole. `LogStatement` is the whole statement, from the macro's level test to `g_output`, which is `LogFile::append` of the record length: the record is built in a buffer of the calling thread, so nothing interleaves before `g_output`. After a FATAL record, `loggerPc` walks through `FlushFatal` (`g_flush`, which is `LogFile::flush`) and `Abort`. `Clock` lets the wall clock move on or step back until `abort()`.

### HttpServer

Bytes are abstracted to lines. `findCRLF()` succeeds exactly when a whole line is buffered, so the peer's `read()`s deliver 1 to `MaxChunk` whole lines. A line is the sequence of its space-separated words plus whether it contains `:`. `ParseRequest` is the `while (hasMore)` loop as a RECURSIVE operator, and it returns the context, the buffer left, the return value and whether `setMethod`'s assert failed. `Receive(k)` is `handleRead` followed by `onMessage`. A peer that does not pipeline (`Pipelining = FALSE`) sends no line of a request before it has the previous response.

## 3. Runs

| Run | cfg | Expect | Checks | Shows |
|---|---|---|---|---|
| `timerqueue` | `MC_TimerQueue.cfg` | pass | TypeOK, TimerListsAgree, NoCancelledTimerRearmed, ArmedCoversEarliest, DueTimersRun | The two timer sets agree and are keyed by current expirations. A cancelled timer, including one cancelled from its own callback (S5), is never re-armed. The timerfd is never later than the earliest timer. Every due timer runs. |
| `logfile` | `MC_LogFile.cfg` | pass | TypeOK, WrittenBytesMatchDisk, OverrunBounded | Logger records written through a LogFile. `rollFile()` never reopens a file that already holds lines, even when the clock is set back, so the size check sees the real size. The day check lags by at most `checkEveryN_` lines. |
| `poller` | `MC_PollPoller.cfg` | pass | TypeOK, IndexConsistent, BufTypeOK, BufStreamIntact, PendingConnectionsServed | Through adds, ignores, swap-with-last removals and fd reuse, every channel's `index_` points at its own entry (spec property 1). The EMFILE path keeps the backlog draining. In the `Buffer`, `kCheapPrepend <= readerIndex_ <= writerIndex_ <= size()` (spec property 4), and the readable bytes are exactly the ones not yet retrieved, in order, through `readFd`'s spill and `makeSpace`'s move. The run also reaches the two failed asserts of `removeChannel` listed in section 4; no property of it is about them. |
| `threads` | `MC_EventLoopThreadPool.cfg` | pass | TypeOK, LoopsAliveWhileServing, RoundRobinBalanced, HolderIsOwner, StartLoopGetsLoop, TidSetWhenLatchOpens, AllThreadsJoined, ThreadsFinish | `start()` returns every worker's running loop. Dispatch stays balanced within one. The latch opens only after the tid is stored. Destruction joins every thread. At statement level, `holder_` never names a thread that does not own the mutex, and is 0 when the mutex is destroyed; `startLoop()` never returns NULL despite spurious wakeups; and both threads finish. |
| `queues` | `MC_Queues.cfg` | pass | TypeOK, TakeFindsItem, AllCallsReturn, FifoSpec, UTakeFindsItem, UItemsHandedOver, UFifoSpec | In both queues the `while` loops keep `take`'s assert true when a woken consumer is overtaken, drained or woken spuriously. No call or item is left waiting for good. Each queue refines `FifoQueue`. |
| `conn_loop` | `MC_TcpServer_loop.cfg` | pass | TypeOK, DisconnectCallbackOnce, FinAfterQueuedOutput | With every call made from the connection's own callbacks on its I/O loop, and the server destroyed from the base loop at any point, the connection sees Disconnected once and FIN follows every accepted byte. |
| `conn_threads` | `MC_TcpServer_threads.cfg` | pass | ConnectionReleased | With a user thread racing `send`, `shutdown` and `forceClose` against the peer's close and against `~TcpServer` and the pool's teardown, a connection the peer has closed and the user has let go is always taken out of `connections_` and destroyed. |
| `conn_teardown` | `MC_TcpServer_teardown.cfg` | violation | ChannelRemovedBeforeDestroy | `~TcpServer` queues `connectDestroyed` on the I/O loop, then the pool's `~EventLoopThread` quits it. A loop that is mid-round when `quit()` comes exits without running `connectDestroyed`; the user's last pointer then destroys a kConnected connection whose channel is still in the poller (`~TcpConnection`'s assert fails). EventLoopThread.cc:33-34 admits the "tiny chance". |
| `conn_send_uaf` | `MC_TcpServer_uaf.cfg` | violation | NoDanglingRawFunctor | A peer's close on the I/O loop after `~TcpServer` calls `removeConnection` on the destroyed server (TcpServer.cc:134, "FIXME: unsafe"). With `ServerDestroyed = FALSE`, the run shows the other raw-`this` functor: `send()` from a user thread leaves `sendInLoop` queued on a destroyed connection. |
| `conn_state_race` | `MC_TcpServer_state_race.cfg` | violation | DisconnectedIsFinal | The test-then-set in `shutdown()` and `forceClose()` moves a kDisconnected connection back to kDisconnecting. |
| `conn_flow_control` | `MC_TcpServer_flow_control.cfg` | violation | DisconnectCallbackOnce | On one loop, `startRead()` from a write-complete callback queued behind `forceCloseInLoop` re-enables reading on a closed channel. The EOF is read again, and `handleClose` runs twice. |
| `http_pipeline` | `MC_HttpServer_pipeline.cfg` | violation | RequestsAnswered | Two keep-alive requests that arrive in one `read()` get one response. The second stays in `inputBuffer_` until more bytes come. |

Each violation is explained in `PROJECT.json` under "findings". Every property of a passing run has a mutant there: a plausible bug in the mapped code, such as a dropped guard, a missing re-check or a missing notify, that TLC catches under the same cfg.

### Bounds

- **TimerQueue.**
  - Two addresses, so an address is reused once a timer is deleted.
  - Three timers in total and a clock up to 3.
  - Delays 1 and 2, and intervals 0 (one-shot) and 2.
  - At most one functor queued by the other thread at a time.

  This is enough for a timer to expire while another is pending, for a repeating timer to be re-armed, for a cancel to arrive during callbacks, and for a stale `TimerId` to be cancelled. It reaches about 390k states.
- **TcpServer.**
  - A kernel buffer of 1 unit, with sends of 1 or 2 units, so a send can complete directly, partly, or not at all.
  - A high-water mark of 2, so a send can cross it.
  - Up to 2 peer messages and 2 calls per connection.

  `conn_loop` uses one connection on an I/O loop of its own, so handing work between the base loop and the I/O loop, and the pool's teardown, both happen; two connections take TLC past the time budget. `conn_threads` and `conn_teardown` add the user thread.
- **PollPoller.** Three fds and two connection channels, and an Acceptor that may or may not have listened. The listening socket and `idleFd_` take two fds, so EMFILE, fd reuse and the swap-with-last path all occur.
- **Buffer.** `kCheapPrepend` 1, `kInitialSize` 2, `extrabuf` 2 bytes, appends of 1 or 2 bytes, at most 4 bytes in a behaviour. The real sizes (8, 1024, 65536) are scaled down together: with 4 bytes `readFd` fills the buffer exactly, spills into `extrabuf` and resizes, and `append` both resizes and moves the bytes back. The poller with the buffer beside it reaches about 330k states.
- **MutexLock.** One parent and one child thread, and at most two spurious wakeups, so the parent can wake spuriously before and after the child publishes `loop_`.
- **EventLoopThreadPool.** Three workers and seven connections, so round-robin wraps twice and ends unbalanced by one.
- **Queues.**
  - `BoundedBlockingQueue`: two slots, and two producers and two consumers with two calls each. Each side has a second thread to overtake a woken one, and the queue can be full, half full or empty.
  - `BlockingQueue`: one producer with two `put`s, two consumers with one `take` each, and one drainer. A `drain` can empty the deque under a woken consumer, or take the item a sleeping consumer waits for. That consumer then stays blocked, which is why `UItemsHandedOver` asks for an empty deque and not for every `take` to return.
  - Together they reach about 88k states.
- **LogFile and Logging.**
  - Three statements, all from `TcpConnection.cc` line 180: a short `LOG_INFO` (a 72-byte record); a `LOG_INFO` whose message nearly fills the 4000-byte `kSmallBuffer`, so the basename, the line and the `'\n'` are dropped (3999 bytes); and a `LOG_SYSFATAL` with errno 24 (103 bytes).
  - `rollSize_` 250, so three short records fit in a file and a long one crosses the size, within one second or across seconds.
  - `checkEveryN_` 2, `flushInterval_` 1, a day of 3 seconds, and a clock up to 7, so the day changes twice.
  - Up to 5 appends, one step back of the clock, and `setLogLevel` between INFO and WARN, which silences `LOG_INFO` but not `LOG_SYSFATAL`.

  This is enough for two rolls within one second, a roll refused after the clock was set back, a day change caught late by the line count, and a FATAL record after lines a flush has and has not yet reached. The run has about 540,000 states.
- **HttpServer.** Three scripts: two HTTP/1.1 keep-alive requests; an HTTP/1.0 keep-alive request followed by `Connection: close`; and an unsupported version followed by a valid request. Reads of up to 4 lines.

### Fairness

- **TimerQueue.** `WF(LoopThread)`: the loop thread never stops, because `poll()` returns at the latest after its 10 s timeout. `SF(HandleReadBegin)`: `poll()` is level-triggered and runs on every iteration, so a timerfd that stays readable is handled however many functors other threads keep queueing.
- **TcpServer.** `WF` on each loop's thread step: its functor round, which ends every iteration, and the teardown steps (`quit()` on the base thread, the I/O loop's exit), since a destructor that has begun runs on and a quit loop returns from `loop()`. `SF` on each connection's `handleRead`, for the same level-triggered reason. The user thread and the peer get no fairness.
- **PollPoller.** `WF(HandleAccept)`: a readable listening socket is reported on every poll.
- **EventLoopThreadPool and the queues.** `WF` on each thread: a runnable thread is eventually scheduled. A blocked thread is not runnable, so a lost notify shows up as a violation, not as a fairness gap. Spurious wakeups get no fairness: nothing guarantees one, so no liveness property may depend on one. In `MutexLock` they are also finitely many (`MaxSpurious`): a scheduler that woke the parent forever would let it retake the mutex each time, and weak fairness would not get the child in.
- **LogFile and Logging.** None: the run checks only invariants.
- **HttpServer.** `WF(Next)`: the peer keeps sending what its script holds, and the kernel delivers it.

Deadlock checking is off in every cfg. The systems legitimately come to rest: the clock stops at its bound, a server idles in `poll()` once its connections are gone, every thread has been joined, or the peer has sent its whole script.

## 4. Not modelled, and the plan

Not modelled yet, in order of importance:
1. **setMethod's assert after a 400.** `HttpServer` reaches the state (`aborted`): a request line refused after its method was set leaves `method_` set, and the peer's next line asserts. No run checks it yet; the run budget went to the pipelining stall, which affects release builds as well.
2. **Timer::restart drift.** `Restart` is modelled as the code has it: the next expiration is the handling time plus the interval. Spec §4.3 and scenario S4 ask for the previous expiration plus the interval. The run that showed the divergence was retired to make room for `logfile`; the hazard stays in `PROJECT.json`.
3. **Buffer's other members** (`prepend`, `shrink`, the integer readers, `findCRLF`), all in `Buffer.h`, which is not in the tree.
4. **An abstract timer service** (each added timer fires at its deadlines until cancelled), with `TimerQueue` shown to refine it.
5. **ThreadPool.** `ThreadPool.cc` is not in the tree; its queue is the `BlockingQueue` model.
6. **More threads calling `start()`.** The comment above `TcpServer::start` allows any thread, but `EventLoopThreadPool::start` asserts the base loop's thread, so the model makes one call there.

The project uses the full budget of 12 runs. Adding a run means merging or retiring one; the candidates are the HTTP assert and the timer drift above.

Left out for good:
- The characters of log records, `Fmt`, `formatSI`/`formatIEC` (`LogStream.cc` is not in the tree), and HttpResponse formatting. A record is the lengths of its pieces.
- `setTimeZone` and `formatTime`'s per-thread cache of the formatted second: the zone is fixed, and the cache changes no byte of a record.
- `setOutput`/`setFlush` racing with logging threads, and the default output to stdout: a program sets them once at startup.
- The two failed asserts of `PollPoller::removeChannel` that the poller model reaches: `connectDestroyed` of a kDisconnecting connection keeps its interest, so `assert(channel->isNoneEvent())` (line 140) fails; and an Acceptor destroyed before `listen()` was added with its plain fd, so the assert at line 145 fails. No run checks them, because the run budget is full; both are hazards in `PROJECT.json`.
- `send()`, `shutdown()` and `forceClose()` from a user thread after the I/O loop has exited queue on a destroyed `EventLoop`; the model does not follow the thread past that point.
- A `send()` queued by a user thread before a callback's `send()` and `shutdown()` is written after FIN and lost, against spec 4.7's graceful close. TLC found this with `FinAfterQueuedOutput`; that violation run was given up for `conn_threads` to stay within 12 runs, and the hazard at `TcpConnection.cc:238` records it.
- A record that loses its `'\n'` (the 3999-byte statement) is reached, and the next record then continues its line. No run checks this, because the run budget is full; the hazard is listed at `LogStream.h:45`.
- Socket syscall wrappers. Their effects (write, shutdownWrite) are part of TcpConnection.
- Singleton, ThreadLocal and CurrentThread: pthread primitives with no protocol to explore.
- `handleError`, which only logs, and RST from the peer.
