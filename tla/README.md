# TLA+ specification of Network-Library

Network-Library is a C++ reactor library in the style of muduo: non-blocking
sockets, an epoll loop per thread, callbacks, and on top of it timers, an HTTP
server, a memory pool and a logger. This directory holds TLA+ models of all of
these, the TLC configurations that check them, and TLAPS proofs about the buffer,
the event loop, the poller, the server and its connections, the timer queue, the
HTTP responses, the logger and the memory pool.

Paths below are relative to the repository's root directory `src/`, so
`src/net/EventLoop.cc` is the file that `PROJECT.json` calls
`src/src/net/EventLoop.cc`. Names in the modules are the names in the code,
misspellings included (`oututBuffer_`, `pendingFuntors_`, `handleEvemt`).

## 1. The system

| Component | State | Operations | Works with |
|---|---|---|---|
| `Buffer` | a vector of bytes, `readerIndex_`, `writerIndex_` | append, retrieve, retrieveAsString, readFd, writFd | one input and one output buffer per `TcpConnection` |
| `EventLoop` | `looping_`, `quit_`, `callingPendingFunctors_`, `pendingFuntors_` under a mutex, an eventfd, `activeChannels_` | loop, quit, runInLoop, queueInLoop, wakeup, doPendingFunctors | polls through `EpollPoller`; calls channels; any thread calls it |
| `Poller`, `EpollPoller` | `channels_` (fd to raw `Channel*`), the vector `events_`, the kernel's epoll set | poll, updateChannel, removeChannel, hasChannel | keeps raw pointers to channels |
| `Channel` | `fd_`, `events_`, `revents_`, `index_`, `tie_` | enable/disable Reading/Writing/All, remove, handleEvemt | belongs to an acceptor, a connection, the eventfd or the timerfd |
| `Acceptor` | listening socket and its channel | listen, handleRead | calls `TcpServer::newConnection` |
| `TcpServer` | `started_`, `connections_`, `nextConnId_` | start, newConnection, removeConnection, destructor | owns connections through `shared_ptr` |
| `TcpConnection` | `state_`, socket, channel, two buffers, `highWaterMark_` | send, shutdown, handleRead/Write/Close/Error, connectEstablished, connectDestroyed | user callbacks; queues functors in the loop |
| `TimerQueue`, `Timer`, `Timestamp` | an ordered set of (expiration, `Timer*`), a timerfd | addTimer (runAt, runAfter, runEvery), handleRead, getExpired, reset, destructor | a channel of the loop |
| `Thread`, `EventLoopThread`, `EventLoopThreadPool` | thread, semaphore, condition variable, vector of loops | start, startLoop, getNextLoop | chooses a loop for each connection |
| HTTP server | parser state, request, response | parseRequest, onMessage, onRequest, makeResponse | callbacks of a `TcpServer` |
| Memory pool | thread caches, central cache, page cache, page map | allocate, free, fetch and release of ranges and spans | used by nothing else in the library |
| Logger | a locked queue and a writing thread | log, Push, Pop | called everywhere |

What is hard in it:

* **Concurrency.** `queueInLoop` is a push under a mutex, a test of a flag and a
  write to an eventfd, against the swap, the batch and the poll of the loop.
* **Lifetimes.** The epoll set, `channels_` and `activeChannels_` hold raw
  pointers, `shutdown()` binds a raw `this`, while connections are destroyed when
  their last `shared_ptr` goes: in the map, in a queued functor, or in the guard
  of a dispatch in progress. Descriptors are reused at once.
* **Failure.** Peers close or reset at any moment, writes are partial, accept
  runs out of descriptors, the event vector is too small.
* **Order.** Close, read, write and error events of one poll; shutdown against
  unsent data; destruction of the server with work still queued.
* **Framing.** The HTTP parser sees whatever bytes have arrived, starts afresh with
  every read, and leaves what it could not use in the buffer.
* **Locks.** The memory pool hands out thread caches without one; its central cache lets go of a bucket in the middle of an
  operation on it; spans are cut, merged and found again through a page map.
* **Time.** One timerfd serves all timers; it is re-armed from several places and
  its units are converted twice.

What makes each part correct, and hence what is checked: `Buffer` is a FIFO queue
that never leaves its vector; the loop runs every functor once, in order, and does
not sleep on one; the poller, the channels and the kernel agree and no raw pointer
dangles; a connection's callbacks pair up and every connection is freed when it is
closed, never before; sent bytes keep their order; a timer fires once, not early,
and the timerfd is set for the earliest; no HTTP request line is answered twice or out
of order, and a request that arrives whole gets its own answer unless the body before it
spoils its request line, with a length or an end the client can see; every object of the memory pool is in one
place and goes back to the span it was cut from; a log message is written once, in
order, and is not left in the queue. The hazards are listed with their lines
and properties in `PROJECT.json`.

## 2. The modules

```
ByteQueue  <--refines--  Buffer       <--EXTENDS--  BufferProofs,      MCBuffer
TaskQueue  <--refines--  EventLoop    <--EXTENDS--  EventLoopProofs,   MCEventLoop
                         EpollPoller  <--EXTENDS--  EpollPollerProofs, MCEpollPoller
                              ^ INSTANCE
                         TcpServer    <--EXTENDS--  TcpServerProofs,   MCTcpServer
                         TimerQueue   <--EXTENDS--  TimerQueueProofs,  MCTimerQueue
                         HttpServer   <--EXTENDS--  HttpServerProofs,  MCHttpServer
TaskQueue  <--refines--  Logger       <--EXTENDS--  LoggerProofs,      MCLogger
                         MemoryPool   <--EXTENDS--  MemoryPoolProofs,  MCMemoryPool
                         SizeClass, PageMap  <--INSTANCE--  MemoryPoolProofs
```

`TcpServerProofs` also INSTANCEs `EpollPollerProofs`, whose lemmas about the operations
on a poller it cites.

An operator named `...Mutant` is a variant of the definition after it with a
plausible bug. No specification uses it; `PROJECT.json` ("mutants") says which
property notices it when it takes the definition's place.

**ByteQueue, Buffer** (`src/net/Buffer.h`, `Buffer.cc`). The object is a record of
the vector, its size and the two indexes; each member function is an operator on
such records (`MakeSpace` chooses between `Resize` and `MoveToFront` as
`makeSpace` does), and each public operation is an action. `readFd` is one action:
`readv` fills the writable part, the rest goes through `extrabuf`, whose
space depends on how much was writable. `given` (the run that arrived) and `out`
(the run handed out) are history. `ByteQueue` is what users rely on: all of a run
joins the back, runs leave from the front.

**TaskQueue, EventLoop** (`src/net/EventLoop.h/.cc`, `src/base/CurrentThread`).
The loop thread's position is `pc`; each other thread is at most inside one call,
`call[t]`. The three steps of `queueInLoop` are three actions. User code runs in
callbacks, functors, other threads and, in the loop's thread, before and after
`loop()`. `Tid` models `CurrentThread::tid`, which caches the result of
`SYS_getpid` and therefore gives every thread the same value: `isInLoopThread()`
is true everywhere. The model keeps both branches and takes the one the code
takes. `TaskQueue` is the promise of `queueInLoop`: each task at most once, in the
order submitted.

**EpollPoller** (`src/net/poller`, the registration half of `Channel`). The state
is one record of the channels' fields, `channels_`, and the kernel's set (`ptr`,
`watched`), so that `TcpServer` can apply several operations in one step. A
channel is constructed on a free descriptor, updated, removed and destroyed;
closing a descriptor removes it from the epoll set (external, modelled from
epoll's rules). `fatal` records an `epoll_ctl` ADD or MOD that fails, which the
code answers with `LOG_FAT`, that is `exit`.

**TcpServer** (`TcpServer`, `Acceptor`, `TcpConnection`, the dispatching half of
`Channel`, `EpollPoller::poll`, the loop's iteration). One loop runs everything:
`EventLoopThreadPool::setThreadNum` assigns its parameter to itself
(`EventLoopThreadPool.h:23`), so the pool stays empty and every connection lives
on the base loop. `Poll` reports ready descriptors with their masks, as many as
the vector has room for; `Dispatch` takes one channel; `CallBack` calls the next
of its callbacks in the order of `handleEventWithGuard`, decided from the
`revents_` of the poll, however the state has changed since. A callback that calls
user code hands over to phase `"user"`, in which `Send` and `Shutdown` may be
called on any live connection any number of times; `ReturnFromUser` continues with
what the handler does after the callback. References are not counted but derived:
a connection is destroyed (`Reap`) when the map, the queues and the dispatch guard
no longer hold it. `ReleaseFunctor` destroys the batch element by element, as the
local vector in `doPendingFunctors` is. The destructor of the server takes one step
per connection. The peer, the receive queue, FIN, RST and `SO_ERROR` are external.

**TimerQueue** (`src/timer`, `src/base/Timestamp`, `EventLoop::runAt`, `runAfter`,
`runEvery`). `clock` is `time(NULL)`, the seconds that `Timestamp::now()` stores
in a value called microseconds; `AddTime` and `ResetTimerfd` convert as the code
does. Timers are added by user code in the loop's thread: outside, in other
channels' callbacks between the poll and `handleRead`, and in timer callbacks.
`timerfd_settime` discards an unread expiration; the minimum delay of 100
microseconds is "this second". `reset` is one step: it calls `resetTimerfd` once
per expired timer, of which the last call counts.

**HttpServer** (`src/http`). A request is a sequence of tokens, cut where the parser
can tell a difference: inside the request line, between CR and LF, and in and around
a header's name; a read (`onMessage`) delivers any number of them. A body is any
sequence of tokens (a word, words with a space between them, line ends, a request
line): the server never looks at Content-Length, so it makes a difference what a body
holds. `parseDataBody_` ends the request after the body's first line; a body without a
line end stays in the buffer, in front of the next request line, and what follows a
line end is parsed as a request. `parseRequest` is
the loop of the code as a recursive function: a line ends at a CRLF or at the end of
the buffer; the latter is parsed too and stays in the buffer; two readable bytes in
the header state end the request. Each `onMessage` starts with a new context, as the
code does. `MakeResponse` follows `stat`, the error page, `open` and `mmap`:
`mmFileStat_` is shared by all requests of the process and left alone by a failing
`stat`; an `mmap` that fails ends the process (`crashed`), because the test of its
result dereferences the error value. In `onRequest` the variable `isKeepAlive` means
the opposite; the model's `Closes` says what happens. The files change between
requests, and `open` may be denied; both are external.

**MemoryPool** (`src/memory`). Sizes are the rounded ones; an object is its first
byte. `PageCache`'s lock is a leaf, so each of its critical sections is one operator
on the record `page` (`new_Span` by an exact hit, a cut or a block from `sbrk`;
`relase_to_PageCache` with both merging loops) and one step. The buckets' locks are
variables: `FetchMiss`, `NewSpan` and `InsertSpan` are the parts of `get_one_Span`
around the unlocked call, and `ReleaseLock`, `ReturnObject` and `GiveBack` the turns
of `release_list_to_Spans`. A thread's first call takes its `ThreadCache` from
`TcPool`, a static `objectPool` without a lock: `NewCache`, `RefillCaches`,
`SbrkCaches`, `ClaimCache` and `AdvanceCache` are the accesses of `New()` to
`remainBytes` and `_memory`, with both values a build may use where it has read one
before. Two first calls at once can leave with one cache, or find `_memory` still null
and construct a cache there, in which case the process ends. With a shared cache every
push and pop of a free list is a data race and the code promises nothing; the model
stops there (`Running`), so `EachObjectOnce`, `UseCountExact` and `SpansTile` say what
holds up to that moment, and `OwnCaches` when it cannot come. The repository builds with asserts (`CMakeLists.txt:6`);
`FreeList::PopRange` asserts `n >= _size` where it needs the opposite, so in that
build a cache that has become too long ends the process (`PopRangeAborts`). So does,
in either build, a `ConcurrentFree` in a thread that has no cache (`FreeAborts`). The model
has both builds; everything that returns objects happens in the one without.

**SizeClass, PageMap** (`classSize` in `src/memory/common.hpp`, `PageMap.hpp`). Pure
functions, with the numbers of the code. `MemoryPool` uses sizes that are rounded
already and a function for the page map; the theorems about these modules, in
`MemoryPoolProofs`, are what allows that.

**Logger** (`src/logger`). A `LOG_` macro stores the level, pushes under the mutex and
notifies; LOG_FAT then calls `exit`, which any step of the others may precede. The
writing thread opens the file of the day, pops (waiting, and waking up for nothing as
condition variables may) and writes. It refines the same `TaskQueue` as the loop.

### Abstractions

* Text, formatting, addresses, socket options and log output are left out.
* User payloads are numbered bytes in `TcpServer` and any bytes in `Buffer`;
  `TcpServer` uses byte sequences for `oututBuffer_`, which is what `IsByteQueue`
  shows a `Buffer` to be. `inputBuffer_` is left out: user code decides what it
  takes from it and no handler looks at it.
* In `MemoryPool` a block from `sbrk` begins at a page. The code truncates what `sbrk`
  returns to a page of 8K, and the break is a multiple of 4K only, so that the first
  page of a block may begin below it; which pages belong to which span is the same.
  Objects are told apart by their first byte: the last object of a span may end behind
  the span (`CentralCache.cc:43`), into an object of the next, which no property sees.
* A write on a reset connection fails; that it also raises `SIGPIPE` is left out,
  so the application is taken to ignore the signal.
* In `TcpServer` and `TimerQueue` user code runs in the loop's thread. Calls from
  other threads are modelled in `EventLoop` only; because `isInLoopThread` is true
  everywhere, such calls on a connection or a timer queue would run unsynchronised.

## 3. The runs

| Run | Instance | Shows |
|---|---|---|
| `buffer` | 2 byte values, prepend 1, initial size 2, extrabuf 2, runs up to 3, at most 4 unread | type; `IndexesInBounds`; `IsByteQueue` (refinement); `GrowsOnlyWhenFull` |
| `event_loop` | 2 callers, 3 functors | type; `LoopQueuedIsWoken`: a functor queued by a callback or a functor never waits for a sleeping loop; `RunsInOrder` (refinement of `TaskQueue`); `QueuedFunctorRuns` and `QuitEndsLoop`, although a wakeup may be missing |
| `poller` | 4 channels, 3 descriptors | type; `KernelAgrees`; `NeverFatal`; `NoDanglingChannel` |
| `tcp_server` | 2 connections, 3 descriptors, 2 bytes sent on the first | type; `PollerSound`; `ActiveChannelsLive`; `FunctorsLive`; `CallbacksPair`; `NoZombieAtPoll`; `StreamInOrder` |
| `tcp_server_live` | 2 connections, 3 descriptors, 1 byte sent on the first, no data from the peers | `ClosedIsDestroyed`; `ShutdownHalfCloses` |
| `tcp_server_watch` | 1 connection | **violated**: `BufferedIsWatched` |
| `timer_queue` | 3 timers, 5 seconds, 2 "microseconds" to a second | type; `EntriesMatch`; `OneShotOnce`; `ArmedForEarliest`; `NeverEarly` |
| `timer_queue_due` | the same | **violated**: `DueTimerIsArmed` |
| `http` | 1 connection, 3 requests out of 4 with 3 kinds of body, 3 states of the directory | `Framed`; `WholeRequestsAnswered`; `AnswersInOrder`; `NoStaleSize` |
| `memory` | 2 threads, 1 size (spans of 2 pages), 2 blocks of 3 pages, 4 objects held, 2 caches in a block | type; `EachObjectOnce`; `UseCountExact`; `SpansTile`; `OwnCaches`; no deadlock |
| `memory_map` | 2 threads, spans of 3 pages, blocks of 6 | **violated**: `MapFindsOwner` |
| `logger` | 2 threads, 3 messages, 3 days | type; `MisdatedAtMostOnce`; `WrittenInOrder` (refinement of `TaskQueue`); `EveryMessageWritten` |

**Bounds.** In `Buffer` the vector holds three bytes at first, so every run length
meets every case: fits, fits after moving, grows, spills into `extrabuf`. The proofs
cover all sizes. Two callers and three functors give a functor of a finished batch,
one of the running batch and one of the next. Four channels on three descriptors
make a channel wait for another's descriptor. In `TcpServer` the event vector starts
with one entry and has two after the first accept, so that three ready descriptors
do not fit and it has to grow; an accept may fail at any time, as other code of the
process holds descriptors too; two connections are the
fewest where the callback of one acts on the other inside a batch; two bytes are the
fewest that can be overtaken; the high-water mark is at or below the bytes that can
be sent, so it is crossed. Three timers give one that expires, one that is added
meanwhile and one that waits. A scale of 2 for `kMicroSecondsPerSecond` keeps the
relation that matters: a difference in seconds, taken for microseconds, is less
than the delay. Three requests are the fewest where one is answered, one is cut and
one is behind it; the four requests have both versions, all values of Connection, and
bodies of a word, of words with a space, of a line followed by a request, and none; the
three trees have every kind of file and missing error pages. In `memory` both threads
fetch from and return to one bucket, so that both can be adding a span to it at once
(`get_one_Span` without the lock), and either frees what the other was given; with four
objects held at a time, lists of more than one object are returned, and a span goes back
to `PageCache` in the middle of such a list, with objects still in hand, while the other
thread works on the bucket. A block of three pages is cut, its rest is taken or left over,
pieces are merged again, and the second block is the first one's neighbour. Two caches
in a block are the fewest of which one can be handed out twice. Spans of two pages have no
page between their ends, so that the map is right (`ShortSpansFound`);
`memory_map` has a page in the middle. Three messages give one in hand and two queued.
Descriptors, and in `poller` the channels, are symmetric in the two runs that say so.

**Deadlock** is checked for `Buffer`, `EventLoop`, `EpollPoller` and `MemoryPool`. The
others may stop: a destroyed server, a closed connection, an exit, or the end of the
modelled time.

**Fairness.** `EventLoop!FairSpec`: weak fairness of the loop thread's steps and of
each call in progress. The threads are scheduled, `epoll_wait` has a time limit of
`kPollTimeMs`, the mutex is held for a push or a swap, and callbacks return. User
code owes no call, and nobody owes a call of `loop()`. `TcpServer!FairSpec`: weak
fairness of the loop thread, that is the same scheduling and the return of callbacks.
The peers and the user owe nothing. That a full event vector starves nobody is not
assumed: the vector doubles. `Logger!FairSpec`: weak fairness of the writing thread,
which is never joined or stopped and competes for a mutex that is held for a push.

**What the violated runs show** (`PROJECT.json`, "findings"):

1. `sendInLoop` calls `enableWriting` only when the channel is writing already;
   after a partial write the rest is never sent. For the same reason
   `shutdownInLoop`, which takes "not writing" for "all sent", half-closes the
   socket over the bytes left in `oututBuffer_`.
2. The timerfd's delay is a difference of seconds taken for microseconds, so it
   fires early; `reset` then re-arms nothing, as no timer had expired, and a timer
   that comes due later wakes nobody.
3. `new_Span` maps only the first page of a span it finds in the list of its exact
   length (`PageCache.cc:37`). If that span is the rest of a cut, the pages between
   its first and its last have never been mapped, and the owner of an object there is
   not found when it is freed.

Other facts about the code that the models show and no run is about: two threads whose
first calls of `ConcurrentAlloc` overlap can be given one `ThreadCache`, against
"获取线程自己的ThreadCache" (the thread's own ThreadCache, `ConcurrentAlloc.hpp:30`), and
from then on one object can be given to both; after a body with a space in it the next
request on the connection is answered with 400, and a request line inside a body is
answered though nobody asked; `isInLoopThread`
is true in every thread (`CurrentThread.cc` asks for the process's id), so a functor
queued from another thread waits for the poll to time out, and `runInLoop` runs it in
the calling thread; error pages are sent with status 200 and the reason phrase of the
error; a POST is answered like a GET, since nothing sets `kPost`.

Point 1 does not contradict `StreamInOrder`: nothing is lost or reordered, it stays
in the buffer.

## 4. The proofs

Each proof module EXTENDS the module it is about and shows its results for every
value of the constants that satisfies the named assumption.

**BufferProofs**, from `BufferAssumption` (sizes are naturals, `NUL` is a byte).
`TypeOK` and `IndexesInBounds` are not inductive apart; `IsBuffer` is their
conjunction as a predicate on objects, and one lemma for each member function says
that it keeps `IsBuffer` and what becomes of the readable bytes (`RetrieveOK`,
`ResizeOK`, `MoveToFrontOK`, `EnsureWritableBytesOK`, `WriteAtOK`, `ReadIntoOK`).
`BufferInv` adds the histories. `BufferTypeOK`, `BufferIndexesInBounds`,
`BufferGrowsOnlyWhenFull` and the refinement `BufferIsByteQueue` cite the lemmas.

**EventLoopProofs**, from `EventLoopAssumption` (the loop's thread is not one of the
callers). `LoopQueuedIsWoken` speaks of the moment of the poll; `LoopInv` carries it
through the iteration. Its main part, `WakeInv`, says that a functor the loop's own
code queued is covered: the eventfd is readable, or this iteration's swap is still to
come, or the loop thread is inside the `queueInLoop` that will write the eventfd. It
needs `TypeOK`, which says that `looping_` and `callingPendingFunctors_` are set exactly
while the loop thread is in `loop()` and in `doPendingFunctors`, `CallInv` (in a
call only in user code), `BatchInv` (no batch outside its run) and `FromInv` (a
queued functor is not passed in again). Results: `EventLoopTypeOK`,
`EventLoopWakes`, and the refinement `EventLoopRunsInOrder`.

**EpollPollerProofs**, from `PollerAssumption` (the null values are no channel and
no descriptor). The invariant `Good` joins the type, `OwnFd` (no two channels own
a descriptor), `Pointers`, `Index` (index_, map and kernel agree) and the absence
of fatal errors: no one of them is kept without the others, since `epoll_ctl` fails
when `index_` is wrong and a pointer dangles when two channels share a descriptor.
One lemma for each operation on poller records, then `PollerTypeOK`,
`PollerKernelAgrees`, `PollerNeverFatal`, `PollerNoDangling`, `PollerMapAgrees`.

**TcpServerProofs**, from `ServerAssumption` (the bounds are naturals, the vector of
events is not empty at first, the acceptor is no connection, the null values are no
channel and no descriptor). The properties are about raw pointers into objects that
`shared_ptr`s keep alive, and none of them is inductive. `ServerInv` is; its parts:

* `PP!Good(poller)`, the poller's own invariant, kept by the lemmas of
  `EpollPollerProofs`, each callback being some of its operations;
* `PhaseInv`: the locals of the loop thread belong to its phase, so that what a
  handler does after a user callback is about the connection it was called for;
* `LifeInv`, the heart. `Referenced`: a connection exists exactly while the map, a
  queued or running functor or the destructor holds it. `EndsOnce` and
  `RemovedFirst`: once the map has let go of it, `connectDestroyed` is queued, or in
  the part of the batch still to run, or has removed the channel. `Guarded`: what
  keeps alive the raw `this` of `shutdownInLoop`;
* `StateInv`: `state_` counts the callbacks made (`Counted`), agrees with
  `connections_` except inside the callback of `handleClose` (`Mapped`), and with what
  the channel watches (`Watched`);
* `ActiveInv`: a channel of `activeChannels_` is open, since only the channel that is
  being dispatched can be closed, and at most one of its callbacks can close it.

One lemma for each action shows `CoreInv`, the part without the byte stream; the
stream and the kernel's flags are kept apart, as few actions touch them. Results:
`TcpServerTypeOK`, `TcpServerPollerSound`, `TcpServerActiveChannelsLive`,
`TcpServerFunctorsLive`, `TcpServerCallbacksPair`, `TcpServerNoZombieAtPoll`,
`TcpServerStreamInOrder`: all safety properties of the run `tcp_server`, for every
number of connections, descriptors and bytes.

**TimerQueueProofs**, from `TimerQueueAssumption` (bounds and the scale are naturals,
delays are whole seconds, at least one). `QueueInv`: `Owned` is `EntriesMatch` with
disjointness in the place of cardinalities, `Due` says that the batch of `handleRead`
is due and exists nowhere else, `RunsInv` that an entry waiting or still to be called
may run once more, `ArmedInv` is `ArmedForEarliest` carried into a `handleRead` that
found nothing. Results: `TimerQueueTypeOK`, `TimerQueueEntriesMatch`,
`TimerQueueOneShotOnce`, `TimerQueueArmedForEarliest` and the action property
`TimerQueueNeverEarly`. Together with `DueTimerIsArmed`, which is violated, they
place finding 2: an armed timerfd is armed for the right timer; at times it is not
armed.

**HttpServerProofs**, from `HttpAssumption`. Nothing is assumed of what `parseRequest`
returns, so the results hold for every parser. `StepShape` says what one step can do to
the responses of a connection; with it `HttpInv` is inductive. Results: `HttpFramed`,
`HttpNoStaleSize`.

**LoggerProofs**, from `LoggerAssumption` (the bounds are naturals).
`MisdatedAtMostOnce` compares two lines; `DayInv` adds that an open file was opened
after the last line was written. Results: `LoggerTypeOK`, `LoggerMisdatedAtMostOnce`
and the refinement `LoggerWrittenInOrder`, in which a pop is a stutter.

**MemoryPoolProofs**, in five parts.

*Size classes*, with the tables of the code and no assumption. `TableOK` describes a
request in one row of the tables; a request lies in one of five rows, and the theorems
follow row by row: `SizeClassFits` (room, limit and waste), `SizeClassSameList`
(`deallocate`, which knows only the rounded size, finds the list `Allocate` used) and
`SizeClassOneSize` (a free list holds objects of one size).

*Page map*, with 12, 12 and 11 bits as in the code. `IndexesInjective` says that the
three indexes determine the page; `VisitedIsLoop` that `Visited` is the set of keys
the loop of `Ensure` stops at. `PageMapSet`: `set` changes what `get` returns for one
page. `PageMapEnsure`: after `Ensure` all pages of the range have a leaf, although the
loop stops once a leaf only, and the contents are as before.

*Page cache*, from `PoolAssumption`. `Tiled(p, null)` is the invariant of `PageCache`
between two of its critical sections: `SpansTile` in a form that can be kept (`Placed`,
`Apart`, `Listed`, `Counts`), with `EndsMapped` and `OnlyCovered`, without which the
merging loops would follow a stale entry of the page map to a span that is gone.
`EndsMapped` has one exception: a block from `sbrk` that is taken whole, in one span of
`NPAGES - 1` pages, has its first page mapped and its last one not; merging then stops
there, as it would at a span in use. Theorems: `PageCacheRelease` (`relase_to_PageCache` of a span in
use keeps `Tiled` and every other span in use, and leaves the span idle; the total of
pages stays the same) and `PageCacheNewSpan` (`new_Span` keeps `Tiled`, and returns a
span of the length asked for that was not in use, by an exact hit, a cut or a new
block). The merging loops run up to `NPAGES` turns; what they keep is shown by taking
the first turn that would break it (`NatMin`).

*The pool as a whole*, from `PoolAssumption` and `SpanAssumption` (a size never asks for
more pages than the longest list of `PageCache` has: `num_move_page` is 64 at most in the
code and `NPAGES - 1` is 128; every run of `MemoryPool` evaluates it). The invariant is
`PoolInv`. `TypeOK`, `EachObjectOnce`,
`UseCountExact` and `SpansTile` are not inductive, and they need each other:

| Part of `PoolInv` | What it says | Needed because |
|---|---|---|
| `Tiled(page, null)` | `PageCache` is in order | a new span must not overlap the objects of another |
| `PoolTypes`, `Locals` | types; which locals a thread has at which point | a turn of `release_list_to_Spans` has an object, `fetch_range_obj` asks for one at least |
| `Sized`, `Buckets` | a span in use serves one size; a bucket's spans serve its size, each once | `erase` must take the span out of the bucket for good |
| `InHands` | a span between `new_Span` and its bucket, or between its bucket and `relase_to_PageCache`, is in no bucket and in one thread's hands | the bucket's lock is not held there |
| `NoRepeats`, `Exclusive` | no list has an object twice, no object is in two places | `EachObjectOnce` |
| `Complete` | the objects of the spans that serve are exactly the ones in some place | so that a span whose objects are all back has none outside, and may go |
| `Belongs` | an object is in its own span's list or in lists of its own size | `deallocate` and `release_list_to_Spans` take the size from one and the bucket from the other |
| `UseCountExact` | the count is the number of objects out | with `ListMissesOne`, the last object to come back makes the list complete |

There is a lemma for each way through each action. Most actions move objects from one
place to another and change no span; `MovesOK` says once what follows from that, and
`GiveOK`, `FreeLongOK`, `ReturnSomeOK` have only to say which object goes where.
`NewSpanOK` and `GiveBackOK` rest on `PageCacheNewSpan` and `PageCacheRelease`,
`ReturnLastOK` on counting. The locks are not needed for any of it at the model's
granularity: what they protect is one step each, and the steps between are covered by
`InHands`.

`ConcurrentFree` and `release_list_to_Spans` trust the page map, so `PoolInvariant`,
which the rest cites, and the theorems `PoolTypeSafe` and `PoolSpansTile` have the form
`Spec /\ []MapFindsOwner => []P`; finding 3 shows that the map can be wrong.
`ShortSpansFound` shows that it cannot when every size asks for one or two pages and for
less than a whole block (`ShortSpans`): then a span keeps the length its size asks for
(`SpanLengths`), its ends are all its pages, and `EndsMapped` has no exception. With the
numbers of the code `ShortSpans` covers the sizes up to 40 bytes, whose 512 objects take
at most two pages of 8K; from 48 bytes on a span has pages in the middle, and the run
`memory_map` is the counterexample. The instance of `memory` satisfies `ShortSpans`.

*The caches.* The pool also trusts that a thread's cache is its own, which the unlocked
`New()` does not give. `CachesOwned` (`Spec => OwnCaches`) says when it is: as long as no
two threads are in `New()` at once (`OneNew`). Its invariant `CachesInv` says what holds
before each access of the one thread that is there (`AtNew`): the caches given out lie
below `_memory`, what is left of the block lies behind it and ends where `remainBytes`
says (`Ready`), and a thread on its way to `sbrk` has `remainBytes` set before `_memory`,
which is why a second thread must not look. `ShortSpansSafe` joins everything:
`Spec /\ []OneNew` implies private caches, types, objects once, exact use counts and
tiling. Both hypotheses are real limits of the code, not of the proof: longer spans lose
pages of the map, overlapping first calls share caches.

**Only model-checked:**

* liveness (`QueuedFunctorRuns`, `QuitEndsLoop`, `ClosedIsDestroyed`,
  `ShutdownHalfCloses`, `EveryMessageWritten`): the prover does not treat fairness and
  ENABLED;
* `WholeRequestsAnswered` and `AnswersInOrder` of `HttpServer`: they depend on what
  `parseRequest` computes, which is a recursion over the buffer;
* of `MapFindsOwner`, what lies between: it is proved for short spans and refuted by
  `memory_map` for spans of three pages, and there is no theorem for longer spans that
  happen to be cut from larger ones every time.

## 5. Not modelled

* **Thread, EventLoopThread, EventLoopThreadPool.** `Thread`'s constructor does not
  take its function (`Thread.cc:8-12`: the parameter has no name and `func_` is moved
  into itself), so a started thread calls an indeterminate function object, and
  `setThreadNum` assigns `numThreads_` to itself, so the pool starts none. There is no
  behaviour of a working pool to model without inventing it.
* **HTTP: POST.** `parsePost_`, `parseFromUrlencoded_` and `convertHex` are reached
  only with the method `kPost`, which no code sets. MIME types, query strings and the
  text of responses are formatting. Files that change between `stat` and `open` of
  one request are left out.
* **Memory pool: requests above 256K**, which go to `PageCache` directly, and a failing
  `sbrk` (its result is compared with a null pointer, not with -1).
* **Logger: what `exit` destroys** while the detached writer still runs.
* **Socket, InetAddress.** Thin wrappers of system calls; `accept`, `shutdownWrite`
  and the closing destructor appear as effects in `TcpServer`.
* **`include/`, `lib/`, `build/`, `example/`.** Copies of the headers, build output
  and an echo server; no logic of their own.

## 6. Plan

Order of work: most of the library's own risk first.

1. *Done:* models and runs of Buffer, EventLoop, EpollPoller, TcpServer, TimerQueue,
   HttpServer, MemoryPool and Logger; proofs of every safety property of the runs of all
   of these but for what section 4 lists as only model-checked; proofs about SizeClass,
   PageMap, the operations of PageCache and the pool as a whole.
2. A thread outside the loop that calls `shutdown()` on a connection
   (`TcpConnection.cc:169`).
