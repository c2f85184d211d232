# A TLA+ model of RopUI

RopUI is a C++20 UI framework. Its core is RopHive, a multi-threaded task scheduler over
an event loop, with TCP watchers on top; a coroutine library and a chat server show how it
is used, and NanoVG draws. This project models the scheduler, what one worker does with
sockets and timers on the backends of three platforms, the older single-threaded event
loop, the chat server, and the parts of NanoVG and its companions that keep state. Paths
below are relative to `src/`.

## The system

| Part | State | Operations | Code |
| --- | --- | --- | --- |
| TaskDeque | `top_`, `bottom_`, `size_`, a ring of tasks | push and pop by the owner, steal by any thread | `utils/concurrency/task_deque.*` |
| Hive, GlobalMicroPool | exit flag, locked queue, an approximate count | `postIO`, `postDelayed`, `postToWorker`, `requestExit`, `run` | `platform/schedule/hive.*` |
| IOWorker | stop and sleeping flags, inbound queue, private queue, timers, local deque | the loop of `run()`, `postPrivate`, `postToLocal`, `addTimer`, `requestStop`, `wakeup` | `platform/schedule/io_worker.*` |
| ComputeWorker, GlobalComputePool | locked queue with a condition variable | `postCompute`, `waitPopBatch`, the loop of `run()` | `platform/schedule/compute_worker.*`, `hive.cc` |
| Event loop core | sources, pending adds and removes | `runOnce`: wait, dispatch, apply changes | `platform/schedule/eventloop_core.*` |
| Backends | registered fds, ready events, completions | epoll, poll, kqueue, Cocoa, IOCP, Win32 | `platform/*/schedule/` |
| Watchers | a source and what it calls back | wakeup, timer, TCP accept, connect, connection | `platform/*/schedule/watcher`, `platform/*/network/watcher` |
| EventLoop | task and timer queues of the older loop | `post`, `postDelayed`, `attachSource`, `run`, `requestExit` | `platform/schedule/eventloop.*` |
| IP endpoints | none | parsing and printing of addresses | `platform/network/ip_endpoint.*` |
| Coroutine library | executors, queues, task groups, streams | spawn, await, push, pop, join, send, receive | `example/tcp_server_async_example/library` |
| Chat server | a room, a session and a writer per client | join, say, leave | `example/tcp_server_async_example/app.cc` |
| NanoVG | paths, queued draw calls, font images, textures | fill, stroke, text, images, frames | `vg/nanovg/nanovg.c`, `nanovg_gl.h` |
| FontStash | glyph cache, skyline atlas | look up, pack, reset | `vg/nanovg/fontstash.h` |
| stb_image | input buffer, inflater, PNG and GIF readers | read, skip, rewind, decode | `vg/nanovg/stb_image.h` |

How they interact. Any thread calls the hive. A post goes into the global pool and wakes
one worker whose `sleeping_` it sees set, or goes into one worker's inbound queue and wakes
that worker. Waking writes to a channel (eventfd, pipe, completion port, message queue)
that the worker's event loop core waits on. An iteration of a worker chooses a timeout by
looking at its queues, waits, drains its inbound queue, runs private tasks and due timers,
and then does one of: run a batch of its local deque, move a batch of the global pool into
it, steal from another worker. Compute tasks have their own pool and threads. The watchers
live on one worker's thread; the core dispatches the events of a wait to them and applies
afterwards what they attached and detached meanwhile. Coroutines are resumed by private
tasks of their worker. NanoVG has one thread and is driven by the program.

What is hard. The counts that decide whether a worker blocks are updated outside the locks
of the queues they count; `sleeping_` is set after the queues were looked at; waits are
rounded down to milliseconds; a thief reads a slot after it has given up its index; an exit
may come at any step, from a task, from another thread and from the end of the main worker
at once. On one worker's thread nothing is concurrent, but every callback may call back into
any watcher while a batch of events that were true before it ran is being dispatched, on
descriptors that are handed over, closed and reused. Completions of aborted operations
arrive late. Coroutines and the last reference to a stream move between workers. In NanoVG
any allocation may fail in the middle of a frame, and budgets are computed before what they
bound is written. `PROJECT.json` lists these under `hazards`, each at its line and with the
properties that would catch it.

What makes the parts correct:

- TaskDeque: each task is taken once, by the owner from the back or a thief from the front;
  unsigned index arithmetic never wraps; the slot a thread reads holds the task it claimed.
- Hive and IOWorker: no task is run twice, and none is lost before an exit but in an overrun
  of the deque; nobody sleeps on work; delayed tasks run; an exit ends every IO worker and
  the join of their threads. (The join of the compute threads can hang, `hive.cc:265`.)
- Compute pool: no worker sleeps while a task is queued, every task runs unless an exit
  comes first.
- Core and backends: outside a dispatch the registered fds are those of the attached
  watchers, with the events they want.
- Watchers: each descriptor has one owner; after `on_close` come no data and no second
  `on_close`, after `cancel()` no result; a blocked sender is told to go on; a hang-up is
  noticed; the backlog is served; every expiration is reported once; an OVERLAPPED is used by
  one operation at a time.
- EventLoop: no post, timer or exit is slept through, and every ready source is served.
- Coroutines and chat: one party resumes a coroutine, messages do not mix, a stream is
  closed on its own worker, a session ends with its connection and after its children.
- NanoVG, FontStash, stb_image: budgets cover what is written, a draw uses its own data,
  text shows its glyphs, glyphs do not overlap, rows cover the text, decoders read what the
  file holds.

## The modules

| Module | Models |
| --- | --- |
| `WorkDeque` | the promise of a deque: an atomic bounded queue and the tasks taken from it |
| `TaskDeque` | `task_deque.cc`, one action per atomic access; implements `WorkDeque` |
| `WakeUp` | the wakeup watchers of all platforms: where `notify()` puts a notification and who takes it |
| `Hive` | the calls other threads and tasks make, one action per step between which another thread can run |
| `IOWorker` | the worker loop; `EXTENDS Hive`, whose state it consumes |
| `Scheduler` | their composition: `Next`, fairness, properties |
| `ComputePool` | the compute pool and its workers, with mutex and condition variable |
| `EventCore` | the event loop core over the epoll, poll and kqueue backends and under IOCP's |
| `TcpConnect`, `TcpAccept`, `TcpConnection` | the Linux and macOS TCP watchers, each extending the one before |
| `WorkerTimer` | the Linux timer watchers |
| `IpEndpoint` | parsing and printing of endpoints |
| `Network` | the composition of these with the kernel's sockets and the peers |
| `IocpPort`, `IocpTcp`, `IocpNetwork` | the completion port, the Windows TCP watchers, and their composition |
| `EventLoop` | the older loop with the threads that post to it, over four kinds of backend |
| `AsyncTask`, `AsyncTcp`, `Chat` | the coroutine library, its TCP adapters, the chat server |
| `NvgGl`, `NvgPath`, `NvgText`, `TextLayout` | the GL back end, paths, text, line breaking |
| `FontStash` | the skyline packer (pure operators) and the glyph cache |
| `ImageStream`, `Inflate`, `PngImage`, `GifImage`, `StbImage` | the image readers |
| `Nvg` | a NanoVG context and the program that draws with it |
| `TaskDeque_proofs`, `ComputePool_proofs`, `Scheduler_proofs` | the proofs about these |
| `EventCore_proofs`, `Network_proofs` | lemmas about the core's operators and the stack; proofs about `Network`: descriptors and last calls, registrations and timers, texts of endpoints |
| `IocpNetwork_proofs` | the proofs about `IocpNetwork` |
| `ChatSteps_proofs`, `Chat_proofs` | the invariant of `Chat` and the lemmas of its kinds of steps; its actions and theorems |
| `MC*` | TLC instances; `taskdeque` and `compute_pool` need no definitions and run their modules as they are |

Correspondence. Variables carry the member's name without the trailing underscore (`q` and
`q_approx` are `global_micro_`'s `q_` and `approx_size_`), actions the name of the function
or of the step of it. In the scheduler the program counter of a thread is `pc` for its own
loop and `call` for a call it is inside of; a worker whose `call` is `Body` is running a
task, and may start any call from there. `hand` is the local vector of a drain or a harvest,
`theft` the locals of `stealOnce`. In the watcher modules `stack` is the call stack of the
worker's thread: a handler that calls back is cut there, the callback's code is a frame
above the rest of the handler, and from such a frame any call on any watcher may be made.
`start(w)`, for instance, leaves the frames `connect` and `attach` below the `on_error` it
calls. `reg` holds `sources_`, the armed sources, `fd_events_` and the kernel's own interest
list, which differ after a `close`. In the chat modules `frames[c]` is a chain of coroutines
that await each other. Variables commented as history record what happened for the
properties; the one use actions make of them is to read back how a task was posted
(`post[t]` is the command's kind and deadline, which the code keeps in the command).
Operators named `X_y` just before `X` are faulty versions of it that confirm that the
properties notice the fault.

Abstractions, and why they are sound for the properties:

- Memory is sequentially consistent. `tryPopBottom` and `tryStealTop` order their store and
  load by seq_cst fences; every other shared flag is an acquire or release access next to a
  lock or to the wakeup channel. `attached_` of a wakeup watcher is a plain bool read by
  other threads; here the read is atomic.
- A queue operation under a mutex is one step; the count that follows it is another.
- In `Hive` and `IOWorker` a push and a pop of the local deque are one step each, as
  `TaskDeque` shows them to be. A steal is two: the claim of the oldest index, and the move
  out of its slot, which is of the same ring the owner goes on pushing into. So a push that
  comes around to a claimed slot (the overrun below) happens there too: it loses the task
  that was in it, the thief takes the new one, and the owner later finds its slot empty.
  `overwritten` records the lost ones. `approxSize()` is exact. The owner never reads it too
  low (only a thief's subtraction can be late), so it may loop once more than the model and
  never blocks where the model does not; a thief may read it off by operations in flight,
  which changes how many tasks it steals.
- `pickDelayedWorker` reads the two timer counts in one step. `drainInbound` swaps, counts
  and sorts command by command, three actions.
- For `IOWorker` the event loop core is what the loop sees of it: the wait ends for the
  wakeup channel, for another source (whose callback may make calls), or at the timeout. A
  worker's wakeup is drained in one step; `EventLoop` drains read by read.
- A socket is what the calls observe of it: connection state, how much can be read, whether
  the peer has finished, whether the send buffer is full, whether it was shut down. New fds
  get the lowest free number, as POSIX requires. A listening socket reports no error.
  ECONNABORTED and a failing preparation of an accepted socket are one failure of `accept`.
  The free functions `recvSome` and `sendAll` of a stream are merged with the members they
  call. Time is ticks; the `rx` of a timerfd is the number of expirations its next read
  returns.
- Assumed of the users of the watchers: calls come from the worker's thread; on Linux and
  macOS `start()` of a connect watcher is not called from a callback that `start()` itself
  makes; TCP watchers are destroyed only between dispatches (their sources capture `this`),
  timers at any time; on IOCP a connection is not started once it is closed. What is not
  assumed there is that `start()` waits for the operations of the last one: it may come at any
  time, from a callback too. `restarted_early` records one that came too early, and the
  behaviour is not followed further.
- Callbacks of the chat's watchers act on their worker's own queues in one step.
- The image and text modules take coordinates, colours and bitmaps as positions and
  identities: byte `i` of a file is the number `i`, a pixel is the list of the samples it
  was made from, a glyph is its box.
- Tasks are never null, a hive is bound, workers are attached before `run()`. The clip of a
  timeout to the largest int, logging and tracing are left out, and so are the `StopWorker`
  command (never sent) and `ComputeWorker::sleeping_` (never read).

## The runs

| Run | Instance | Shows |
| --- | --- | --- |
| `taskdeque` | 4 slots, 2 thieves, 6 pushes | the index protocol implements an atomic queue, the cursors stay in range, the reserved slot stays free, a slot is read unharmed unless it was overrun (286,049 states) |
| `scheduler_pool` | 2 workers, 3 tasks, local deques of 3 and 1 | no task is duplicated among deques, pool, the hands of a thief and inline runs, and none is lost but by an exit or an overrun; the pool's count settles (1,397,912) |
| `scheduler_mail` | a worker on epoll or on IOCP, 2 private or delayed tasks | no worker sleeps on a command, delayed tasks run (221,020) |
| `scheduler_shutdown` | 2 workers, 1 task, exits and stops, Cocoa | every exit ends every worker and the join of their threads; a pool task runs while the workers keep waking (193,873) |
| `scheduler_lost_wakeup` (violation) | 1 worker, 1 `postIO` | the worker blocks on a non-empty pool |
| `compute_pool` | 2 workers, 3 tasks, batches of 2, a spurious wakeup | no worker idles while a task is queued, every task runs unless an exit comes first (166,708) |
| `network` | programs of a connect and a connection watcher, of two timers, of an accept watcher and a timer, and of endpoint texts alone | registrations are exact, a socket has one owner, one callback per expiration, texts are read as the RFC says, no data after `on_close` and no result after `cancel()` (2,048,733) |
| `network_accept` | a listener and a connection, fairness | send readiness and hang-ups are not forgotten, the backlog is served (183,411) |
| `iocp` | the Windows watchers, 2 starts each | each OVERLAPPED and each socket has one owner, up to a `start()` that comes too early (1,268,389) |
| `chat` | 2 workers, 1 client with a helper | one resumption per suspension, one sender per stream, a session outlives its children and ends (269,272) |
| `eventloop` | kqueue, IOCP, Win32 and Cocoa, each with two tasks, a task and a source, or two sources | nothing is slept through; each of two sources is served, on Win32 unless the one before it is always signalled (246,151) |
| `vg` | short programs of the path, text and image calls, every font and texture size | the ten properties of NanoVG, the atlas and the decoders (1,234,500) |

Every module has a `TypeOK`. Only `taskdeque` lists it: for `TaskDeque`, `ComputePool` and
`Scheduler` it is proved, and elsewhere it documents the state.

Bounds, all of them constants of a module or guards with a named bound:

- `Task`, `MaxPush`: how many tasks are ever posted. Three are the least with which a batch
  is cut short, a deque of one overflows and a thief finds more than one victim task; six
  pushes wrap a ring of four. In `scheduler_pool` the ring of a deque of one has two slots, so
  that three tasks suffice for an overrun. `SizeModulus` stands for 2^64 and only has to exceed the
  capacity. `StealThreshold` stands for `max(8, victim_minimum_size)` and is scaled down with
  the deques, so that stealing happens.
- `MaxClock`, `MaxTicks`: stop the clock. A delay is given only when its deadline can be
  reached. `TicksPerMs` is 2 where timers matter, so that a remaining time can be less than
  a millisecond and be rounded to 0. `MaxRx`: expirations that one read reports.
- `MaxSpurious`: spurious wakeups of a condition variable. `MaxWakeUps`, `Capacity`: what is
  in a wakeup channel, and when it is full.
- `Programs`: which watchers exist together. A program is chosen in `Init`; each holds the
  watchers whose interaction matters (an accepted or connected stream is taken over by the
  connection; two timers share a batch of events; an accept watcher and a timer). In
  `EventLoop` they say which tasks and sources exist on which backend.
- `MaxDepth` 2: a callback called inside a callback. `MaxOps`, `MaxStarts`: stop a user who
  starts and stops a watcher for ever within one dispatch; two starts reuse a number that
  was closed. `RestartClosed`: a closed connection may be started again. `ReadBudget` and
  `AcceptBudget` of 1 end a loop for its budget as well as for want of data.
- `Apart`: the sockets of a behaviour are all connected or all accepted ones, as the two
  kinds of watchers meet only in the connection that takes the socket.
- `Numbers`, `Dotted`, `Hex`, `Mapped` in `IpEndpoint`: the words texts are made of; ranges
  of a number are represented by their ends and the value beyond.
- In `vg`, `MaxTexts`, `MaxDraws`, `MaxQueued`, `MaxPathCalls`, `MaxPoints`, `MaxTess`, `ncap`,
  `MaxTextureId`, `MaxImages`, `MaxString`, `MaxText`, `RowWidths`, `InitSize` 2, `MaxSize` 3,
  `MaxFontImages` 3, `AnySize`: small sizes with the code's growth rules, so that every
  array and the atlas grow, fill up and fail. `Offsets`: where an image of a GIF begins in the
  picture; `Shortfalls`: how far it may stay short of the edges of the picture, down to no pixel at all. The images and streams are listed in `MCNvg`.

One thread outside the hive suffices, as tasks and callbacks make the same calls from the
workers' threads. `scheduler_pool` permutes its tasks by `SYMMETRY`, and has no temporal
property. Deadlock is checked wherever the system does not stop: the scheduler idles
explicitly once every worker has ended. It is off for the deque (a thread may stop calling,
the pushes are bounded), the compute pool (workers wait when nobody posts), the chat (it
ends) and the older loop (it waits).

Fairness. Every worker's loop is scheduled (`WF` per worker), a call that was started goes
on (`WF` per caller), time passes (`WF` on `Tick`). In `Network` the worker's thread goes on
and a callback's code returns (`WF`); polling is strongly fair, because `IOWorker::run` calls
`runOnce` in every iteration, however many tasks run in between. In `EventLoop` the loop, the
user's callbacks, time and a notification under way go on; in `Chat` each worker thread does.
Nobody has to start a call, no source has to become ready, no spurious wakeup has to happen,
and peers owe nothing. Mutexes are never held across a blocking step except the wait itself,
so weak fairness asks no more than that a free mutex is eventually got.

## Findings

`hive.cc:164` (`scheduler_lost_wakeup`). `wakeOneIdleIOWorker` looks for `sleeping_`, which a
worker sets after it has looked at the pool. A `postIO` in between wakes nobody, and the
worker blocks on a non-empty pool until something else wakes it. The scheduling design says
that when nobody is sleeping "some worker is already running". `IoRunsWhileWorkersWake` is
what remains true.

Other things met while modelling, not stated as runs. Where a property has to exclude one of
them its comment says so.

Scheduler:

- `task_deque.cc:116`: a thief moves the task out of its slot after its CAS has released the
  index. After another claim the owner may push into that slot first; one task is lost and
  the other slot's is empty. `MovesClaimedTaskUnlessOverrun` says when; `TaskInOnePlace` and
  `IoRunsWhileWorkersWake` except the task that is written over.
- `hive.cc:265`: `requestExit` notifies the condition variable without ever taking its mutex,
  so a compute worker between predicate and wait misses it and the join of its thread blocks.
  `ExitStopsAll` goes as far as the join of the IO threads.
- `requestStop` wakes nobody: a sleeping worker ends at its next wakeup. With `MACOS_POLL` a
  worker has no wakeup at all (`io_worker.cc:123`).
- A source attached from a task is applied only after the next `runOnce`. On Win32 a wakeup is
  posted to the thread that constructed it, and a wait reports the lowest signalled handle: a
  source behind one that is signalled at every wait is never served (`SourceServed` excepts it).

Watchers:

- No handler looks at `attached_`: after a `stop()` the event under way, and one later in the
  batch, still call back, and so may a timer's after `stop`, `clear` or its destruction.
- `tcp_connect_watcher.cc:142`: a `connect()` refused at once is reported by `on_error`,
  attached, and then reported by `on_connected`.
- `epoll_worker_timer.cc:79`: a callback slower than its period never leaves the read loop.
- EMFILE repeats `on_error` for as long as it lasts; an accept loop goes on after a `stop`.
- `poll_backend.cc:128`: POLLNVAL asserts, and a handler may unregister while the loop over
  the array runs.
- On macOS, send readiness found while stopped is lost (`tcp_connection_watcher.cc:87`), and a
  `trySend` before `start` leaves a write source behind.
- IOCP: a restart reuses an OVERLAPPED in use, also from `on_accept` and `on_error`
  (`tcp_accept_watcher.cc:212`, `:240`), and one from the `on_error` of a failing
  `createSocket` loses the socket that is there (`OverlappedsExact` and `SocketOwnedOnce`
  hold up to such a `start()`); a failing `postAccept` ends the operation; a
  completion dropped while stopped leaves `receiving_` set; a destructor frees an
  OVERLAPPED the kernel still has.
- Destroying a TCP watcher during a dispatch leaves captured pointers
  (`eventloop_core.cc:32`).
- `ip_endpoint.cc:205`: an IPv4-mapped IPv6 text without brackets is rejected.

Async example:

- `asyncnet.h:62`: `AsyncQueue::push` from another thread, which the comment at `:27` allows,
  can miss the receiver. One accept error ends the server (`asyncnet.cc:332`). The address
  "::1" with port 80 becomes "::1:80" (`asyncnet.cc:384`).

NanoVG and FontStash:

- Cached path data ignores commands added after the first fill. `nvgSave` beyond 32 is
  ignored and its `nvgRestore` pops another state (`nanovg.h:223`).
- `breakWidth` includes the CJK character that starts the next row, a row may exceed the
  width by a character, and "\r\n" split between two calls gives an extra row.
- A fallback font leaves cached empty glyphs; a rectangle of full height is refused by an
  empty atlas; `path->fill` pointers are stale after `nvgText` reallocates.
- `nanovg.c:2435`: a page of the atlas whose texture could not be created keeps the image 0;
  texts drawn from it show nothing, and `nvgEndFrame` stops at it (`:404`).
  `TextShowsItsGlyphs` excepts these texts.
- `nanovg.c:1192`: a path whose only point is lost to a failing `realloc` can end with -1
  points (`:1387`), for which nothing is reserved and two vertices are written (`VerticesFit`
  says so).

stb_image:

- PNGs of 1, 2 or 4 bits with the filters up, average or paeth decode wrongly after the first
  line (`stb_image.h:4002` computes `prior` before `:4011` moves `cur`).
- After a test that met the end of the stream a rewind sees a zeroed first byte; truncated
  zlib streams are read as zero bits.
- An iPhone PNG read by `nvgCreateImageMem` before any `nvgCreateImage` keeps blue first
  (`nanovg.c:802`, `:814`; the comment at `stb_image.h:378` names another default);
  `PngDelivers` excepts it.
- `stb_image.h:5671`: a GIF image without width still puts a column of pixels, at the right
  edge in the next line (`GifDecodes` takes it for an image one column wide).
- `stbi_info` reports no alpha for tRNS outside palettes; a PNG that is not interlaced, or of
  one pixel, needs the exact length of data (`stb_image.h:3994`); a GIF that starts without a
  clear code is rejected although the comment says it is supported, and so is a full code
  table.

## What is proved

Everything below holds for every value of the constants allowed by the named assumptions,
which ask no more than sizes being positive, capacities being powers of two, sets of
tasks, callers and workers being finite and disjoint where they are, and words of a text being
no punctuation.

`TaskDeque_proofs`, for every set of thieves, power-of-two capacity of at least 2 and number
of pushes:

- `IndexInvariant`, `TypeCorrect`, `CursorsStayInRange` (`b - t` never wraps, a full deque is
  recognised), `ReservedSlotStaysFree` (what the spare slot of `maxSize()` is for).
- `Refinement`: `Spec => WorkDeque!Spec` under `Items`, the pending tasks from `top` to the
  logical bottom.
- `SlotInvariant` and `MovesClaimedTask`: the action property that a thread moves the task it
  claimed out of its slot, unless the slot was overrun.

`CursorsInRange` is not inductive: it speaks of an idle owner, while a pop lowers `bottom_`
below `top_` for a while. `LogicalBottom` counts the reserved index as pending until the
owner has decided. `CursorInv` orders `top`, `LogicalBottom` and the pushes; `OwnerInv` says
what the owner knows at each step (after a lost CAS, `top = bottom + 1`); `ThiefInv` says
that a thief's index is at most `top`, and that if it equals `top` when the CAS comes it is
below `LogicalBottom`, so the owner has not claimed it, however old the thief's reading of
`bottom_` is. That part needs the order in which `tryPopBottom` writes `bottom_` and reads
`top_`. The refinement maps `PushPublish` to a push, `PopMany` and the owner's CAS to a pop, a
thief's CAS to a steal, and every other step to a stutter; `PendingInv` says that the window
of pending tasks is what the cursors delimit. `SlotInv` adds what each slot holds.

`ComputePool_proofs`:

- `TypeCorrect`, and `WorkConserving`: no worker waits while a task is queued that nobody is
  on the way to. `WorkInv` counts: the tasks in the queue are at most the workers that are
  awake or notified plus the posters that have yet to notify (`EnoughOnTheWay`), and who
  waits found the queue empty (`WaitsOnEmpty`). Either alone is not inductive.

`Scheduler_proofs`:

- `TypeCorrect`. It carries `TheftInv`, what a thief holds at each step of a steal, and
  `PushInv`, that a call pushes a task.
- `CommandsReachWorker`: no worker sleeps on a command without a wakeup under way, for every
  set of backends but `MACOS_POLL`, on which `IOWorker::bind` makes no wakeup watcher and the
  claim is false. `MailCountInv` relates the inbound count to queue, drainer and posters in
  flight; `AttachedInv` says when the wakeup watcher is attached; `StrandInv` says that
  between a poster's count and its notification the worker cannot have missed both.
- `SizesSettle`: the approximate sizes equal the queues' lengths when nobody is between a
  queue and its count (`MailCountInv`, `PoolCountInv`).
- `NoTaskLostOrDuplicated`: no task is in two places; before an exit or a stop, every task
  posted is in one, or was written over in a slot that a thief had claimed and not emptied.
  `HandInv` says what a worker's drained, harvested or stolen vector may hold, `RingInv` that
  outside its window a ring holds tasks only in slots that are claimed, so that a push writes
  over no other, and `OneInv` counts the occurrences of a task over all queues, slots,
  vectors and callers. The counting lemmas say how an append, a removal, a split and a change
  of one slot change the number of occurrences in a family of sequences or rings.

`Network_proofs`, for every set of watchers, programs and descriptors, each backend and any
bounds:

- `SocketsOwned`: a descriptor has one owner among watchers and streams, and every open one
  has an owner. Each action opens, closes, gives or takes at most one descriptor besides
  those of the orphans (`WatcherOpens` to `OrphansClose`), but to know that the descriptor a
  watcher overwrites with a new one is not still open takes more: a connect watcher that
  has one is attached or in the middle of `start()` (`StartsOK`), so `start()` on a detached
  watcher leaks nothing; a connection that has one was created and is not closed
  (`ConnsOK`); and what the frames of the stack will still do is done to a connection that
  exists (`FramesOK`). `KeptForms` says which changes of the stack keep a watcher in the
  middle of its `start()`.
- `SilentAfterTheLast`: the action property `NoCallAfterTheLast`, on `on_close`, `on_recv` and
  the results of connecting; it does not bar `on_error` and `on_send_ready` of a closed
  connection, which a handler that goes on may still call. A closed connection has no
  descriptor, by `ConnsOK`, and each handler looks at that or at `canceled` before it delivers;
  a cancelled connect watcher keeps its mark until it is destroyed.

It assumes that a timer is not also a TCP watcher, as they are objects of different classes.

The second part of `Network_proofs`, with the lemmas of `EventCore_proofs`:

- `RegistrationsRight`: `Spec => []RegistrationExact`. The property says nothing of a
  dispatch, when changes are deferred and descriptors closed and reused before the backend
  hears of it. So `RegInv` speaks of what is to come: `Live`, the sources left when the
  pending changes are made, are those the watchers want. `WatchersOK` ties each watcher's source
  to its descriptor, from which it follows that wanted sources have keys of their own
  (`WantFacts`, by `SocketsOwned`). `KeyInv` says that what the backend has registered for a
  source that no pending change is about is right, and that nowhere on the way through the
  pending changes two sources share a key (`Clean`): that is what makes `removeSource` of an
  old descriptor before `addSource` of a new one with the same number come out right.
  `KeyInv` holds under `Good`, which names the two uses `RegistrationExact` excepts: each of
  them leaves a wanted source whose descriptor is closed.
- `TimersReport`: `Spec => []OncePerExpiration`. `TimerInv`: a timer has one frame on the
  stack at most, and then within a dispatch whose snapshot holds its source; what it owes is
  what the kernel holds plus what this frame has read. `TimersHeld` says that a source of a
  timer the core still has is that of a timer with a descriptor, so a destroyed timer is not
  called again. `StartInv` says the like of a connect watcher's `start()`.

`WorksInv` is the inductive invariant of both, together with that of the first part. TLC
checked its parts on the instance of `network` before they were proved. A handler's every
request is one of four forms (`RequestNothing`, `RequestAdd`, `RequestRemove`,
`RequestRemoveBoth`), and each action is then a request, a change of its own watcher
(`Only`) and a change of the stack.

`applyPendingChanges` is a fold over a sequence, and what it makes of the sources
(`FoldTyped`, `FoldSound`, `FoldFacts`) holds by induction on the number of changes. The
induction theorems of the library take an operator as a parameter and cannot be used here;
`NatSteps` states the induction for a set of numbers instead, and follows from `<` being
well-founded on them.

The third part of `Network_proofs`, for any words, numbers and addresses and any number of mistakes:

- `EndpointsRead`: `Spec => []ReadsWhatIsWritten`. `TextInv` says that a text is made of the
  alphabet and that what is logged of a peer is its printed endpoint. The rest is about the
  parser: it accepts a text exactly if, without the blanks around it, it is a notation of the
  endpoint. Each direction goes by the characters the parser looks for: the first or the last
  one of a kind splits a text in one way only (`SplitFirst`, `SplitFinal`), which gives scopes
  (`ScopedRead`, `ScopedWritten`), brackets (`BracketRead`, `BracketWritten`) and IPv4 addresses
  with a port (`DottedRead`, `DottedWritten`), put together in `ReadIsNotation` and
  `NotationIsRead`. `TrimmedIs` says what is left without blanks.

  `EndpointAssumption` is what makes words stand for strings: no word is a bracket, colon,
  percent sign or blank; a piece of an IPv6 address has a colon inside, so it is no number and
  no dotted address; and one of the numbers is 0, the scope of an address without one.

`IocpNetwork_proofs`, for every set of Windows watchers and descriptors, any number of accept
operations per watcher, any bounds and either value of `Apart`:

- `OperationsExact`: `Spec => []OverlappedsExact`, and `HandlesOwned`: `Spec =>
  []SocketOwnedOnce`. Both properties except what follows a `start()` that came too early
  (`restarted_early`). Until then they follow from one invariant, `IInv` (`UpToRestart`):
  - `OwnersOK` is ownership without counting: different holders (the `fd_` of a watcher, the
    `accept_fd` of an operation) have different sockets, no stream has one of them, and
    together they have every open one. `OwnedOnce` makes the counts of it.
  - `OpInv`, for each OVERLAPPED. That at most one operation uses it is not inductive: between
    taking an event and the end of its handler, and between `start()` and the call that
    issues the operation, nobody but the code in the middle of it knows that the OVERLAPPED is
    spoken for. So `Claims` says which OVERLAPPEDs a frame of the stack has (the accepts that a
    `post` has still to issue, the one a `repost` will issue again, the completion a handler is
    in), and `Single` that an OVERLAPPED is in one place: with the kernel, on the port, among
    the events or with one frame. `OpInv` adds that the flag of an open connection is set
    exactly while its operation is out or lost, and that an accept that is out has a socket.
  - `QueuesOK` and `LinksOK` tie the two together: an operation in the kernel is on the socket
    its watcher holds now, so closing that socket ends it; a connect watcher with a socket is
    attached or in the middle of `start()`, so none is overwritten; a connection has one
    exactly from its creation to its `close`; events wait only while a dispatch is on the
    stack. `StackOK` says which frames there are.

  An action changes the stack in one of few ways, so there is one lemma for each of them
  (`CalmStep`, `PopStep`, `ClaimStep`, `HandledStep`), for issuing, completing and aborting an
  operation, and for a holder that opens, closes, gives or takes a socket; then one per action.
  TLC found `IInv` to hold on the instance of `iocp` before it was proved.

`ChatSteps_proofs` and `Chat_proofs`, for every number of executors and clients, any set of clients with a helper and
any sizes of messages. Its assumptions are those of the run, and that the clients are finitely
many:

- `ChatOneResumption`, `ChatOneSender`, `ChatSessionOutlivesChildren` and
  `ChatDroppedStreamIsClosed`, the four invariants of `chat`. None is inductive, and no two of
  them without the others: whether a coroutine's handle is in a second place depends on where its
  frames say that it waits, this on who ended the wait before, and that on counters and locks.
  `Invariance` proves one invariant for all of them, whose parts are:
  - `Stacks`: the stacks of frames that each chain can have. The head of a stack then tells the
    rest (`MainTop` to `HelperTop`), so an action knows what its chain returns to.
  - `Parked`: who waits in a queue, a `join()` or a lock has the frame that says so. With
    `OneResumption`, a chain that runs waits nowhere (`Alone`), so it may push to the queue
    it consumes without being woken up by itself.
  - `Locks`: one chain owns a send lock, it is sending or has been passed the lock and not run
    yet, and the flag is set while it does. `OneSender` counts the first kind only, and a chain
    becomes one of them by a resumption that looks at no flag.
  - `Children`: `active` counts the children that have not ended, so it is 0 when `join()` has
    returned and when a session has not spawned yet. `SessionOutlivesChildren` follows.
  - `Ticketed`: a client is accepted once. Its stream is in the queue of accepted streams, in the
    hands of `serveRoundRobin()` or on its way to the session's worker, and there is no second
    one when the session's chain is started. Otherwise two chains of a client would have one name.
  - `Known`: the room and the cleanups know of a client only once its watcher exists.
  - `Bound`: a queue has its executor before anyone waits in it. `RoomOK`: the room wakes up with a
    command, and its iterator is within `clients_` while a client is being pushed to.

  A step is one of a few kinds, each with a lemma: a chain goes on (`Walk`), goes elsewhere or
  waits (`Moves`), is scheduled with others (`StillTicketed`, `SendEndsKeeps`), hands a waiter over
  (`HandsOver`), or ends. Places are counted one kind after the other (`RunSet` to `InQueuesTake`),
  as a step changes two or three of them. TLC checked the invariant before it was proved.

What is only model-checked: liveness (`WF`, `SF` and `ENABLED` are beyond the proof system),
`TypeOK` of the watchers, the chat server and NanoVG, the invariants of NanoVG and of the image
readers, and whatever a recursive definition computes (the decoders, the layout of
texts, the packer).

## Not modelled

- `stb_truetype`, the formats of `stb_image` other than PNG and GIF, GLAD: vendored or
  generated code the program uses for one call each.
- Logging, `SchedulerTracer`, socket option helpers, Wayland: output, system calls or stubs.
- The examples other than the async chat server, and of its library `accept()` and
  `connect()` as free functions.
- `adoptWatcher` and `releaseWatcher` of a worker, which only keep a pointer alive; the
  destructors of the IOCP watchers.
- Creation and deletion of a NanoVG context, its state stack, the shaders, the rasterizer
  behind FontStash.
