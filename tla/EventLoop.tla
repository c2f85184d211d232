----------------------------- MODULE EventLoop -----------------------------
(***************************************************************************)
(* The single-threaded driver platform/schedule/eventloop.cc, its wakeup   *)
(* watchers (platform/*/schedule/watcher/*_wakeup.cc) and the core it runs *)
(* on, seen from the threads that post to it.  A post is two steps, the    *)
(* push under mu_ and the notify() after it; the loop computes its timeout *)
(* under mu_ and blocks after it.                                          *)
(*                                                                         *)
(* The backends differ in what wait() does with an event:                  *)
(*   epoll, poll, kqueue   it stays until the callback reads it            *)
(*   IOCP                  the packet is taken from the port               *)
(*   win32                 messages are taken; of the handles that are     *)
(*                         signalled the first one is reported             *)
(*   Cocoa                 all events are taken, those without source too  *)
(*                                                                         *)
(* User code runs in tasks, timers and callbacks of sources, and before    *)
(* run().  Watchers are started and stopped on the loop's thread, which is *)
(* the one that made the loop.                                             *)
(***************************************************************************)
EXTENDS WakeUp, Sequences, FiniteSets, SequencesExt

CONSTANTS Callers,     \* the other threads that post
          Loop,        \* the thread of the loop
          Tasks, Sources,
          WakeUp,      \* the event of the wakeup watcher
          Programs,    \* bound: the backend, tasks and sources a program may have
          Delays,      \* delays in ticks
          TicksPerMs,  \* resolution of the clock
          MaxClock,    \* bound: the time
          Capacity,    \* bound: notifications the channel holds
          MaxWakeUps,  \* bound: calls of requestWakeUp()
          MaxOps       \* bound: changes of the sources not applied yet

ASSUME EventLoopAssumption ==
  /\ Loop \notin Callers /\ WakeUp \notin Sources
  /\ Programs \subseteq [backend : BackendTypes, tasks : SUBSET Tasks, sources : SUBSET Sources]
  /\ Capacity \in Nat \ {0} /\ MaxWakeUps \in Nat
  /\ Delays \subseteq Nat /\ TicksPerMs \in Nat \ {0} /\ MaxClock \in Nat /\ MaxOps \in Nat

VARIABLES
  program,         \* the backend, tasks and sources that the program has
  clock,
  tasks,           \* tasks_
  timers,          \* timers_: task and deadline
  exit_requested,
  call,            \* what each thread has left to do in a call: nothing, or notify()
  signal,          \* the notifications in the eventfd, pipe, port or message queue
  wakeups,         \* bound: the calls of requestWakeUp() so far
  pending_ops,     \* pending_ops_ of the core
  attached,        \* the sources whose watchers have attached_ set
  armed,           \* the sources registered with the backend: handles_, in its order
  readable,        \* the sources that have an event in the kernel
  at, back,        \* where the loop is; where the user's code returns to
  wake,            \* when wait() gives up
  ready,           \* the raw events not dispatched yet
  batch,           \* local or expired: the tasks taken out and not run yet
  posted,          \* history: the tasks given to post(), in order
  delayed,         \* history: those given to postDelayed()
  ran              \* history: the tasks run, in order

vars == <<program, clock, tasks, timers, exit_requested, call, signal, wakeups, pending_ops, attached,
          armed, readable, at, back, wake, ready, batch, posted, delayed,
          ran>>
queueVars == <<tasks, timers, exit_requested, posted, delayed>>
coreVars == <<pending_ops, attached, armed>>
loopVars == <<at, back, wake, ready, batch, ran>>

Threads == Callers \cup {Loop}
Never == MaxClock + 1

Init ==
  /\ program \in Programs
  /\ clock = 0
  /\ tasks = <<>> /\ timers = {} /\ exit_requested = FALSE
  /\ posted = <<>> /\ delayed = {}
  /\ call = [c \in Threads |-> "none"]
  /\ signal = 0 /\ wakeups = 0
  /\ pending_ops = <<>> /\ attached = {} /\ armed = <<>> /\ readable = {}
  /\ at = "user" /\ back = "run"
  /\ wake = 0 /\ ready = {} /\ batch = <<>> /\ ran = <<>>

----------------------------------------------------------------------------
(* The calls.                                                              *)

Calling(c) == call[c] = "none" /\ (c = Loop => at = "user")
Fresh == program.tasks \ (ToSet(posted) \cup delayed)

post(c, t) ==
  /\ Calling(c) /\ t \in Fresh
  /\ tasks' = Append(tasks, t)
  /\ posted' = Append(posted, t)
  /\ call' = [call EXCEPT ![c] = "notify"]
  /\ UNCHANGED <<program, clock, timers, delayed, exit_requested, signal, wakeups, coreVars, readable, loopVars>>

postDelayed(c, t) ==
  /\ Calling(c) /\ t \in Fresh
  /\ \E d \in Delays :
       /\ clock + d <= MaxClock
       /\ timers' = timers \cup {[task |-> t, deadline |-> clock + d]}
  /\ delayed' = delayed \cup {t}
  /\ call' = [call EXCEPT ![c] = "notify"]
  /\ UNCHANGED <<program, clock, tasks, exit_requested, posted, signal, wakeups, coreVars, readable, loopVars>>

requestExit(c) ==
  /\ Calling(c) /\ ~exit_requested
  /\ exit_requested' = TRUE
  /\ call' = [call EXCEPT ![c] = "notify"]
  /\ UNCHANGED <<program, clock, tasks, timers, posted, delayed, signal, wakeups, coreVars, readable, loopVars>>

\* requestWakeUp(), with nothing to wake the loop for.
requestWakeUp(c) ==
  /\ Calling(c) /\ wakeups < MaxWakeUps
  /\ wakeups' = wakeups + 1
  /\ call' = [call EXCEPT ![c] = "notify"]
  /\ UNCHANGED <<program, clock, queueVars, signal, coreVars, readable, loopVars>>

\* The constructor has attached the watcher.  A write to an eventfd or pipe that is full
\* fails, and it is readable then anyway.
notify(c) ==
  /\ call[c] = "notify"
  /\ signal' = IF Notifies(LoopWakeUp[program.backend], TRUE) /\ signal < Capacity
                 THEN signal + 1 ELSE signal
  /\ call' = [call EXCEPT ![c] = "none"]
  /\ UNCHANGED <<program, clock, queueVars, wakeups, coreVars, readable, loopVars>>

Op(k, s) == [kind |-> k, src |-> s]

\* start() and stop() of a watcher.  The core applies the change later.
attachSource(s) ==
  /\ Calling(Loop) /\ s \notin attached /\ Len(pending_ops) < MaxOps
  /\ attached' = attached \cup {s}
  /\ pending_ops' = Append(pending_ops, Op("add", s))
  /\ UNCHANGED <<program, clock, queueVars, call, signal, wakeups, armed, readable, loopVars>>

detachSource(s) ==
  /\ Calling(Loop) /\ s \in attached /\ Len(pending_ops) < MaxOps
  /\ attached' = attached \ {s}
  /\ pending_ops' = Append(pending_ops, Op("remove", s))
  /\ UNCHANGED <<program, clock, queueVars, call, signal, wakeups, armed, readable, loopVars>>

----------------------------------------------------------------------------
(* The loop.                                                               *)

\* unregisterHandle(): the last handle takes the place of s.
Removed(handles, s) ==
  LET i == CHOOSE j \in 1 .. Len(handles) : handles[j] = s
  IN  Front([handles EXCEPT ![i] = Last(handles)])

Applied(ops) ==
  FoldLeft(LAMBDA a, op : CASE op.kind = "add" /\ op.src \notin ToSet(a) -> Append(a, op.src)
                            [] op.kind = "remove" /\ op.src \in ToSet(a) -> Removed(a, op.src)
                            [] OTHER -> a,
           armed, ops)

\* Mutant: the list of changes is emptied before it is walked.
applyPendingChanges_cleared == pending_ops' = <<>> /\ armed' = Applied(pending_ops')

applyPendingChanges == armed' = Applied(pending_ops) /\ pending_ops' = <<>>

UserReturns ==
  /\ at = "user" /\ call[Loop] = "none"
  /\ at' = back /\ back' = "none"
  /\ UNCHANGED <<program, clock, queueVars, call, signal, wakeups, coreVars, readable, wake, ready, batch, ran>>

run ==
  /\ at = "run"
  /\ applyPendingChanges
  /\ at' = "head"
  /\ UNCHANGED <<program, clock, queueVars, call, signal, wakeups, attached, readable, back, wake, ready,
                 batch, ran>>

\* Whole milliseconds, so that a timer due in less is polled for.
computeTimeoutMs ==
  LET due == {r.deadline : r \in timers}
  IN  CASE tasks # <<>> -> 0
        [] tasks = <<>> /\ due = {} -> -1
        [] OTHER -> Max({0, Min(due) - clock}) \div TicksPerMs

Until(ms) == IF ms < 0 THEN Never ELSE clock + ms * TicksPerMs

LoopHead ==
  /\ at = "head"
  /\ at' = IF exit_requested THEN "stopped" ELSE "wait"
  /\ wake' = Until(computeTimeoutMs)
  /\ UNCHANGED <<program, clock, queueVars, call, signal, wakeups, coreVars, readable, back, ready, batch, ran>>

Reported == readable \cap ToSet(armed)
\* What ends the wait: with Cocoa also an event that no source asks for.
Arrived == IF program.backend = "MACOS_COCOA" THEN readable ELSE Reported
Woken == IF signal > 0 THEN {WakeUp} ELSE {}

\* What wait() reports, and what it takes from the kernel.
ReadinessWait ==
  /\ program.backend \in {"LINUX_EPOLL", "LINUX_POLL", "MACOS_POLL", "MACOS_KQUEUE"}
  /\ ready' = Reported \cup Woken
  /\ UNCHANGED <<signal, readable>>

IocpWait ==
  /\ program.backend = "WINDOWS_IOCP"
  /\ ready' = Reported \cup Woken
  /\ signal' = 0
  /\ readable' = readable \ ToSet(armed)

\* MsgWaitForMultipleObjectsEx reports the first signalled handle only.
Before(s) == {armed[i] : i \in {i \in 1 .. Len(armed) : \E j \in 1 .. Len(armed) : i < j /\ armed[j] = s}}

Win32Wait ==
  /\ program.backend = "WINDOWS_WIN32"
  /\ ready' = {s \in Reported : Before(s) \cap readable = {}} \cup Woken
  /\ signal' = 0
  /\ UNCHANGED readable

CocoaWait ==
  /\ program.backend = "MACOS_COCOA"
  /\ ready' = Reported \cup Woken
  /\ signal' = 0
  /\ readable' = {}

\* Mutant: the tasks and timers are only looked at when an event came.
Wait_skips ==
  /\ at = "wait"
  /\ Arrived \cup Woken # {} \/ clock >= wake
  /\ ReadinessWait \/ IocpWait \/ Win32Wait \/ CocoaWait
  /\ at' = IF Reported \cup Woken = {} THEN "head" ELSE "dispatch"
  /\ wake' = 0
  /\ UNCHANGED <<program, clock, queueVars, call, wakeups, coreVars, back, batch, ran>>

\* wait() returns the events there are, or times out.
Wait ==
  /\ at = "wait"
  /\ Arrived \cup Woken # {} \/ clock >= wake
  /\ ReadinessWait \/ IocpWait \/ Win32Wait \/ CocoaWait
  /\ at' = "dispatch"
  /\ wake' = 0
  /\ UNCHANGED <<program, clock, queueVars, call, wakeups, coreVars, back, batch, ran>>

\* The wakeup source has its channel to read; the user's source calls back.
Dispatch ==
  /\ at = "dispatch"
  /\ \E e \in ready :
       /\ ready' = ready \ {e}
       /\ \/ /\ e = WakeUp
             /\ at' = IF Lasting(LoopWakeUp[program.backend]) THEN "drain" ELSE "dispatch"
             /\ UNCHANGED <<back, readable>>
          \/ /\ e # WakeUp
             /\ at' = "user" /\ back' = "dispatch"
             /\ readable' = IF program.backend \in {"WINDOWS_IOCP", "MACOS_COCOA"}
                              THEN readable ELSE readable \ {e}
  /\ UNCHANGED <<program, clock, queueVars, call, signal, wakeups, coreVars, wake, batch, ran>>

\* The callback of the wakeup source reads until there is nothing left.
DrainRead ==
  /\ at = "drain"
  /\ IF signal = 0
       THEN at' = "dispatch" /\ UNCHANGED signal
       ELSE signal' \in LeftBehind(LoopWakeUp[program.backend], signal) /\ UNCHANGED at
  /\ UNCHANGED <<program, clock, queueVars, call, wakeups, coreVars, readable, back, wake,
                 ready, batch, ran>>

DispatchDone ==
  /\ at = "dispatch" /\ ready = {}
  /\ applyPendingChanges
  /\ at' = "timers"
  /\ UNCHANGED <<program, clock, queueVars, call, signal, wakeups, attached, readable, back, wake, ready,
                 batch, ran>>

Due(r) == r.deadline <= clock

\* The expired timers are taken out, the earliest first.
runExpiredTimers ==
  /\ at = "timers"
  /\ LET due == {r \in timers : Due(r)}
     IN  /\ \E q \in SetToSeqs(due) :
              /\ \A i, j \in 1 .. Len(q) : i < j => q[i].deadline <= q[j].deadline
              /\ batch' = [i \in 1 .. Len(q) |-> q[i].task]
         /\ timers' = timers \ due
  /\ at' = "expired"
  /\ UNCHANGED <<program, clock, tasks, exit_requested, posted, delayed, call, signal, wakeups, coreVars, readable,
                 back, wake, ready, ran>>

runReadyTasks ==
  /\ at = "expired" /\ batch = <<>>
  /\ batch' = tasks
  /\ tasks' = <<>>
  /\ at' = "ready"
  /\ UNCHANGED <<program, clock, timers, exit_requested, posted, delayed, call, signal, wakeups, coreVars, readable,
                 back, wake, ready, ran>>

RunTask ==
  /\ at \in {"expired", "ready"} /\ batch # <<>>
  /\ ran' = Append(ran, Head(batch))
  /\ batch' = Tail(batch)
  /\ at' = "user" /\ back' = at
  /\ UNCHANGED <<program, clock, queueVars, call, signal, wakeups, coreVars, readable, wake, ready>>

IterationDone ==
  /\ at = "ready" /\ batch = <<>>
  /\ at' = "head"
  /\ UNCHANGED <<program, clock, queueVars, call, signal, wakeups, coreVars, readable, back, wake, ready,
                 batch, ran>>

----------------------------------------------------------------------------
\* Time passes, and events arrive at the sources.
Tick ==
  /\ clock < MaxClock
  /\ clock' = clock + 1
  /\ UNCHANGED <<program, queueVars, call, signal, wakeups, coreVars, readable, loopVars>>

Arrive(s) ==
  /\ s \notin readable
  /\ readable' = readable \cup {s}
  /\ UNCHANGED <<program, clock, queueVars, call, signal, wakeups, coreVars, loopVars>>

LoopStep ==
  \/ run \/ LoopHead \/ Wait \/ Dispatch \/ DrainRead \/ DispatchDone
  \/ runExpiredTimers \/ runReadyTasks \/ RunTask \/ IterationDone

Next ==
  \/ \E c \in Threads :
       \/ requestExit(c) \/ requestWakeUp(c) \/ notify(c)
       \/ \E t \in Tasks : post(c, t) \/ postDelayed(c, t)
  \/ \E s \in program.sources : attachSource(s) \/ detachSource(s) \/ Arrive(s)
  \/ LoopStep \/ UserReturns \/ Tick

Spec == Init /\ [][Next]_vars

\* The threads go on, the user's code returns, and time passes.
FairSpec ==
  /\ Spec
  /\ WF_vars(LoopStep) /\ WF_vars(UserReturns) /\ WF_vars(Tick)
  /\ \A c \in Threads : WF_vars(notify(c))

----------------------------------------------------------------------------
\* The state is well formed; raw events and tasks taken out are only held while they are
\* dispatched and run, so no iteration leaves any behind.
TypeOK ==
  /\ program \in Programs /\ clock \in 0 .. MaxClock /\ wake \in 0 .. Never
  /\ tasks \in Seq(Tasks) /\ batch \in Seq(Tasks) /\ ran \in Seq(Tasks) /\ posted \in Seq(Tasks)
  /\ delayed \subseteq Tasks
  /\ timers \subseteq [task : Tasks, deadline : 0 .. MaxClock]
  /\ exit_requested \in BOOLEAN /\ signal \in 0 .. Capacity /\ wakeups \in 0 .. MaxWakeUps
  /\ call \in [Threads -> {"none", "notify"}]
  /\ pending_ops \in Seq([kind : {"add", "remove"}, src : Sources]) /\ Len(pending_ops) <= MaxOps
  /\ attached \subseteq Sources /\ armed \in Seq(Sources) /\ readable \subseteq Sources
  /\ at \in {"user", "run", "head", "wait", "dispatch", "drain", "timers", "expired", "ready", "stopped"}
  /\ ready \subseteq Sources \cup {WakeUp}
  /\ ready # {} => "dispatch" \in {at, back} /\ at \in {"dispatch", "drain", "user"}
  /\ batch # <<>> => {at, back} \cap {"expired", "ready"} # {}

\* Nothing that comes while the loop computes its timeout, waits or runs the tasks it took
\* out is slept through: every task and every timer runs unless the loop is left before,
\* and after requestExit() the loop is left, blocked or busy as it may be.
NothingSleptThrough ==
  /\ \A t \in Tasks : (t \in program.tasks \ Fresh) ~> (t \in ToSet(ran) \/ at = "stopped")
  /\ exit_requested ~> (at = "stopped")

\* An event of a source in use is dispatched, once the core has applied what is pending,
\* whatever comes at the other sources.  Excepted is the Win32 backend: while a handle
\* before that of the source is signalled at every wait(), the source is never reported.
SourceServed ==
  \A s \in Sources :
    \/ []<>(at = "wait" /\ program.backend = "WINDOWS_WIN32" /\ Before(s) \cap readable # {})
    \/ (s \in readable \cap attached /\ pending_ops = <<>> /\ at # "user")
         ~> (s \notin readable \/ s \notin attached \/ at = "stopped")
=============================================================================
