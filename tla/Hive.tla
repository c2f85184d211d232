-------------------------------- MODULE Hive --------------------------------
(***************************************************************************)
(* The thread-safe face of the scheduler, platform/schedule/hive.cc, with  *)
(* the calls of IOWorker that other threads make: the state a hive and its *)
(* IO workers share, and every call as the steps between which another     *)
(* thread can run.  IOWorker.tla is the loop that consumes what these      *)
(* calls post.                                                             *)
(*                                                                         *)
(* Threads that call are external ones (Posters) and the workers           *)
(* themselves, from inside a task.  A task is a model value; what it does  *)
(* is any sequence of calls.  The compute pool is in ComputePool.tla.      *)
(***************************************************************************)
EXTENDS WakeUp, Sequences, FiniteSets, Functions

CONSTANTS NumWorkers,   \* io_workers_.size(); worker 0 runs on the main thread
          Posters,      \* external threads
          Task,         \* every task that is ever posted
          NoTask,
          Calls,        \* the kinds of calls this instance makes
          Delays,       \* the delays given to postDelayed, in ticks
          Backends,     \* the backends of the instance
          LocalMax,     \* local_dq_.maxSize() of each worker
          MaxClock      \* bound: the clock stops here

Workers == 0 .. NumWorkers - 1
Agents  == Posters \cup Workers

\* maxSize() is the capacity less one.
Slots(w) == 0 .. LocalMax[w]
CallKinds == {"io", "local", "private", "delayed", "exit", "stop"}

ASSUME HiveAssumption ==
  /\ NumWorkers \in Nat \ {0}
  /\ Posters \cap Workers = {}
  /\ NoTask \notin Task
  /\ Calls \subseteq CallKinds
  /\ Delays \subseteq Nat
  /\ Backends \subseteq BackendTypes
  /\ LocalMax \in [Workers -> Nat \ {0}]
  /\ MaxClock \in Nat

VARIABLES
  exit_requested,          \* Hive::exit_requested_
  stop_requested,          \* the workers whose stop_requested_ is set
  sleeping,                \* the workers whose sleeping_ is set
  q, q_approx,             \* global_micro_: q_ and approx_size_
  inbound, inbound_approx, \* IOWorker::inbound_: q_ and approx_size_
  backend,                 \* options_.io_backend, the same for all workers
  attached,                \* the workers whose wakeup_ has attached_ set
  token,                   \* the workers that have a notification in their channel
  private_queue, timers,
  local_dq,                \* the ring of each worker's local deque: slot -> task
  cursor,                  \* its top_, modulo the capacity, and how many tasks follow
  claimed,                 \* the slot a thief has claimed and not emptied yet
  clock,                   \* Clock::now()
  call,                    \* where each thread is inside a call
  post,                    \* history: how each task was posted
  ran,                     \* history: the tasks that ran
  overwritten              \* history: the tasks a push wrote over in a slot that a
                           \* thief had claimed and not emptied yet

flags   == <<exit_requested, stop_requested, sleeping>>
pool    == <<q, q_approx>>
mail    == <<inbound, inbound_approx>>
deque   == <<local_dq, cursor, claimed, overwritten>>
queues  == <<private_queue, timers, deque>>
setup   == <<backend, attached>>
hiveVars == <<flags, pool, mail, token, queues, clock, call, post, setup, ran>>

NoClaim   == [victim |-> 0, slot |-> -1]
NotPosted == [kind |-> "none", worker |-> 0, deadline |-> 0]

\* at: the next step of the call; "none" outside any, "body" inside a task that
\* makes none.  task and to are the call's locals.
NoCall == [at |-> "none", task |-> NoTask, to |-> 0]
Body   == [at |-> "body", task |-> NoTask, to |-> 0]

HiveInit ==
  /\ exit_requested = FALSE
  /\ stop_requested = {} /\ sleeping = {}
  /\ q = <<>> /\ q_approx = 0
  /\ inbound = [w \in Workers |-> <<>>]
  /\ inbound_approx = [w \in Workers |-> 0]
  /\ backend \in Backends /\ attached = {} /\ token = {}
  /\ private_queue = [w \in Workers |-> <<>>]
  /\ timers = [w \in Workers |-> {}]
  /\ local_dq = [w \in Workers |-> [i \in Slots(w) |-> NoTask]]
  /\ cursor = [w \in Workers |-> [top |-> 0, size |-> 0]]
  /\ claimed = [w \in Workers |-> NoClaim]
  /\ overwritten = {}
  /\ clock = 0
  /\ call = [a \in Agents |-> NoCall]
  /\ post = [t \in Task |-> NotPosted]
  /\ ran = {}

\* A call may start on an external thread or inside a task.
MayCall(a, kind) ==
  /\ kind \in Calls
  /\ call[a] = IF a \in Workers THEN Body ELSE NoCall

Continue(a, label, t, w) ==
  call' = [call EXCEPT ![a] = [at |-> label, task |-> t, to |-> w]]

Return(a) == call' = [call EXCEPT ![a] = IF a \in Workers THEN Body ELSE NoCall]

Posted(t, kind, w, deadline) ==
  /\ post[t] = NotPosted
  /\ post' = [post EXCEPT ![t] = [kind |-> kind, worker |-> w, deadline |-> deadline]]

\* IOWorker::wakeup, down to notify() of the watcher of the backend.
wakeup(w) ==
  token' = IF Notifies(WorkerWakeUp[backend], w \in attached) THEN token \cup {w} ELSE token

----------------------------------------------------------------------------
(* postIO: push into the global pool, count, wake one sleeping worker.     *)

GlobalPush(t) == q' = Append(q, t) /\ UNCHANGED q_approx

postIO(a, t) ==
  /\ MayCall(a, "io")
  /\ Posted(t, "io", 0, 0)
  /\ GlobalPush(t)
  /\ Continue(a, "io_count", t, 0)
  /\ UNCHANGED <<flags, mail, token, queues, clock, setup, ran>>

IoCount(a) ==
  /\ call[a].at = "io_count"
  /\ q_approx' = q_approx + 1
  /\ Continue(a, "io_scan", call[a].task, 0)
  /\ UNCHANGED <<flags, q, mail, token, queues, clock, post, setup, ran>>

\* wakeOneIdleIOWorker looks at one worker after the other ...
IoScan(a) ==
  LET w == call[a].to IN
  /\ call[a].at = "io_scan"
  /\ \/ w \in sleeping /\ Continue(a, "wake", call[a].task, w)
     \/ w \notin sleeping /\ w + 1 \in Workers /\ Continue(a, "io_scan", call[a].task, w + 1)
     \/ w \notin sleeping /\ w + 1 \notin Workers /\ Return(a)
  /\ UNCHANGED <<flags, pool, mail, token, queues, clock, post, setup, ran>>

\* ... and wakes the first sleeping one; the other posts wake their target.
Wake(a) ==
  /\ call[a].at = "wake"
  /\ wakeup(call[a].to)
  /\ Return(a)
  /\ UNCHANGED <<flags, pool, mail, queues, clock, post, setup, ran>>

----------------------------------------------------------------------------
(* postToLocal: the owner pushes into its own deque while there is room;   *)
(* everybody else, and a full deque, falls back to postIO.                 *)

\* The slot of an index that is less than a capacity beyond the ring.
Slot(w, i) == IF i > LocalMax[w] THEN i - (LocalMax[w] + 1) ELSE i

\* Where bottom_ points, and the slot before it.
Bottom(w) == Slot(w, cursor[w].top + cursor[w].size)
Newest(w) == Slot(w, cursor[w].top + (cursor[w].size - 1))

HasRoom(w) == cursor[w].size < LocalMax[w]

Overrun(w) == \E x \in Workers : claimed[x] = [victim |-> w, slot |-> Bottom(w)]

\* tryPushBottom of a deque with room.
PushBottom(w, t) ==
  /\ local_dq' = [local_dq EXCEPT ![w][Bottom(w)] = t]
  /\ cursor' = [cursor EXCEPT ![w].size = @ + 1]
  /\ overwritten' = IF Overrun(w) THEN overwritten \cup {local_dq[w][Bottom(w)]} ELSE overwritten
  /\ UNCHANGED claimed

\* Mutant: a full deque drops the owner's task.
postToLocal_drop(a, w, t) ==
  /\ MayCall(a, "local")
  /\ Posted(t, "io", 0, 0)
  /\ \/ /\ a = w
        /\ IF HasRoom(w) THEN PushBottom(w, t) ELSE UNCHANGED deque
        /\ UNCHANGED <<pool, call>>
     \/ /\ a # w
        /\ GlobalPush(t)
        /\ Continue(a, "io_count", t, 0)
        /\ UNCHANGED deque
  /\ UNCHANGED <<flags, mail, token, private_queue, timers, clock, setup, ran>>

postToLocal(a, w, t) ==
  /\ MayCall(a, "local")
  /\ Posted(t, "io", 0, 0)
  /\ \/ /\ a = w /\ HasRoom(w)
        /\ PushBottom(w, t)
        /\ UNCHANGED <<pool, call>>
     \/ /\ a # w \/ ~HasRoom(w)
        /\ GlobalPush(t)
        /\ Continue(a, "io_count", t, 0)
        /\ UNCHANGED deque
  /\ UNCHANGED <<flags, mail, token, private_queue, timers, clock, setup, ran>>

----------------------------------------------------------------------------
(* postToWorker and postDelayed: push a command into the worker's inbound  *)
(* queue, count it, wake the worker.                                       *)

InboundPush(w, t) ==
  /\ inbound' = [inbound EXCEPT ![w] = Append(@, t)]
  /\ UNCHANGED inbound_approx

postToWorker(a, w, t) ==
  /\ MayCall(a, "private")
  /\ Posted(t, "private", w, 0)
  /\ InboundPush(w, t)
  /\ Continue(a, "in_count", t, w)
  /\ UNCHANGED <<flags, pool, token, queues, clock, setup, ran>>

\* Of two workers drawn at random, the one with fewer timers.
pickDelayedWorker(w) ==
  \/ NumWorkers = 1 /\ w = 0
  \/ \E other \in Workers \ {w} : Cardinality(timers[w]) <= Cardinality(timers[other])

postDelayed(a, w, t, delay) ==
  /\ MayCall(a, "delayed")
  /\ clock + delay <= MaxClock
  /\ pickDelayedWorker(w)
  /\ Posted(t, "delayed", w, clock + delay)
  /\ Continue(a, "in_push", t, w)
  /\ UNCHANGED <<flags, pool, mail, token, queues, clock, setup, ran>>

AddTimer(a) ==
  /\ call[a].at = "in_push"
  /\ InboundPush(call[a].to, call[a].task)
  /\ Continue(a, "in_count", call[a].task, call[a].to)
  /\ UNCHANGED <<flags, pool, token, queues, clock, post, setup, ran>>

\* Mutant: the target is not woken.
InCount_silent(a) ==
  /\ call[a].at = "in_count"
  /\ inbound_approx' = [inbound_approx EXCEPT ![call[a].to] = @ + 1]
  /\ Return(a)
  /\ UNCHANGED <<flags, pool, inbound, token, queues, clock, post, setup, ran>>

InCount(a) ==
  /\ call[a].at = "in_count"
  /\ inbound_approx' = [inbound_approx EXCEPT ![call[a].to] = @ + 1]
  /\ Continue(a, "wake", call[a].task, call[a].to)
  /\ UNCHANGED <<flags, pool, inbound, token, queues, clock, post, setup, ran>>

----------------------------------------------------------------------------
(* requestExit: only the call that flips the flag stops and wakes the      *)
(* workers.  IOWorker::requestStop sets one flag and wakes nobody.         *)

Exchange(a) ==
  /\ exit_requested' = TRUE
  /\ IF exit_requested THEN Return(a) ELSE Continue(a, "exit_stop", NoTask, 0)
  /\ UNCHANGED <<stop_requested, sleeping, pool, mail, token, queues, clock, post, setup, ran>>

requestExit(a) == MayCall(a, "exit") /\ Exchange(a)

ExitStop(a) ==
  /\ call[a].at = "exit_stop"
  /\ stop_requested' = stop_requested \cup {call[a].to}
  /\ Continue(a, "exit_wake", NoTask, call[a].to)
  /\ UNCHANGED <<exit_requested, sleeping, pool, mail, token, queues, clock, post, setup, ran>>

\* Mutant: only the first worker is stopped and woken.
ExitWake_first(a) ==
  /\ call[a].at = "exit_wake"
  /\ wakeup(call[a].to)
  /\ Return(a)
  /\ UNCHANGED <<flags, pool, mail, queues, clock, post, setup, ran>>

ExitWake(a) ==
  /\ call[a].at = "exit_wake"
  /\ wakeup(call[a].to)
  /\ IF call[a].to + 1 \in Workers
       THEN Continue(a, "exit_stop", NoTask, call[a].to + 1)
       ELSE Return(a)
  /\ UNCHANGED <<flags, pool, mail, queues, clock, post, setup, ran>>

requestStop(a, w) ==
  /\ MayCall(a, "stop")
  /\ stop_requested' = stop_requested \cup {w}
  /\ UNCHANGED <<exit_requested, sleeping, pool, mail, token, queues, clock, call, post, setup, ran>>

----------------------------------------------------------------------------
StartCall(a) ==
  \/ \E t \in Task :
       \/ postIO(a, t)
       \/ \E w \in Workers :
            \/ postToLocal(a, w, t)
            \/ postToWorker(a, w, t)
            \/ \E delay \in Delays : postDelayed(a, w, t, delay)
  \/ requestExit(a)
  \/ \E w \in Workers : requestStop(a, w)

ContinueCall(a) ==
  \/ IoCount(a) \/ IoScan(a) \/ Wake(a)
  \/ AddTimer(a) \/ InCount(a)
  \/ ExitStop(a) \/ ExitWake(a)

Tick ==
  /\ clock < MaxClock
  /\ clock' = clock + 1
  /\ UNCHANGED <<flags, pool, mail, token, queues, call, post, setup, ran>>
=============================================================================
