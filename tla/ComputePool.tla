---------------------------- MODULE ComputePool ----------------------------
(***************************************************************************)
(* The compute side of a hive: GlobalComputePool and postCompute of        *)
(* platform/schedule/hive.cc, the loop of compute_worker.cc, and the part  *)
(* of requestExit that stops the compute workers.                          *)
(*                                                                         *)
(* The mutex and the condition variable are the C++ library's: waiting     *)
(* releases the mutex and joins the wait set in one step, a notification   *)
(* goes to the threads in the wait set at that moment only, and a thread   *)
(* may wake without one.                                                   *)
(***************************************************************************)
EXTENDS Integers, Sequences, FiniteSets

CONSTANTS Workers,       \* compute_workers_
          Posters,       \* external threads that call postCompute or requestExit
          Task, NoTask,
          Nobody,        \* the owner of a free mutex
          BatchSize,     \* options_.compute_batch_size
          MayExit,       \* whether this instance calls requestExit
          MaxSpurious    \* bound: how often a thread wakes without a notification

Agents == Posters \cup Workers

ASSUME ComputeAssumption ==
  /\ Posters \cap Workers = {}
  /\ Nobody \notin Agents /\ NoTask \notin Task
  /\ BatchSize \in Nat \ {0} /\ MayExit \in BOOLEAN /\ MaxSpurious \in Nat

VARIABLES
  exit_requested,  \* Hive::exit_requested_
  stop_requested,  \* the workers whose stop_requested_ is set
  mu,              \* who holds mu_
  q, approx_size,  \* q_ and approx_size_
  waiting,         \* the threads blocked in cv_.wait
  pc,              \* the next step of each worker's loop
  batch,           \* the tasks a worker has popped and not run
  call,            \* where each thread is inside postCompute or requestExit
  posted,          \* history: the tasks posted
  ranOn,           \* history: the worker that ran each task
  spurious         \* history: wakeups without a notification

vars == <<exit_requested, stop_requested, mu, q, approx_size, waiting, pc, batch,
          call, posted, ranOn, spurious>>

\* The state the calls change, and the state the loop changes.
callVars == <<exit_requested, stop_requested, posted>>
loopVars == <<pc, batch, ranOn>>

Init ==
  /\ exit_requested = FALSE
  /\ stop_requested = {}
  /\ mu = Nobody
  /\ q = <<>> /\ approx_size = 0
  /\ waiting = {}
  /\ pc = [w \in Workers |-> "head"]
  /\ batch = [w \in Workers |-> <<>>]
  /\ call = [a \in Agents |-> "none"]
  /\ posted = {}
  /\ ranOn = [t \in Task |-> NoTask]
  /\ spurious = 0

Exiting(w) == w \in stop_requested \/ exit_requested

\* A call starts on an external thread or inside a task a worker is running.
MayCall(a) == call[a] = "none" /\ (a \in Workers => pc[a] = "body")
Continue(a, from, to) == call[a] = from /\ call' = [call EXCEPT ![a] = to]

----------------------------------------------------------------------------
(* postCompute: push under the mutex, then count, then notify one.         *)

postCompute(a, t) ==
  /\ MayCall(a) /\ t \notin posted
  /\ mu = Nobody
  /\ posted' = posted \cup {t}
  /\ q' = Append(q, t)
  /\ Continue(a, "none", "count")
  /\ UNCHANGED <<exit_requested, stop_requested, mu, approx_size, waiting, loopVars, spurious>>

\* Mutant: no notification when other tasks are queued.
PushCount_first(a) ==
  /\ Continue(a, "count", IF approx_size = 0 THEN "notify" ELSE "none")
  /\ approx_size' = approx_size + 1
  /\ UNCHANGED <<callVars, mu, q, waiting, loopVars, spurious>>

PushCount(a) ==
  /\ Continue(a, "count", "notify")
  /\ approx_size' = approx_size + 1
  /\ UNCHANGED <<callVars, mu, q, waiting, loopVars, spurious>>

\* Mutant: nobody is notified.
NotifyOne_missing(a) ==
  /\ Continue(a, "notify", "none")
  /\ UNCHANGED <<callVars, mu, q, approx_size, waiting, loopVars, spurious>>

NotifyOne(a) ==
  /\ Continue(a, "notify", "none")
  /\ \/ waiting = {} /\ UNCHANGED waiting
     \/ \E w \in waiting : waiting' = waiting \ {w}
  /\ UNCHANGED <<callVars, mu, q, approx_size, loopVars, spurious>>

----------------------------------------------------------------------------
(* requestExit: the first call stops the workers one by one (their order   *)
(* does not matter), then notifies them all, without taking the mutex.     *)

requestExit(a) ==
  /\ MayExit /\ MayCall(a)
  /\ exit_requested' = TRUE
  /\ call' = [call EXCEPT ![a] = IF exit_requested THEN "none" ELSE "stop"]
  /\ UNCHANGED <<stop_requested, posted, mu, q, approx_size, waiting, loopVars, spurious>>

StopWorker(a) ==
  /\ call[a] = "stop"
  /\ \E w \in Workers \ stop_requested : stop_requested' = stop_requested \cup {w}
  /\ UNCHANGED <<exit_requested, posted, mu, q, approx_size, waiting, loopVars, call, spurious>>

NotifyAll(a) ==
  /\ stop_requested = Workers
  /\ Continue(a, "stop", "none")
  /\ waiting' = {}
  /\ UNCHANGED <<callVars, mu, q, approx_size, loopVars, spurious>>

----------------------------------------------------------------------------
(* ComputeWorker::run with waitPopBatch.                                   *)

Goto(w, from, to) ==
  /\ pc[w] = from
  /\ pc' = [pc EXCEPT ![w] = to]

LoopHead(w) ==
  /\ Goto(w, "head", IF Exiting(w) THEN "stopped" ELSE "lock")
  /\ UNCHANGED <<callVars, mu, q, approx_size, waiting, batch, ranOn, call, spurious>>

\* Also what a thread does that returns from the wait.
Lock(w) ==
  /\ mu = Nobody /\ w \notin waiting
  /\ mu' = w
  /\ Goto(w, "lock", "predicate")
  /\ UNCHANGED <<callVars, q, approx_size, waiting, batch, ranOn, call, spurious>>

\* The predicate fails ...
MustWait(w) ==
  /\ q = <<>> /\ ~exit_requested
  /\ Goto(w, "predicate", "wait")
  /\ UNCHANGED <<callVars, mu, q, approx_size, waiting, batch, ranOn, call, spurious>>

\* ... and only then does the thread release the mutex and join the wait set.
Wait(w) ==
  /\ Goto(w, "wait", "lock")
  /\ waiting' = waiting \cup {w}
  /\ mu' = Nobody
  /\ UNCHANGED <<callVars, q, approx_size, batch, ranOn, call, spurious>>

\* An exit with nothing to take.
PopNone(w) ==
  /\ q = <<>> /\ exit_requested
  /\ Goto(w, "predicate", "head")
  /\ mu' = Nobody
  /\ UNCHANGED <<callVars, q, approx_size, waiting, batch, ranOn, call, spurious>>

BatchLen == IF Len(q) < BatchSize THEN Len(q) ELSE BatchSize

PopBatch(w) ==
  /\ q # <<>>
  /\ Goto(w, "predicate", "uncount")
  /\ batch' = [batch EXCEPT ![w] = SubSeq(q, 1, BatchLen)]
  /\ q' = SubSeq(q, BatchLen + 1, Len(q))
  /\ mu' = Nobody
  /\ UNCHANGED <<callVars, approx_size, waiting, ranOn, call, spurious>>

Uncount(w) ==
  /\ Goto(w, "uncount", "run")
  /\ approx_size' = approx_size - Len(batch[w])
  /\ UNCHANGED <<callVars, mu, q, waiting, batch, ranOn, call, spurious>>

RunTask(w) ==
  /\ batch[w] # <<>> /\ ~Exiting(w)
  /\ Goto(w, "run", "body")
  /\ ranOn' = [ranOn EXCEPT ![Head(batch[w])] = w]
  /\ batch' = [batch EXCEPT ![w] = Tail(@)]
  /\ UNCHANGED <<callVars, mu, q, approx_size, waiting, call, spurious>>

TaskReturns(w) ==
  /\ call[w] = "none"
  /\ Goto(w, "body", "run")
  /\ UNCHANGED <<callVars, mu, q, approx_size, waiting, batch, ranOn, call, spurious>>

\* The batch is done, or an exit drops what is left of it.
BatchDone(w) ==
  /\ batch[w] = <<>> \/ Exiting(w)
  /\ Goto(w, "run", "head")
  /\ batch' = [batch EXCEPT ![w] = <<>>]
  /\ UNCHANGED <<callVars, mu, q, approx_size, waiting, ranOn, call, spurious>>

SpuriousWakeup(w) ==
  /\ w \in waiting /\ spurious < MaxSpurious
  /\ waiting' = waiting \ {w}
  /\ spurious' = spurious + 1
  /\ UNCHANGED <<callVars, mu, q, approx_size, loopVars, call>>

----------------------------------------------------------------------------
CallStep(a) == PushCount(a) \/ NotifyOne(a) \/ StopWorker(a) \/ NotifyAll(a)

Loop(w) ==
  \/ LoopHead(w) \/ Lock(w) \/ MustWait(w) \/ Wait(w) \/ PopNone(w) \/ PopBatch(w)
  \/ Uncount(w) \/ RunTask(w) \/ TaskReturns(w) \/ BatchDone(w)

Next ==
  \/ \E a \in Agents : CallStep(a) \/ requestExit(a) \/ \E t \in Task : postCompute(a, t)
  \/ \E w \in Workers : Loop(w) \/ SpuriousWakeup(w)

Spec == Init /\ [][Next]_vars

\* Threads are scheduled and a call that was started goes on.
FairSpec ==
  /\ Spec
  /\ \A a \in Agents : WF_vars(CallStep(a))
  /\ \A w \in Workers : WF_vars(Loop(w))

----------------------------------------------------------------------------
(* Properties. *)

Labels == {"head", "lock", "predicate", "wait", "uncount", "run", "body", "stopped"}

\* The queue and the batches hold tasks, one thread at most holds the mutex, and
\* only a thread that has released it is in the wait set.
TypeOK ==
  /\ exit_requested \in BOOLEAN /\ stop_requested \subseteq Workers
  /\ mu \in Workers \cup {Nobody}
  /\ \A w \in Workers : pc[w] \in {"predicate", "wait"} <=> mu = w
  /\ q \in Seq(Task) /\ approx_size \in Int
  /\ waiting \subseteq {w \in Workers : pc[w] = "lock"}
  /\ pc \in [Workers -> Labels]
  /\ batch \in [Workers -> Seq(Task)]
  /\ call \in [Agents -> {"none", "count", "notify", "stop"}]
  /\ posted \subseteq Task
  /\ ranOn \in [Task -> Workers \cup {NoTask}]
  /\ spurious \in 0 .. MaxSpurious

\* The pool is work-conserving: unless an exit is requested, no worker is left in
\* cv_.wait while a task is queued, except for the moment in which a worker or the
\* notification of a push is already on its way.
NoIdleWorkerWhileQueued ==
  q # <<>> /\ waiting # {} /\ ~exit_requested =>
    \/ \E w \in Workers \ waiting : pc[w] \in {"lock", "predicate"}
    \/ \E a \in Agents : call[a] \in {"count", "notify"}
\* A posted task runs unless an exit is requested.
ComputeEventuallyRuns ==
  \A t \in Task : t \in posted ~> (ranOn[t] # NoTask \/ exit_requested)
=============================================================================
