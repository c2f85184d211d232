------------------------------ MODULE IOWorker ------------------------------
(***************************************************************************)
(* The loop of an IO worker, platform/schedule/io_worker.cc: choose how    *)
(* long to wait, wait in the event loop core, drain the inbound queue, run *)
(* private tasks, expired timers and a batch of local ones, or take tasks  *)
(* from the global pool, or steal from another worker.                     *)
(*                                                                         *)
(* An operation of the local deque is one step, as TaskDeque.tla shows the *)
(* index protocol of task_deque.cc to be, but for the steal: between the   *)
(* claim of a slot and its emptying other threads run.                     *)
(*                                                                         *)
(* The event loop core is reduced to what the loop sees of it: wait        *)
(* returns for the wakeup fd, for another source or at the timeout, and    *)
(* dispatching the wakeup source drains the wakeup fd.                     *)
(***************************************************************************)
EXTENDS Hive

CONSTANTS LocalBatch,      \* options_.local_batch_size
          GlobalBatch,     \* options_.global_batch_size
          StealThreshold,  \* max(8, options_.victim_minimum_size), scaled down
          StealFactor,     \* options_.steal_batch_factor
          KTries,          \* options_.ktries
          WillSteal,       \* options_.will_steal
          TicksPerMs       \* clock ticks in a millisecond

ASSUME WorkerAssumption ==
  /\ LocalBatch \in Nat \ {0} /\ GlobalBatch \in Nat \ {0}
  /\ StealThreshold \in Nat /\ StealFactor \in Nat \ {0}
  /\ KTries \in Nat /\ WillSteal \in BOOLEAN
  /\ TicksPerMs \in Nat \ {0}

VARIABLES
  pc,          \* the next step of the worker's loop
  timeout_ms,  \* the timeout of the current iteration; -1 waits for ever
  instant,     \* when the wait began, then the now of runExpiredTimers
  hand,        \* the commands drained or the batch harvested, not yet placed
  count,       \* the loop counter of the local batch or of the steal tries
  theft        \* stealOnce: the victim, how many more to steal, how many stolen

locals == <<pc, timeout_ms, instant, hand, count, theft>>
vars   == <<hiveVars, locals>>

NoTheft == [victim |-> 0, left |-> 0, stole |-> 0]

WorkerInit ==
  /\ pc = [w \in Workers |-> "start"]
  /\ timeout_ms = [w \in Workers |-> 0]
  /\ instant = [w \in Workers |-> 0]
  /\ hand = [w \in Workers |-> <<>>]
  /\ count = [w \in Workers |-> 0]
  /\ theft = [w \in Workers |-> NoTheft]

Exiting(w) == w \in stop_requested \/ exit_requested

\* The worker's own code runs while no task does.
Goto(w, from, to) ==
  /\ pc[w] = from /\ call[w] = NoCall
  /\ pc' = [pc EXCEPT ![w] = to]

Choose(w, from, test, yes, no) == Goto(w, from, IF test THEN yes ELSE no)

\* The task starts on worker w; the calls it makes are steps of Hive.
Run(w, t) ==
  /\ ran' = ran \cup {t}
  /\ call' = [call EXCEPT ![w] = Body]

TaskReturns(w) ==
  /\ call[w] = Body
  /\ call' = [call EXCEPT ![w] = NoCall]
  /\ UNCHANGED <<flags, pool, mail, token, queues, clock, post, setup, ran, locals>>

----------------------------------------------------------------------------
(* run() up to the wait: start() of the wakeup watcher, the condition of   *)
(* the loop, then computeNextTimeoutMs and hasImmediateWork, which look at *)
(* one queue after the other.                                              *)

\* A watcher that is attached first drops the notifications until then.
StartWakeup(w) ==
  /\ Goto(w, "start", "head")
  /\ attached' = attached \cup {w}
  /\ UNCHANGED <<flags, pool, mail, token, queues, clock, call, post, backend, ran,
                 timeout_ms, instant, hand, count, theft>>

LoopHead(w) ==
  /\ Choose(w, "head", Exiting(w), "leave", "peek_in")
  /\ UNCHANGED <<hiveVars, timeout_ms, instant, hand, count, theft>>

\* What computeNextTimeoutMs returns, and where it leads.
Timeout(w, from, ms) ==
  /\ Choose(w, from, ms = 0, "wait", "sleep_on")
  /\ timeout_ms' = [timeout_ms EXCEPT ![w] = ms]
  /\ UNCHANGED <<hiveVars, instant, hand, count, theft>>

Proceed(w, from, to) ==
  Goto(w, from, to) /\ UNCHANGED <<hiveVars, timeout_ms, instant, hand, count, theft>>

PeekInbound(w) ==
  IF Exiting(w) \/ inbound_approx[w] # 0 \/ private_queue[w] # <<>>
    THEN Timeout(w, "peek_in", 0)
    ELSE Proceed(w, "peek_in", "peek_local")

PeekLocal(w) ==
  IF cursor[w].size # 0
    THEN Timeout(w, "peek_local", 0)
    ELSE Proceed(w, "peek_local", "peek_global")

Deadlines(w) == {post[t].deadline : t \in timers[w]}
Earliest(w)  == CHOOSE d \in Deadlines(w) : \A e \in Deadlines(w) : d <= e

\* Whole milliseconds, rounded down.
TimerMs(w) ==
  IF Earliest(w) <= clock THEN 0 ELSE (Earliest(w) - clock) \div TicksPerMs

\* Mutant: the timers do not bound the wait.
PeekGlobal_untimed(w) == Timeout(w, "peek_global", IF q_approx # 0 THEN 0 ELSE -1)

PeekGlobal(w) ==
  Timeout(w, "peek_global",
          IF q_approx # 0 THEN 0 ELSE IF timers[w] = {} THEN -1 ELSE TimerMs(w))

SleepOn(w) ==
  /\ Goto(w, "sleep_on", "wait")
  /\ sleeping' = sleeping \cup {w}
  /\ instant' = [instant EXCEPT ![w] = clock]
  /\ UNCHANGED <<exit_requested, stop_requested, pool, mail, token, queues, clock, call,
                 post, setup, ran, timeout_ms, hand, count, theft>>

----------------------------------------------------------------------------
(* core_->runOnce(timeout_ms): the events are collected when the wait      *)
(* returns; the wakeup callback then reads the wakeup fd empty.            *)

\* A wait that began so late that the bounded clock cannot reach its end still ends.
TimedOut(w) ==
  \/ timeout_ms[w] = 0
  \/ timeout_ms[w] > 0 /\ clock >= instant[w] + timeout_ms[w] * TicksPerMs
  \/ timeout_ms[w] > 0 /\ clock = MaxClock

\* A packet, a message or a Cocoa event is taken by the wait, not by the callback.
TakenByWait(w) == IF Lasting(WorkerWakeUp[backend]) THEN {} ELSE {w}

WaitReturns(w) ==
  /\ w \in token \/ TimedOut(w)
  /\ Choose(w, "wait", w \in token, "dispatch", "sleep_off")
  /\ token' = token \ TakenByWait(w)
  /\ UNCHANGED <<flags, pool, mail, queues, clock, call, post, setup, ran,
                 timeout_ms, instant, hand, count, theft>>

\* Another source of the worker, a socket or a timer fd, is ready: its callback may
\* make calls like a task, with sleeping_ still set.
OtherEvent(w) ==
  /\ Choose(w, "wait", w \in token, "dispatch", "sleep_off")
  /\ token' = token \ TakenByWait(w)
  /\ call' = [call EXCEPT ![w] = Body]
  /\ UNCHANGED <<flags, pool, mail, queues, clock, post, setup, ran,
                 timeout_ms, instant, hand, count, theft>>

DispatchWakeup(w) ==
  /\ Goto(w, "dispatch", "sleep_off")
  /\ token' = IF Lasting(WorkerWakeUp[backend]) THEN token \ {w} ELSE token
  /\ UNCHANGED <<flags, pool, mail, queues, clock, call, post, setup, ran,
                 timeout_ms, instant, hand, count, theft>>

SleepOff(w) ==
  /\ Goto(w, "sleep_off", "drain")
  /\ sleeping' = sleeping \ {w}
  /\ timeout_ms' = [timeout_ms EXCEPT ![w] = 0]
  /\ instant' = [instant EXCEPT ![w] = 0]
  /\ UNCHANGED <<exit_requested, stop_requested, pool, mail, token, queues, clock, call,
                 post, setup, ran, hand, count, theft>>

----------------------------------------------------------------------------
(* drainInbound: swap the queue out, count, sort the commands one by one.  *)

Drain(w) ==
  /\ Choose(w, "drain", inbound[w] = <<>>, "private", "drain_count")
  /\ hand' = [hand EXCEPT ![w] = inbound[w]]
  /\ inbound' = [inbound EXCEPT ![w] = <<>>]
  /\ UNCHANGED <<flags, pool, inbound_approx, token, queues, clock, call, post, setup, ran,
                 timeout_ms, instant, count, theft>>

DrainCount(w) ==
  /\ Goto(w, "drain_count", "sort")
  /\ inbound_approx' = [inbound_approx EXCEPT ![w] = @ - Len(hand[w])]
  /\ UNCHANGED <<flags, pool, inbound, token, queues, clock, call, post, setup, ran,
                 timeout_ms, instant, hand, count, theft>>

Sort(w) ==
  LET t == Head(hand[w]) IN
  /\ hand[w] # <<>>
  /\ Choose(w, "sort", Tail(hand[w]) = <<>>, "private", "sort")
  /\ hand' = [hand EXCEPT ![w] = Tail(@)]
  /\ \/ /\ post[t].kind = "private"
        /\ private_queue' = [private_queue EXCEPT ![w] = Append(@, t)]
        /\ UNCHANGED timers
     \/ /\ post[t].kind # "private"
        /\ timers' = [timers EXCEPT ![w] = @ \cup {t}]
        /\ UNCHANGED private_queue
  /\ UNCHANGED <<flags, pool, mail, token, deque, clock, call, post, setup, ran,
                 timeout_ms, instant, count, theft>>

----------------------------------------------------------------------------
(* runPrivateTasks and runExpiredTimers: at least one, then until the      *)
(* queue is done or an exit is requested.                                  *)

PrivateRun(w) ==
  /\ private_queue[w] # <<>>
  /\ Goto(w, "private", "private_check")
  /\ Run(w, Head(private_queue[w]))
  /\ private_queue' = [private_queue EXCEPT ![w] = Tail(@)]
  /\ UNCHANGED <<flags, pool, mail, token, timers, deque, clock, post, setup,
                 timeout_ms, instant, hand, count, theft>>

PrivateCheck(w) ==
  Proceed(w, "private_check", IF Exiting(w) THEN "timers_now" ELSE "private")

\* The private tasks are done, or broken off, and the clock is read.
TimersNow(w) ==
  /\ \/ private_queue[w] = <<>> /\ Goto(w, "private", "timers")
     \/ Goto(w, "timers_now", "timers")
  /\ instant' = [instant EXCEPT ![w] = clock]
  /\ UNCHANGED <<hiveVars, timeout_ms, hand, count, theft>>

TimerRun(w) ==
  /\ Goto(w, "timers", "timer_check")
  /\ \E t \in timers[w] :
       /\ post[t].deadline = Earliest(w) /\ Earliest(w) <= instant[w]
       /\ Run(w, t)
       /\ timers' = [timers EXCEPT ![w] = @ \ {t}]
  /\ UNCHANGED <<flags, pool, mail, token, private_queue, deque, clock, post, setup,
                 timeout_ms, instant, hand, count, theft>>

TimerCheck(w) ==
  /\ Choose(w, "timer_check", Exiting(w), "exit_check", "timers")
  /\ UNCHANGED <<hiveVars, timeout_ms, instant, hand, count, theft>>

\* runExpiredTimers has ended: no timer is due, or an exit broke it off.
TimersDone(w) ==
  \/ pc[w] = "exit_check"
  \/ pc[w] = "timers" /\ \A t \in timers[w] : post[t].deadline > instant[w]

\* Then run() looks at the exit flags.
ExitCheck(w) ==
  /\ TimersDone(w)
  /\ Choose(w, pc[w], Exiting(w), "leave", "local")
  /\ instant' = [instant EXCEPT ![w] = 0]
  /\ UNCHANGED <<hiveVars, timeout_ms, hand, count, theft>>

----------------------------------------------------------------------------
(* runLocalBatch: pop at the bottom, up to the batch size.                 *)

\* tryPopBottom of a deque that has tasks; the last one moves top_ as well.
PopBottom(w) ==
  /\ local_dq' = [local_dq EXCEPT ![w][Newest(w)] = NoTask]
  /\ cursor' = [cursor EXCEPT ![w] = [top |-> IF @.size = 1 THEN Slot(w, @.top + 1) ELSE @.top,
                                      size |-> @.size - 1]]
  /\ UNCHANGED <<claimed, overwritten>>

\* A slot that was emptied after an overrun runs nothing, and counts.
LocalRun(w) ==
  LET t == local_dq[w][Newest(w)] IN
  /\ count[w] < LocalBatch /\ cursor[w].size # 0
  /\ Goto(w, "local", "local_check")
  /\ \/ t # NoTask /\ Run(w, t)
     \/ t = NoTask /\ UNCHANGED <<ran, call>>
  /\ PopBottom(w)
  /\ count' = [count EXCEPT ![w] = @ + 1]
  /\ UNCHANGED <<flags, pool, mail, token, private_queue, timers, clock, post, setup,
                 timeout_ms, instant, hand, theft>>

\* Mutant: an empty local batch also starts the loop again.
LocalDone_continue(w) ==
  /\ count[w] = LocalBatch \/ cursor[w].size = 0
  /\ Goto(w, "local", "head")
  /\ count' = [count EXCEPT ![w] = 0]
  /\ UNCHANGED <<hiveVars, timeout_ms, instant, hand, theft>>

LocalDone(w) ==
  /\ count[w] = LocalBatch \/ cursor[w].size = 0
  /\ Choose(w, "local", count[w] # 0, "head", "harvest")
  /\ count' = [count EXCEPT ![w] = 0]
  /\ UNCHANGED <<hiveVars, timeout_ms, instant, hand, theft>>

LocalCheck(w) ==
  /\ Choose(w, "local_check", Exiting(w), "head", "local")
  /\ count' = [count EXCEPT ![w] = IF Exiting(w) THEN 0 ELSE @]
  /\ UNCHANGED <<hiveVars, timeout_ms, instant, hand, theft>>

----------------------------------------------------------------------------
(* harvestGlobalBatch: take a batch out of the global pool, count, then    *)
(* push each task into the local deque or run it here.  An exit seen after *)
(* running one drops the rest of the batch.                                *)

BatchSize == IF Len(q) < GlobalBatch THEN Len(q) ELSE GlobalBatch

Harvest(w) ==
  /\ Choose(w, "harvest", q = <<>>, "steal", "harvest_count")
  /\ hand' = [hand EXCEPT ![w] = SubSeq(q, 1, BatchSize)]
  /\ q' = SubSeq(q, BatchSize + 1, Len(q))
  /\ UNCHANGED <<flags, q_approx, mail, token, queues, clock, call, post, setup, ran,
                 timeout_ms, instant, count, theft>>

\* Mutant: a full batch is counted, however short it was.
HarvestCount_full(w) ==
  /\ Goto(w, "harvest_count", "place")
  /\ q_approx' = q_approx - GlobalBatch
  /\ UNCHANGED <<flags, q, mail, token, queues, clock, call, post, setup, ran,
                 timeout_ms, instant, hand, count, theft>>

HarvestCount(w) ==
  /\ Goto(w, "harvest_count", "place")
  /\ q_approx' = q_approx - Len(hand[w])
  /\ UNCHANGED <<flags, q, mail, token, queues, clock, call, post, setup, ran,
                 timeout_ms, instant, hand, count, theft>>

PlaceLocal(w) ==
  /\ hand[w] # <<>> /\ HasRoom(w)
  /\ Goto(w, "place", "place")
  /\ PushBottom(w, Head(hand[w]))
  /\ hand' = [hand EXCEPT ![w] = Tail(@)]
  /\ UNCHANGED <<flags, pool, mail, token, private_queue, timers, clock, call, post, setup,
                 ran, timeout_ms, instant, count, theft>>

PlaceInline(w) ==
  /\ hand[w] # <<>> /\ ~HasRoom(w)
  /\ Goto(w, "place", "place_check")
  /\ Run(w, Head(hand[w]))
  /\ hand' = [hand EXCEPT ![w] = Tail(@)]
  /\ UNCHANGED <<flags, pool, mail, token, queues, clock, post, setup,
                 timeout_ms, instant, count, theft>>

PlaceCheck(w) ==
  /\ Choose(w, "place_check", Exiting(w), "head", "place")
  /\ hand' = [hand EXCEPT ![w] = IF Exiting(w) THEN <<>> ELSE @]
  /\ UNCHANGED <<hiveVars, timeout_ms, instant, count, theft>>

PlaceDone(w) ==
  /\ hand[w] = <<>>
  /\ Proceed(w, "place", "head")

----------------------------------------------------------------------------
(* stealOnce: up to ktries random victims; from one that has more than the *)
(* threshold, take a share from the top, until a steal fails.              *)

StealCount(v) ==
  IF cursor[v].size > StealThreshold THEN cursor[v].size \div StealFactor ELSE 0

StealTry(w) ==
  /\ WillSteal /\ NumWorkers > 1 /\ count[w] < KTries
  /\ count' = [count EXCEPT ![w] = @ + 1]
  /\ \E v \in Workers :
       LET n == IF v = w THEN 0 ELSE StealCount(v) IN
       /\ Choose(w, "steal", n = 0, "steal", "steal_take")
       /\ theft' = [theft EXCEPT ![w] =
                      IF n = 0 THEN NoTheft ELSE [victim |-> v, left |-> n, stole |-> 0]]
  /\ UNCHANGED <<hiveVars, timeout_ms, instant, hand>>

StealGiveUp(w) ==
  /\ ~WillSteal \/ NumWorkers = 1 \/ count[w] = KTries
  /\ Goto(w, "steal", "head")
  /\ count' = [count EXCEPT ![w] = 0]
  /\ UNCHANGED <<hiveVars, timeout_ms, instant, hand, theft>>

\* tryStealTop: the CAS on top_ claims the oldest slot ...
StealClaim(w) ==
  LET v == theft[w].victim IN
  /\ theft[w].left > 0 /\ cursor[v].size # 0
  /\ Goto(w, "steal_take", "steal_move")
  /\ claimed' = [claimed EXCEPT ![w] = [victim |-> v, slot |-> cursor[v].top]]
  /\ cursor' = [cursor EXCEPT ![v] = [top |-> Slot(v, @.top + 1), size |-> @.size - 1]]
  /\ UNCHANGED <<flags, pool, mail, token, private_queue, timers, local_dq, overwritten, clock,
                 call, post, setup, ran, timeout_ms, instant, hand, count, theft>>

\* ... and only then is the slot moved from, whatever it holds by now.
StealMove(w) ==
  LET c == claimed[w]
      t == local_dq[c.victim][c.slot]
  IN
  /\ Goto(w, "steal_move", "steal_place")
  /\ hand' = [hand EXCEPT ![w] = IF t = NoTask THEN <<>> ELSE <<t>>]
  /\ local_dq' = [local_dq EXCEPT ![c.victim][c.slot] = NoTask]
  /\ claimed' = [claimed EXCEPT ![w] = NoClaim]
  /\ UNCHANGED <<flags, pool, mail, token, private_queue, timers, cursor, overwritten, clock,
                 call, post, setup, ran, timeout_ms, instant, count, theft>>

\* The task is pushed into the thief's own deque, runs at once when that one is full,
\* or is nothing at all.
StealPlaced(w) ==
  /\ Goto(w, "steal_place", "steal_take")
  /\ theft' = [theft EXCEPT ![w].left = @ - 1, ![w].stole = @ + 1]

StealPush(w) ==
  /\ hand[w] # <<>> /\ HasRoom(w)
  /\ StealPlaced(w)
  /\ PushBottom(w, Head(hand[w]))
  /\ hand' = [hand EXCEPT ![w] = Tail(@)]
  /\ UNCHANGED <<flags, pool, mail, token, private_queue, timers, clock, call, post, setup,
                 ran, timeout_ms, instant, count>>

StealInline(w) ==
  /\ hand[w] # <<>> /\ ~HasRoom(w)
  /\ StealPlaced(w)
  /\ Run(w, Head(hand[w]))
  /\ hand' = [hand EXCEPT ![w] = Tail(@)]
  /\ UNCHANGED <<flags, pool, mail, token, queues, clock, post, setup,
                 timeout_ms, instant, count>>

StealNothing(w) ==
  /\ hand[w] = <<>>
  /\ StealPlaced(w)
  /\ UNCHANGED <<hiveVars, timeout_ms, instant, hand, count>>

\* All are stolen, the victim is empty, or the CAS lost a race.
StealStop(w) ==
  /\ Choose(w, "steal_take", theft[w].stole = 0, "steal", "head")
  /\ count' = [count EXCEPT ![w] = IF theft[w].stole = 0 THEN @ ELSE 0]
  /\ theft' = [theft EXCEPT ![w] = NoTheft]
  /\ UNCHANGED <<hiveVars, timeout_ms, instant, hand>>

----------------------------------------------------------------------------
(* The end of the thread.  Worker 0 is run() of the hive: it requests the  *)
(* exit itself and joins the other workers, then the compute threads.      *)

Leave(w) ==
  /\ w # 0
  /\ Proceed(w, "leave", "stopped")

LeaveMain ==
  /\ Goto(0, "leave", "join")
  /\ Exchange(0)
  /\ UNCHANGED <<timeout_ms, instant, hand, count, theft>>

Join ==
  /\ \A w \in Workers \ {0} : pc[w] = "stopped"
  /\ Proceed(0, "join", "join_compute")

\* Then the compute threads, which end when ComputePool.tla lets them.
JoinCompute == Proceed(0, "join_compute", "stopped")
=============================================================================
