----------------------------- MODULE Scheduler -----------------------------
(***************************************************************************)
(* The IO side of a running hive: external threads calling it (Hive.tla),  *)
(* its workers looping (IOWorker.tla) and time passing.                    *)
(***************************************************************************)
EXTENDS IOWorker

Init == HiveInit /\ WorkerInit

Loop(w) ==
  \/ StartWakeup(w) \/ LoopHead(w) \/ PeekInbound(w) \/ PeekLocal(w) \/ PeekGlobal(w) \/ SleepOn(w)
  \/ WaitReturns(w) \/ DispatchWakeup(w) \/ SleepOff(w)
  \/ Drain(w) \/ DrainCount(w) \/ Sort(w)
  \/ PrivateRun(w) \/ PrivateCheck(w)
  \/ TimersNow(w) \/ TimerRun(w) \/ TimerCheck(w) \/ ExitCheck(w)
  \/ LocalRun(w) \/ LocalDone(w) \/ LocalCheck(w)
  \/ Harvest(w) \/ HarvestCount(w)
  \/ PlaceLocal(w) \/ PlaceInline(w) \/ PlaceCheck(w) \/ PlaceDone(w)
  \/ StealTry(w) \/ StealGiveUp(w) \/ StealStop(w)
  \/ StealClaim(w) \/ StealMove(w) \/ StealPush(w) \/ StealInline(w) \/ StealNothing(w)
  \/ Leave(w)
  \/ TaskReturns(w)

Main == LeaveMain \/ Join

CallStep(a) == ContinueCall(a) /\ UNCHANGED locals

\* A worker's calls come from its loop: the main thread makes none while it joins.
Start(a) ==
  /\ a \in Workers => pc[a] \notin {"join", "join_compute"}
  /\ StartCall(a)
  /\ UNCHANGED locals

\* Idling after the end is not a deadlock.
Finished ==
  /\ \A w \in Workers : pc[w] = "stopped"
  /\ UNCHANGED vars

Next ==
  \/ \E w \in Workers : Loop(w) \/ OtherEvent(w)
  \/ Main \/ JoinCompute
  \/ \E a \in Agents : CallStep(a) \/ Start(a)
  \/ Tick /\ UNCHANGED locals
  \/ Finished

Spec == Init /\ [][Next]_vars

\* Threads are scheduled, a call that was started goes on, and time passes.
\* Nobody has to start a call, no other source has to become ready, and the compute
\* threads need not end: one of them may have missed the notification of the exit.
Fairness ==
  /\ \A w \in Workers : WF_vars(Loop(w))
  /\ WF_vars(Main)
  /\ \A a \in Agents : WF_vars(CallStep(a))
  /\ WF_vars(Tick /\ UNCHANGED locals)

FairSpec == Spec /\ Fairness

----------------------------------------------------------------------------
(* Properties. *)

Labels == {"start", "head", "peek_in", "peek_local", "peek_global", "sleep_on", "wait", "dispatch",
           "sleep_off", "drain", "drain_count", "sort", "private", "private_check", "timers_now",
           "timers", "timer_check", "exit_check", "local", "local_check", "harvest",
           "harvest_count", "place", "place_check", "steal", "steal_take", "steal_move",
           "steal_place", "leave", "join", "join_compute", "stopped"}
CallLabels == {"none", "body", "io_count", "io_scan", "wake", "in_push", "in_count",
               "exit_stop", "exit_wake"}

FlagTypeOK ==
  /\ exit_requested \in BOOLEAN
  /\ stop_requested \subseteq Workers /\ sleeping \subseteq Workers /\ token \subseteq Workers
  /\ backend \in Backends /\ attached \subseteq Workers
  /\ clock \in 0 .. MaxClock

QueueTypeOK ==
  /\ q \in Seq(Task) /\ q_approx \in Int
  /\ inbound \in [Workers -> Seq(Task)] /\ inbound_approx \in [Workers -> Int]
  /\ private_queue \in [Workers -> Seq(Task)]
  /\ timers \in [Workers -> SUBSET Task]

DequeTypeOK ==
  /\ local_dq = [w \in Workers |-> local_dq[w]]
  /\ \A w \in Workers : local_dq[w] \in [Slots(w) -> Task \cup {NoTask}]
  /\ cursor \in [Workers -> [top : Nat, size : Nat]]
  /\ \A w \in Workers : cursor[w].top \in Slots(w) /\ cursor[w].size <= LocalMax[w]
  /\ claimed \in [Workers -> [victim : Workers, slot : Int]]
  /\ \A w \in Workers : claimed[w] = NoClaim \/ claimed[w].slot \in Slots(claimed[w].victim)
  /\ overwritten \subseteq Task \cup {NoTask}

CallTypeOK ==
  /\ call \in [Agents -> [at : CallLabels, task : Task \cup {NoTask}, to : Workers]]
  /\ post \in [Task -> [kind : {"none", "io", "private", "delayed"},
                        worker : Workers, deadline : 0 .. MaxClock]]
  /\ ran \subseteq Task

LoopTypeOK ==
  /\ pc \in [Workers -> Labels]
  /\ timeout_ms \in [Workers -> -1 .. MaxClock]
  /\ instant \in [Workers -> 0 .. MaxClock]
  /\ hand \in [Workers -> Seq(Task)]
  /\ count \in [Workers -> Nat]
  /\ theft \in [Workers -> [victim : Workers, left : Nat, stole : Nat]]

\* Every queue holds tasks only, a local deque at most maxSize() of them, every
\* call and every loop is at one of its steps, and each task was posted one way.
TypeOK == FlagTypeOK /\ QueueTypeOK /\ DequeTypeOK /\ CallTypeOK /\ LoopTypeOK

\* The places of task t: a queue position, a set of timers, a worker's hands, a
\* call that has not pushed it yet, or the past.
Positions(s, t) == {i \in DOMAIN s : s[i] = t}
InQueues(f, t) == Cardinality(UNION {{w} \X Positions(f[w], t) : w \in Workers})
Places(t) ==
  Cardinality(Positions(q, t))
  + InQueues(inbound, t) + InQueues(private_queue, t) + InQueues(local_dq, t) + InQueues(hand, t)
  + Cardinality({w \in Workers : t \in timers[w]})
  + Cardinality({a \in Agents : call[a].at = "in_push" /\ call[a].task = t})
  + IF t \in ran THEN 1 ELSE 0

\* No interleaving of posts, drains, harvests and steals duplicates a task or runs
\* it twice, and before a stop is requested a task is lost in one way only: a posted
\* task is in exactly one queue, in one worker's hands, or has run, unless it was in
\* a slot that a thief had claimed and not emptied when the owner's pushes came
\* around to it (tryStealTop reads the slot after its CAS, task_deque.cc:116).
TaskInOnePlace ==
  \A t \in Task :
    /\ post[t] = NotPosted => Places(t) = 0
    /\ Places(t) <= 1
    /\ post[t] # NotPosted /\ ~exit_requested /\ stop_requested = {} => Places(t) = 1 \/ t \in overwritten

\* A worker never blocks on a command: while it waits and its inbound queue is not
\* empty, its wakeup fd is readable or the pushing call has still to write it.
NoStrandedInbound ==
  \A w \in Workers :
    pc[w] = "wait" /\ timeout_ms[w] # 0 /\ inbound[w] # <<>> =>
      \/ w \in token
      \/ \E a \in Agents : call[a].at \in {"in_count", "wake"} /\ call[a].to = w

\* The approximate sizes that decide whether a worker blocks are exact whenever no
\* push or drain is between its queue operation and its counting.
CountsSettle ==
  /\ (\A a \in Agents : call[a].at # "io_count") /\ (\A w \in Workers : pc[w] # "harvest_count")
       => q_approx = Len(q)
  /\ \A w \in Workers :
       (\A a \in Agents : ~(call[a].at = "in_count" /\ call[a].to = w)) /\ pc[w] # "drain_count"
         => inbound_approx[w] = Len(inbound[w])

\* A delayed task runs, unless an exit or a stop of its worker is requested: the worker
\* is woken to see the new timer, and its wait ends in time for it.
DelayedEventuallyRuns ==
  \A t \in Task :
    post[t].kind = "delayed" ~>
      (t \in ran \/ exit_requested \/ post[t].worker \in stop_requested)

\* An exit requested by any thread, a task included, ends every worker's loop and
\* the join of their threads.  The join of the compute threads after it is excepted:
\* one that missed the notification without the mutex (hive.cc:265) never ends.
ExitStopsAll == exit_requested ~> pc[0] \in {"join_compute", "stopped"}

\* A task in the global pool runs as long as workers keep coming back from their
\* wait: a missed wakeup delays it and does not lose it.  Excepted is a task that was
\* written over in a slot of a local deque (TaskInOnePlace).
IoRunsWhileWorkersWake ==
  (\A w \in Workers : []<>(pc[w] = "drain")) =>
    \A t \in Task :
      post[t].kind = "io" ~> (t \in ran \/ exit_requested \/ t \in overwritten)

\* What the scheduling design says of postIO: when no worker is seen sleeping,
\* "some worker is already running", so no task waits in the pool while every
\* worker sleeps.  The code does not ensure it: a worker that has looked at the
\* pool and not yet set sleeping_ is missed, and blocks.
NoStrandedGlobal ==
  ~ /\ q # <<>>
    /\ \A w \in Workers : pc[w] = "wait" /\ timeout_ms[w] = -1 /\ w \notin token
    /\ \A a \in Agents : call[a] = NoCall
=============================================================================
