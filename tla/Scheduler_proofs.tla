-------------------------- MODULE Scheduler_proofs --------------------------
(***************************************************************************)
(* Proofs about Scheduler, the IO side of a hive, for every number of      *)
(* workers, posters and tasks, all sizes of queues and batches, all delays *)
(* and all kinds of calls.                                                 *)
(***************************************************************************)
EXTENDS Scheduler, FiniteSetTheorems, SequenceTheorems, WellFoundedInduction, TLAPS

USE HiveAssumption, WorkerAssumption

LEMMA WorkerFacts ==
  /\ 0 \in Workers /\ Workers \subseteq Agents /\ Workers \subseteq Nat
  /\ \A a \in Agents : a \in Workers \/ a \in Posters
BY DEF Workers, Agents

LEMMA NoCallTypes ==
  /\ NoCall \in [at : CallLabels, task : Task \cup {NoTask}, to : Workers]
  /\ Body \in [at : CallLabels, task : Task \cup {NoTask}, to : Workers]
  /\ NoCall # Body
BY WorkerFacts DEF NoCall, Body, CallLabels

LEMMA SeqFacts ==
  ASSUME NEW S, NEW s \in Seq(S), s # <<>>
  PROVE  /\ Len(s) \in Nat \ {0} /\ Head(s) \in S /\ s[Len(s)] \in S
         /\ Tail(s) \in Seq(S) /\ Len(Tail(s)) = Len(s) - 1
         /\ SubSeq(s, 1, Len(s) - 1) \in Seq(S) /\ Len(SubSeq(s, 1, Len(s) - 1)) = Len(s) - 1
<1>1. Len(s) \in Nat \ {0}
  BY EmptySeq, LenProperties
<1>2. Head(s) \in S /\ Tail(s) \in Seq(S) /\ Len(Tail(s)) = Len(s) - 1
  BY HeadTailProperties
<1>3. s[Len(s)] \in S
  BY <1>1, ElementOfSeq
<1>4. SubSeq(s, 1, Len(s) - 1) \in Seq(S) /\ Len(SubSeq(s, 1, Len(s) - 1)) = Len(s) - 1
  <2>1. \A i \in 1 .. Len(s) - 1 : s[i] \in S
    BY <1>1, ElementOfSeq
  <2>2. \A n \in Nat \ {0} : n - 1 \in Int /\ (1 <= n - 1 \/ n - 1 = 0)
    OBVIOUS
  <2>3. /\ SubSeq(s, 1, Len(s) - 1) \in Seq(S)
        /\ Len(SubSeq(s, 1, Len(s) - 1)) = IF 1 <= Len(s) - 1 THEN (Len(s) - 1) - 1 + 1 ELSE 0
    BY <1>1, <2>1, <2>2, SubSeqProperties
  <2>4. \A n \in Nat \ {0} : (IF 1 <= n - 1 THEN (n - 1) - 1 + 1 ELSE 0) = n - 1
    OBVIOUS
  <2> QED
    BY <1>1, <2>3, <2>4
<1> QED
  BY <1>1, <1>2, <1>3, <1>4

----------------------------------------------------------------------------
(* The indices of a local deque. *)

LEMMA SlotFacts ==
  ASSUME NEW w \in Workers, NEW top \in Slots(w), NEW k \in 0 .. LocalMax[w]
  PROVE  /\ Slot(w, top + k) \in Slots(w)
         /\ Slot(w, top + 1) \in Slots(w)
         /\ k > 0 => Slot(w, top + k) = Slot(w, Slot(w, top + 1) + (k - 1))
         /\ \A j \in 0 .. LocalMax[w] : Slot(w, top + j) = Slot(w, top + k) => j = k
<1>1. LocalMax[w] \in Nat \ {0}
  OBVIOUS
<1> DEFINE m == LocalMax[w]
<1>2. m \in Nat \ {0} /\ top \in 0 .. m /\ k \in 0 .. m
  BY <1>1 DEF Slots
<1> HIDE DEF m
<1>3. \A i : Slot(w, i) = IF i > m THEN i - (m + 1) ELSE i
  BY DEF Slot, m
<1>4. Slots(w) = 0 .. m
  BY DEF Slots, m
<1>5. Slot(w, top + k) \in 0 .. m /\ Slot(w, top + 1) \in 0 .. m
  BY <1>2, <1>3
<1>6. k > 0 => Slot(w, top + k) = Slot(w, Slot(w, top + 1) + (k - 1))
  BY <1>2, <1>3
<1>7. \A j \in 0 .. m : Slot(w, top + j) = Slot(w, top + k) => j = k
  BY <1>2, <1>3
<1> QED
  BY <1>4, <1>5, <1>6, <1>7 DEF m

LEMMA DequeSlots ==
  ASSUME DequeTypeOK, NEW w \in Workers
  PROVE  /\ Bottom(w) \in Slots(w) /\ Slot(w, cursor[w].top + 1) \in Slots(w)
         /\ cursor[w].size > 0 => Newest(w) \in Slots(w)
<1>1. cursor[w].top \in Slots(w) /\ cursor[w].size \in 0 .. LocalMax[w]
  BY DEF DequeTypeOK
<1>2. cursor[w].size > 0 => cursor[w].size - 1 \in 0 .. LocalMax[w]
  BY <1>1
<1> QED
  BY <1>1, <1>2, SlotFacts DEF Bottom, Newest

----------------------------------------------------------------------------
(* Types. *)

LEMMA CallTypesNext ==
  ASSUME TypeOK, [Next]_vars
  PROVE  CallTypeOK'
<1> USE WorkerFacts, NoCallTypes DEF TypeOK, CallTypeOK, FlagTypeOK
<1>1. ASSUME NEW a \in Agents, ContinueCall(a) PROVE CallTypeOK'
  <2> USE DEF Continue, Return, CallLabels
  <2>1. CASE IoCount(a)
    BY <2>1 DEF IoCount
  <2>2. CASE IoScan(a)
    BY <2>2 DEF IoScan
  <2>3. CASE Wake(a)
    BY <2>3 DEF Wake
  <2>4. CASE AddTimer(a)
    BY <2>4 DEF AddTimer
  <2>5. CASE InCount(a)
    BY <2>5 DEF InCount
  <2>6. CASE ExitStop(a)
    BY <2>6 DEF ExitStop
  <2>7. CASE ExitWake(a)
    BY <2>7 DEF ExitWake
  <2> QED
    BY <1>1, <2>1, <2>2, <2>3, <2>4, <2>5, <2>6, <2>7 DEF ContinueCall
<1>2. ASSUME NEW a \in Agents, StartCall(a) PROVE CallTypeOK'
  <2> USE DEF Continue, Return, CallLabels, Posted
  <2>1. ASSUME NEW t \in Task, postIO(a, t) PROVE CallTypeOK'
    BY <2>1 DEF postIO
  <2>2. ASSUME NEW t \in Task, NEW w \in Workers, postToLocal(a, w, t) PROVE CallTypeOK'
    BY <2>2 DEF postToLocal
  <2>3. ASSUME NEW t \in Task, NEW w \in Workers, postToWorker(a, w, t) PROVE CallTypeOK'
    BY <2>3 DEF postToWorker
  <2>4. ASSUME NEW t \in Task, NEW w \in Workers, NEW delay \in Delays, postDelayed(a, w, t, delay)
        PROVE  CallTypeOK'
    BY <2>4 DEF postDelayed
  <2>5. CASE requestExit(a)
    BY <2>5 DEF requestExit, Exchange
  <2>6. ASSUME NEW w \in Workers, requestStop(a, w) PROVE CallTypeOK'
    BY <2>6 DEF requestStop
  <2> QED
    BY <1>2, <2>1, <2>2, <2>3, <2>4, <2>5, <2>6 DEF StartCall
<1>3. ASSUME UNCHANGED <<call, post, ran>> PROVE CallTypeOK'
  BY <1>3
<1>4. ASSUME NEW w \in Workers, TaskReturns(w) \/ OtherEvent(w) PROVE CallTypeOK'
  BY <1>4 DEF TaskReturns, OtherEvent
<1>5. CASE Main \/ JoinCompute
  BY <1>5 DEF Main, LeaveMain, Join, JoinCompute, Exchange, Proceed, Continue, Return, CallLabels, hiveVars
<1>6. ASSUME NEW w \in Workers, NEW t \in Task, Run(w, t), UNCHANGED post PROVE CallTypeOK'
  BY <1>6 DEF Run
<1>7. ASSUME NEW w \in Workers, Loop(w) PROVE CallTypeOK'
  <2> USE DEF QueueTypeOK, LoopTypeOK
  <2>1. CASE PrivateRun(w)
    <3>1. Head(private_queue[w]) \in Task
      BY <2>1, SeqFacts DEF PrivateRun
    <3> QED
      BY <1>6, <2>1, <3>1 DEF PrivateRun
  <2>2. CASE TimerRun(w)
    <3>1. PICK t \in timers[w] : Run(w, t)
      BY <2>2 DEF TimerRun
    <3> QED
      BY <1>6, <2>2, <3>1 DEF TimerRun
  <2>3. CASE LocalRun(w)
    <3> DEFINE t == local_dq[w][Newest(w)]
    <3>1. CASE t # NoTask
      <4>5. cursor[w].size \in Nat
        BY DEF DequeTypeOK
      <4>6. cursor[w].size # 0
        BY <2>3 DEF LocalRun
      <4>1. cursor[w].size > 0
        BY ONLY <4>5, <4>6
      <4>2. Newest(w) \in Slots(w)
        BY <4>1, DequeSlots
      <4>3. t \in Task
        BY <3>1, <4>2 DEF DequeTypeOK
      <4>4. Run(w, t) /\ UNCHANGED post
        BY <2>3, <3>1 DEF LocalRun
      <4> QED
        BY <1>6, <4>3, <4>4
    <3>2. CASE t = NoTask
      BY <1>3, <2>3, <3>2 DEF LocalRun
    <3> QED
      BY <3>1, <3>2
  <2>4. CASE PlaceInline(w)
    <3>1. Head(hand[w]) \in Task
      BY <2>4, SeqFacts DEF PlaceInline
    <3> QED
      BY <1>6, <2>4, <3>1 DEF PlaceInline
  <2>5. CASE StealInline(w)
    <3>1. Head(hand[w]) \in Task
      BY <2>5, SeqFacts DEF StealInline
    <3> QED
      BY <1>6, <2>5, <3>1 DEF StealInline
  <2> QED
    BY <1>3, <1>4, <1>7, <2>1, <2>2, <2>3, <2>4, <2>5
       DEF Loop, StartWakeup, LoopHead, PeekInbound, PeekLocal, PeekGlobal, SleepOn, WaitReturns,
           DispatchWakeup, SleepOff, Drain, DrainCount, Sort, PrivateCheck, TimersNow, TimerCheck,
           ExitCheck, LocalDone, LocalCheck, Harvest, HarvestCount, PlaceLocal, PlaceCheck,
           PlaceDone, StealTry, StealGiveUp, StealPush, StealNothing, StealPlaced, StealClaim, StealMove,
           StealStop, Leave, Timeout, Proceed, hiveVars
<1>8. CASE Tick \/ Finished \/ UNCHANGED vars
  BY <1>3, <1>8 DEF Tick, Finished, vars, hiveVars
<1> QED
  BY <1>1, <1>2, <1>4, <1>5, <1>7, <1>8 DEF Next, CallStep, Start

LEMMA FlagTypesNext ==
  ASSUME TypeOK, [Next]_vars
  PROVE  FlagTypeOK'
<1> USE WorkerFacts DEF TypeOK, CallTypeOK, FlagTypeOK
<1>1. ASSUME NEW a \in Agents, ContinueCall(a) PROVE FlagTypeOK'
  <2>1. call[a].to \in Workers
    OBVIOUS
  <2> QED
    BY <1>1, <2>1
       DEF ContinueCall, IoCount, IoScan, Wake, AddTimer, InCount, ExitStop, ExitWake, wakeup, flags, setup
<1>2. ASSUME NEW a \in Agents, StartCall(a) PROVE FlagTypeOK'
  BY <1>2 DEF StartCall, postIO, postToLocal, postToWorker, postDelayed, requestExit, Exchange, requestStop,
              flags, setup
<1>3. ASSUME UNCHANGED <<flags, token, setup, clock>> PROVE FlagTypeOK'
  BY <1>3 DEF flags, setup
<1>4. CASE Tick
  BY <1>4 DEF Tick, flags, setup
<1>5. CASE Main \/ JoinCompute
  BY <1>5 DEF Main, LeaveMain, Join, JoinCompute, Exchange, Proceed, hiveVars, flags, setup
<1>6. ASSUME NEW w \in Workers, Loop(w) PROVE FlagTypeOK'
  <2>1. CASE StartWakeup(w) \/ SleepOn(w) \/ SleepOff(w) \/ WaitReturns(w) \/ DispatchWakeup(w)
    BY <2>1 DEF StartWakeup, SleepOn, SleepOff, WaitReturns, DispatchWakeup, flags, setup
  <2> QED
    BY <1>3, <1>6, <2>1
       DEF Loop, LoopHead, PeekInbound, PeekLocal, PeekGlobal, Drain, DrainCount, Sort, PrivateRun,
           PrivateCheck, TimersNow, TimerRun, TimerCheck, ExitCheck, LocalRun, LocalDone, LocalCheck,
           Harvest, HarvestCount, PlaceLocal, PlaceInline, PlaceCheck, PlaceDone, StealTry, StealGiveUp,
           StealPush, StealInline, StealNothing, StealPlaced, StealClaim, StealMove, StealStop, Leave,
           TaskReturns, Timeout, Proceed, hiveVars
<1>7. ASSUME NEW w \in Workers, OtherEvent(w) PROVE FlagTypeOK'
  BY <1>7 DEF OtherEvent, flags, setup
<1>8. CASE Finished \/ UNCHANGED vars
  BY <1>3, <1>8 DEF Finished, vars, hiveVars
<1> QED
  BY <1>1, <1>2, <1>4, <1>5, <1>6, <1>7, <1>8 DEF Next, CallStep, Start

LEMMA HarvestSplit ==
  ASSUME q \in Seq(Task)
  PROVE  /\ BatchSize \in 0 .. Len(q) /\ (q # <<>> => BatchSize > 0) /\ Len(q) \in Nat
         /\ SubSeq(q, 1, BatchSize) \in Seq(Task) /\ SubSeq(q, BatchSize + 1, Len(q)) \in Seq(Task)
         /\ Len(SubSeq(q, 1, BatchSize)) = BatchSize
         /\ Len(SubSeq(q, BatchSize + 1, Len(q))) = Len(q) - BatchSize
<1>1. Len(q) \in Nat /\ (q # <<>> => Len(q) > 0)
  BY EmptySeq, LenProperties
<1>2. BatchSize \in 0 .. Len(q) /\ (q # <<>> => BatchSize > 0)
  BY <1>1 DEF BatchSize
<1>3. \A i \in 1 .. Len(q) : q[i] \in Task
  BY ElementOfSeq
<1> HIDE DEF BatchSize
<1>4. /\ \A i \in 1 .. BatchSize : q[i] \in Task
      /\ \A i \in BatchSize + 1 .. Len(q) : q[i] \in Task
      /\ BatchSize \in Int /\ BatchSize + 1 \in Int /\ Len(q) \in Int
  BY <1>1, <1>2, <1>3
<1>5. /\ SubSeq(q, 1, BatchSize) \in Seq(Task)
      /\ Len(SubSeq(q, 1, BatchSize)) = IF 1 <= BatchSize THEN BatchSize - 1 + 1 ELSE 0
  BY <1>4, SubSeqProperties
<1>6. /\ SubSeq(q, BatchSize + 1, Len(q)) \in Seq(Task)
      /\ Len(SubSeq(q, BatchSize + 1, Len(q)))
           = IF BatchSize + 1 <= Len(q) THEN Len(q) - (BatchSize + 1) + 1 ELSE 0
  BY <1>4, SubSeqProperties
<1>7. /\ (IF 1 <= BatchSize THEN BatchSize - 1 + 1 ELSE 0) = BatchSize
      /\ (IF BatchSize + 1 <= Len(q) THEN Len(q) - (BatchSize + 1) + 1 ELSE 0) = Len(q) - BatchSize
  BY <1>1, <1>2
<1> QED
  BY <1>1, <1>2, <1>5, <1>6, <1>7

\* A worker's loop moves no other worker.
LEMMA LoopMoves ==
  ASSUME TypeOK, NEW w \in Workers, Loop(w) \/ OtherEvent(w), NEW v \in Workers, v # w
  PROVE  /\ pc'[v] = pc[v] /\ hand'[v] = hand[v] /\ timeout_ms'[v] = timeout_ms[v]
         /\ theft'[v] = theft[v] /\ claimed'[v] = claimed[v]
<1>1. \A l : [pc EXCEPT ![w] = l][v] = pc[v]
  BY DEF TypeOK, LoopTypeOK
<1>2. \A l : [hand EXCEPT ![w] = l][v] = hand[v]
  BY DEF TypeOK, LoopTypeOK
<1>3. \A l : [timeout_ms EXCEPT ![w] = l][v] = timeout_ms[v]
  BY DEF TypeOK, LoopTypeOK
<1>4. pc' = pc \/ \E l : pc' = [pc EXCEPT ![w] = l]
  BY DEF Loop, StartWakeup, LoopHead, PeekInbound, PeekLocal, PeekGlobal, SleepOn, WaitReturns,
         DispatchWakeup, SleepOff, Drain, DrainCount, Sort, PrivateRun, PrivateCheck, TimersNow,
         TimerRun, TimerCheck, ExitCheck, LocalRun, LocalDone, LocalCheck, Harvest, HarvestCount,
         PlaceLocal, PlaceInline, PlaceCheck, PlaceDone, StealTry, StealGiveUp, StealPush,
         StealInline, StealNothing, StealPlaced, StealClaim, StealMove, StealStop, Leave, TaskReturns,
         OtherEvent, Timeout, Proceed, Choose,
         Goto, locals
<1>5. hand' = hand \/ \E h : hand' = [hand EXCEPT ![w] = h]
  BY DEF Loop, StartWakeup, LoopHead, PeekInbound, PeekLocal, PeekGlobal, SleepOn, WaitReturns,
         DispatchWakeup, SleepOff, Drain, DrainCount, Sort, PrivateRun, PrivateCheck, TimersNow,
         TimerRun, TimerCheck, ExitCheck, LocalRun, LocalDone, LocalCheck, Harvest, HarvestCount,
         PlaceLocal, PlaceInline, PlaceCheck, PlaceDone, StealTry, StealGiveUp, StealPush,
         StealInline, StealNothing, StealPlaced, StealClaim, StealMove, StealStop, Leave, TaskReturns,
         OtherEvent, Timeout, Proceed, locals
<1>6. timeout_ms' = timeout_ms \/ \E n : timeout_ms' = [timeout_ms EXCEPT ![w] = n]
  BY DEF Loop, StartWakeup, LoopHead, PeekInbound, PeekLocal, PeekGlobal, SleepOn, WaitReturns,
         DispatchWakeup, SleepOff, Drain, DrainCount, Sort, PrivateRun, PrivateCheck, TimersNow,
         TimerRun, TimerCheck, ExitCheck, LocalRun, LocalDone, LocalCheck, Harvest, HarvestCount,
         PlaceLocal, PlaceInline, PlaceCheck, PlaceDone, StealTry, StealGiveUp, StealPush,
         StealInline, StealNothing, StealPlaced, StealClaim, StealMove, StealStop, Leave, TaskReturns,
         OtherEvent, Timeout, Proceed, locals
<1>7. \A l : [theft EXCEPT ![w] = l][v] = theft[v]
  BY DEF TypeOK, LoopTypeOK
<1>8. theft' = theft \/ \E n : theft' = [theft EXCEPT ![w] = n]
  BY DEF Loop, StartWakeup, LoopHead, PeekInbound, PeekLocal, PeekGlobal, SleepOn, WaitReturns,
         DispatchWakeup, SleepOff, Drain, DrainCount, Sort, PrivateRun, PrivateCheck, TimersNow,
         TimerRun, TimerCheck, ExitCheck, LocalRun, LocalDone, LocalCheck, Harvest, HarvestCount,
         PlaceLocal, PlaceInline, PlaceCheck, PlaceDone, StealTry, StealGiveUp, StealPush,
         StealInline, StealNothing, StealPlaced, StealClaim, StealMove, StealStop, Leave, TaskReturns,
         OtherEvent, Timeout, Proceed, locals
<1>9. \A l : [claimed EXCEPT ![w] = l][v] = claimed[v]
  BY DEF TypeOK, DequeTypeOK
<1>10. claimed' = claimed \/ \E n : claimed' = [claimed EXCEPT ![w] = n]
  BY DEF Loop, StartWakeup, LoopHead, PeekInbound, PeekLocal, PeekGlobal, SleepOn, WaitReturns,
         DispatchWakeup, SleepOff, Drain, DrainCount, Sort, PrivateRun, PrivateCheck, TimersNow,
         TimerRun, TimerCheck, ExitCheck, LocalRun, LocalDone, LocalCheck, Harvest, HarvestCount,
         PlaceLocal, PlaceInline, PlaceCheck, PlaceDone, StealTry, StealGiveUp, StealPush,
         StealInline, StealNothing, StealPlaced, StealClaim, StealMove, StealStop, Leave, TaskReturns,
         OtherEvent, Timeout, PushBottom, PopBottom, Proceed, hiveVars, queues, deque
<1> QED
  BY <1>1, <1>2, <1>3, <1>4, <1>5, <1>6, <1>7, <1>8, <1>9, <1>10

\* A thief that has claimed a slot or holds what was in it has that much left to steal.
Stealing(w) ==
  /\ pc[w] \in {"steal_move", "steal_place"} => theft[w].left > 0
  /\ claimed[w] # NoClaim <=> pc[w] = "steal_move"
TheftInv == \A w \in Workers : Stealing(w)

\* A step of worker w that neither claims a slot nor empties one.
Elsewhere(w) ==
  \E from, to : Goto(w, from, to) /\ from # "steal_move" /\ to \notin {"steal_move", "steal_place"}

LEMMA TheftNext ==
  ASSUME TypeOK, TheftInv, [Next]_vars
  PROVE  TheftInv'
<1> USE WorkerFacts
<1>1. pc \in [Workers -> Labels]
  BY DEF TypeOK, LoopTypeOK
<1>2. ASSUME UNCHANGED <<pc, theft, claimed>> PROVE TheftInv'
  BY <1>2 DEF TheftInv, Stealing
<1>3. ASSUME NEW w \in Workers, Stealing(w)', \A v \in Workers \ {w} : Stealing(v)' = Stealing(v)
      PROVE  TheftInv'
  BY <1>3 DEF TheftInv
<1>4. ASSUME NEW w \in Workers, NEW from, NEW to, Goto(w, from, to), from # "steal_move",
             to \notin {"steal_move", "steal_place"}, UNCHANGED claimed
      PROVE  Stealing(w)'
  BY <1>1, <1>4 DEF TheftInv, Stealing, Goto
<1>5. ASSUME NEW w \in Workers, Loop(w) \/ OtherEvent(w) PROVE TheftInv'
  <2>1. \A v \in Workers \ {w} : Stealing(v)' = Stealing(v)
    BY <1>5, LoopMoves DEF Stealing
  <2>2. ASSUME UNCHANGED claimed, Elsewhere(w) PROVE TheftInv'
    BY <1>3, <1>4, <2>1, <2>2 DEF Elsewhere
  <2>3. CASE StealClaim(w)
    <3>1. pc'[w] = "steal_move" /\ theft' = theft /\ theft[w].left > 0
      BY <1>1, <2>3 DEF StealClaim, Goto
    <3>2. claimed'[w] = [victim |-> theft[w].victim, slot |-> cursor[theft[w].victim].top]
      BY <2>3 DEF StealClaim, TypeOK, DequeTypeOK
    <3>3. cursor[theft[w].victim].top \in Nat
      BY DEF TypeOK, DequeTypeOK, LoopTypeOK
    <3>4. claimed'[w] # NoClaim
      BY <3>2, <3>3 DEF NoClaim
    <3> QED
      BY <1>3, <2>1, <3>1, <3>4 DEF Stealing
  <2>4. CASE StealMove(w)
    <3>1. pc[w] = "steal_move" /\ pc'[w] = "steal_place" /\ theft' = theft
      BY <1>1, <2>4 DEF StealMove, Goto
    <3>2. claimed'[w] = NoClaim
      BY <2>4 DEF StealMove, TypeOK, DequeTypeOK
    <3> QED
      BY <1>3, <2>1, <3>1, <3>2 DEF Stealing, TheftInv
  <2>5. CASE TaskReturns(w)
    BY <1>2, <2>5 DEF TaskReturns, locals, queues, deque
  <2>6. CASE StartWakeup(w) \/ LoopHead(w) \/ PeekInbound(w) \/ PeekLocal(w) \/ PeekGlobal(w) \/ SleepOn(w) \/ WaitReturns(w)
    <3>1. UNCHANGED claimed
      BY <2>6
         DEF StartWakeup, LoopHead, PeekInbound, PeekLocal, PeekGlobal, SleepOn, WaitReturns, Timeout,
              Proceed, hiveVars, queues, deque
    <3>2. Elsewhere(w)
      BY <2>6
         DEF StartWakeup, LoopHead, PeekInbound, PeekLocal, PeekGlobal, SleepOn, WaitReturns, Timeout,
              Proceed, Choose, Elsewhere
    <3> QED
      BY <2>2, <3>1, <3>2
  <2>7. CASE DispatchWakeup(w) \/ SleepOff(w) \/ Drain(w) \/ DrainCount(w) \/ Sort(w) \/ PrivateRun(w) \/ PrivateCheck(w) \/ OtherEvent(w)
    <3>1. UNCHANGED claimed
      BY <2>7
         DEF DispatchWakeup, SleepOff, Drain, DrainCount, Sort, PrivateRun, PrivateCheck, OtherEvent,
              Proceed, hiveVars, queues, deque
    <3>2. Elsewhere(w)
      BY <2>7
         DEF DispatchWakeup, SleepOff, Drain, DrainCount, Sort, PrivateRun, PrivateCheck, OtherEvent,
              Proceed, Choose, Elsewhere
    <3> QED
      BY <2>2, <3>1, <3>2
  <2>8. CASE TimersNow(w) \/ TimerRun(w) \/ TimerCheck(w) \/ ExitCheck(w) \/ LocalRun(w) \/ LocalDone(w) \/ LocalCheck(w)
    <3>1. UNCHANGED claimed
      BY <2>8
         DEF TimersNow, TimerRun, TimerCheck, ExitCheck, LocalRun, LocalDone, LocalCheck, PopBottom,
              hiveVars, queues, deque
    <3>2. Elsewhere(w)
      BY <2>8
         DEF TimersNow, TimerRun, TimerCheck, ExitCheck, LocalRun, LocalDone, LocalCheck, TimersDone,
              Choose, Elsewhere
    <3> QED
      BY <2>2, <3>1, <3>2
  <2>9. CASE Harvest(w) \/ HarvestCount(w) \/ PlaceLocal(w) \/ PlaceInline(w) \/ PlaceCheck(w) \/ PlaceDone(w)
    <3>1. UNCHANGED claimed
      BY <2>9
         DEF Harvest, HarvestCount, PlaceLocal, PlaceInline, PlaceCheck, PlaceDone, Proceed, PushBottom,
              hiveVars, queues, deque
    <3>2. Elsewhere(w)
      BY <2>9
         DEF Harvest, HarvestCount, PlaceLocal, PlaceInline, PlaceCheck, PlaceDone, Proceed, Choose,
              Elsewhere
    <3> QED
      BY <2>2, <3>1, <3>2
  <2>11. CASE StealTry(w)
    <3>1. PICK n : Choose(w, "steal", n = 0, "steal", "steal_take")
      BY <2>11 DEF StealTry
    <3>2. Elsewhere(w)
      BY <3>1 DEF Choose, Elsewhere
    <3> QED
      BY <2>2, <2>11, <3>2 DEF StealTry, hiveVars, queues, deque
  <2>10. CASE StealGiveUp(w) \/ StealStop(w) \/ Leave(w)
    <3>1. UNCHANGED claimed
      BY <2>10 DEF StealGiveUp, StealStop, Leave, Proceed, hiveVars, queues, deque
    <3>2. Elsewhere(w)
      BY <2>10 DEF StealGiveUp, StealStop, Leave, Proceed, Choose, Elsewhere
    <3> QED
      BY <2>2, <3>1, <3>2
  <2>12. CASE StealPush(w) \/ StealInline(w) \/ StealNothing(w)
    <3>1. UNCHANGED claimed
      BY <2>12 DEF StealPush, StealInline, StealNothing, PushBottom, hiveVars, queues, deque
    <3>2. Goto(w, "steal_place", "steal_take")
      BY <2>12 DEF StealPush, StealInline, StealNothing, StealPlaced
    <3>3. Elsewhere(w)
      BY <3>2 DEF Elsewhere
    <3> QED
      BY <2>2, <3>1, <3>3
  <2> QED
    BY <1>5, <2>3, <2>4, <2>5, <2>6, <2>7, <2>8, <2>9, <2>10, <2>11, <2>12 DEF Loop
<1>6. CASE Main \/ JoinCompute
  <2>1. UNCHANGED claimed /\ \E from, to : /\ Goto(0, from, to) /\ from # "steal_move"
                                         /\ to \notin {"steal_move", "steal_place"}
    BY <1>6 DEF Main, LeaveMain, Join, JoinCompute, Exchange, Proceed, hiveVars, queues, deque
  <2>2. Stealing(0)' /\ theft' = theft /\ \A v \in Workers \ {0} : pc'[v] = pc[v]
    BY <1>1, <1>4, <1>6, <2>1 DEF Main, LeaveMain, Join, JoinCompute, Proceed, Goto
  <2> QED
    BY <1>3, <2>1, <2>2 DEF Stealing
<1>7. ASSUME NEW a \in Agents, CallStep(a) \/ Start(a) PROVE TheftInv'
  <2>1. UNCHANGED <<pc, theft>>
    BY <1>7 DEF CallStep, Start, locals
  <2>2. UNCHANGED claimed
    BY <1>7
       DEF CallStep, Start, ContinueCall, IoCount, IoScan, Wake, AddTimer, InCount, ExitStop, ExitWake,
           StartCall, postIO, postToLocal, postToWorker, postDelayed, requestExit, Exchange, requestStop,
           PushBottom, queues, deque
  <2> QED
    BY <1>2, <2>1, <2>2
<1>8. CASE (Tick /\ UNCHANGED locals) \/ Finished \/ UNCHANGED vars
  BY <1>2, <1>8 DEF Tick, Finished, vars, hiveVars, locals, queues, deque
<1> QED
  BY <1>5, <1>6, <1>7, <1>8 DEF Next

\* A call that still has to push pushes a task.
PushInv == \A a \in Agents : call[a].at = "in_push" => call[a].task \in Task

LEMMA PushNext ==
  ASSUME TypeOK, PushInv, [Next]_vars
  PROVE  PushInv'
<1> USE WorkerFacts DEF PushInv, TypeOK, CallTypeOK
<1>1. ASSUME UNCHANGED call PROVE PushInv'
  BY <1>1
<1>2. ASSUME NEW a \in Agents, NEW c, c.at = "in_push" => c.task \in Task, call' = [call EXCEPT ![a] = c]
      PROVE  PushInv'
  BY <1>2
<1>3. ASSUME NEW a \in Agents, NEW label, label # "in_push", NEW t, NEW w, Continue(a, label, t, w)
      PROVE  PushInv'
  BY <1>2, <1>3 DEF Continue
<1>4. ASSUME NEW a \in Agents, Return(a) PROVE PushInv'
  BY <1>2, <1>4 DEF Return, NoCall, Body
<1>5. ASSUME NEW w \in Workers, NEW t, Run(w, t) PROVE PushInv'
  BY <1>2, <1>5 DEF Run, Body
<1>6. ASSUME NEW a \in Agents, ContinueCall(a) PROVE PushInv'
  BY <1>3, <1>4, <1>6 DEF ContinueCall, IoCount, IoScan, Wake, AddTimer, InCount, ExitStop, ExitWake
<1>7. ASSUME NEW a \in Agents, StartCall(a) PROVE PushInv'
  <2>1. ASSUME NEW t \in Task, NEW w \in Workers, NEW delay \in Delays, postDelayed(a, w, t, delay)
        PROVE  PushInv'
    BY <1>2, <2>1 DEF postDelayed, Continue
  <2> QED
    BY <1>1, <1>3, <1>4, <1>7, <2>1
       DEF StartCall, postIO, postToLocal, postToWorker, requestExit, Exchange, requestStop
<1>8. ASSUME NEW w \in Workers, Loop(w) \/ OtherEvent(w) PROVE PushInv'
  BY <1>1, <1>2, <1>5, <1>8
     DEF Loop, StartWakeup, LoopHead, PeekInbound, PeekLocal, PeekGlobal, SleepOn, WaitReturns,
         DispatchWakeup, SleepOff, Drain, DrainCount, Sort, PrivateRun, PrivateCheck, TimersNow,
         TimerRun, TimerCheck, ExitCheck, LocalRun, LocalDone, LocalCheck, Harvest, HarvestCount,
         PlaceLocal, PlaceInline, PlaceCheck, PlaceDone, StealTry, StealGiveUp, StealPush,
         StealInline, StealNothing, StealPlaced, StealClaim, StealMove, StealStop, Leave, TaskReturns,
         OtherEvent, Timeout, Proceed, hiveVars,
         NoCall, Body
<1>9. CASE Main \/ JoinCompute
  BY <1>1, <1>3, <1>4, <1>9 DEF Main, LeaveMain, Join, JoinCompute, Exchange, Proceed, hiveVars
<1>10. CASE Tick \/ Finished \/ UNCHANGED vars
  BY <1>1, <1>10 DEF Tick, Finished, vars, hiveVars
<1> QED
  BY <1>6, <1>7, <1>8, <1>9, <1>10 DEF Next, CallStep, Start

LEMMA QueueTypesNext ==
  ASSUME TypeOK, PushInv, [Next]_vars
  PROVE  QueueTypeOK'
<1> USE WorkerFacts DEF TypeOK, CallTypeOK, QueueTypeOK
<1>1. ASSUME NEW s \in Seq(Task), NEW t \in Task
      PROVE  Append(s, t) \in Seq(Task) /\ Len(Append(s, t)) = Len(s) + 1
  BY AppendProperties
<1>2. ASSUME UNCHANGED <<pool, mail, private_queue, timers>> PROVE QueueTypeOK'
  BY <1>2 DEF pool, mail
<1>3. ASSUME NEW w \in Workers, NEW t \in Task, InboundPush(w, t), UNCHANGED <<pool, queues>>
      PROVE  QueueTypeOK'
  BY <1>1, <1>3 DEF InboundPush, pool, queues
<1>6. ASSUME NEW t \in Task, GlobalPush(t), UNCHANGED <<mail, queues>> PROVE QueueTypeOK'
  BY <1>1, <1>6 DEF GlobalPush, mail, queues
<1>7. ASSUME NEW w \in Workers, NEW n \in Int, inbound_approx' = [inbound_approx EXCEPT ![w] = n],
             UNCHANGED <<pool, inbound, queues>>
      PROVE  QueueTypeOK'
  BY <1>7 DEF pool, queues
<1>13. ASSUME NEW n \in Int, q_approx' = n, UNCHANGED <<q, mail, queues>> PROVE QueueTypeOK'
  BY <1>13 DEF mail, queues
<1>14. ASSUME NEW w \in Workers, NEW s \in Seq(Task), private_queue' = [private_queue EXCEPT ![w] = s],
              UNCHANGED <<pool, mail, timers>>
       PROVE  QueueTypeOK'
  BY <1>14 DEF pool, mail
<1>15. ASSUME NEW w \in Workers, NEW T \in SUBSET Task, timers' = [timers EXCEPT ![w] = T],
              UNCHANGED <<pool, mail, private_queue>>
       PROVE  QueueTypeOK'
  BY <1>15 DEF pool, mail
<1>12. ASSUME NEW a \in Agents, ContinueCall(a) PROVE QueueTypeOK'
  <2>1. CASE IoCount(a)
    <3>1. q_approx + 1 \in Int
      OBVIOUS
    <3> QED
      BY <1>13, <2>1, <3>1 DEF IoCount
  <2>2. CASE InCount(a)
    <3>1. call[a].to \in Workers
      OBVIOUS
    <3>2. inbound_approx[call[a].to] \in Int
      BY <3>1
    <3>3. \A n \in Int : n + 1 \in Int
      OBVIOUS
    <3> QED
      BY <1>7, <2>2, <3>1, <3>2, <3>3 DEF InCount
  <2>3. CASE AddTimer(a)
    BY <1>3, <2>3 DEF AddTimer, PushInv
  <2> QED
    BY <1>2, <1>12, <2>1, <2>2, <2>3 DEF ContinueCall, IoScan, Wake, ExitStop, ExitWake, queues
<1>8. ASSUME NEW a \in Agents, StartCall(a) PROVE QueueTypeOK'
  <2>1. ASSUME NEW t \in Task, postIO(a, t) PROVE QueueTypeOK'
    BY <1>6, <2>1 DEF postIO
  <2>2. ASSUME NEW t \in Task, NEW w \in Workers, postToLocal(a, w, t) PROVE QueueTypeOK'
    <3>1. CASE a = w /\ HasRoom(w)
      BY <1>2, <2>2, <3>1 DEF postToLocal
    <3> QED
      BY <1>6, <2>2, <3>1 DEF postToLocal, queues
  <2>3. ASSUME NEW t \in Task, NEW w \in Workers, postToWorker(a, w, t) PROVE QueueTypeOK'
    BY <1>3, <2>3 DEF postToWorker
  <2> QED
    BY <1>2, <1>8, <2>1, <2>2, <2>3 DEF StartCall, postDelayed, requestExit, Exchange, requestStop, queues
<1>9. CASE Main \/ JoinCompute
  BY <1>2, <1>9 DEF Main, LeaveMain, Join, JoinCompute, Exchange, Proceed, hiveVars, queues
<1>10. ASSUME NEW w \in Workers, Loop(w) PROVE QueueTypeOK'
  <2>1. CASE Drain(w)
    BY <2>1, EmptySeq DEF Drain, pool, queues
  <2>2. CASE DrainCount(w)
    <3>1. hand[w] \in Seq(Task) /\ inbound_approx[w] \in Int
      BY DEF LoopTypeOK
    <3>2. inbound_approx[w] - Len(hand[w]) \in Int
      BY <3>1, LenProperties
    <3> QED
      BY <1>7, <2>2, <3>2 DEF DrainCount
  <2>3. CASE Sort(w)
    <3>1. Head(hand[w]) \in Task
      BY <2>3, SeqFacts DEF Sort, LoopTypeOK
    <3>2. Append(private_queue[w], Head(hand[w])) \in Seq(Task) /\ timers[w] \cup {Head(hand[w])} \in SUBSET Task
      BY <1>1, <3>1
    <3> HIDE DEF TypeOK, QueueTypeOK, CallTypeOK
    <3>3. CASE post[Head(hand[w])].kind = "private"
      BY <1>14, <2>3, <3>2, <3>3 DEF Sort
    <3>4. CASE post[Head(hand[w])].kind # "private"
      BY <1>15, <2>3, <3>2, <3>4 DEF Sort
    <3> QED
      BY <3>3, <3>4
  <2>4. CASE PrivateRun(w)
    <3>1. Tail(private_queue[w]) \in Seq(Task)
      BY <2>4, SeqFacts DEF PrivateRun
    <3> QED
      BY <2>4, <3>1 DEF PrivateRun, pool, mail
  <2>5. CASE TimerRun(w)
    <3>1. PICK t \in timers[w] : timers' = [timers EXCEPT ![w] = @ \ {t}]
      BY <2>5 DEF TimerRun
    <3>2. timers[w] \ {t} \in SUBSET Task
      OBVIOUS
    <3> QED
      BY <2>5, <3>1, <3>2 DEF TimerRun, pool, mail
  <2>7. CASE Harvest(w)
    <3>1. SubSeq(q, BatchSize + 1, Len(q)) \in Seq(Task)
      BY HarvestSplit
    <3> QED
      BY <2>7, <3>1 DEF Harvest, mail, queues
  <2>8. CASE HarvestCount(w)
    <3>1. hand[w] \in Seq(Task)
      BY DEF LoopTypeOK
    <3>2. q_approx - Len(hand[w]) \in Int
      BY <3>1, LenProperties
    <3> QED
      BY <1>13, <2>8, <3>2 DEF HarvestCount
  <2> HIDE DEF TypeOK, CallTypeOK, QueueTypeOK
  <2> QED
    BY <1>2, <1>10, <2>1, <2>2, <2>3, <2>4, <2>5, <2>7, <2>8
       DEF Loop, StartWakeup, LoopHead, PeekInbound, PeekLocal, PeekGlobal, SleepOn, WaitReturns,
           DispatchWakeup, SleepOff, PrivateCheck, TimersNow, TimerCheck, ExitCheck, LocalRun, LocalDone,
           LocalCheck, PlaceLocal, PlaceInline, PlaceCheck, PlaceDone, StealTry, StealGiveUp, StealPush,
           StealInline, StealNothing, StealClaim, StealMove, StealStop, Leave, TaskReturns, Timeout,
           Proceed, hiveVars, queues
<1>11. CASE Tick \/ Finished \/ UNCHANGED vars \/ \E w \in Workers : OtherEvent(w)
  BY <1>2, <1>11 DEF Tick, Finished, vars, hiveVars, queues, OtherEvent
<1> QED
  BY <1>8, <1>9, <1>10, <1>11, <1>12 DEF Next, CallStep, Start

\* What a step may do to the local deques.
DequePushed == \E w \in Workers : \E t \in Task : HasRoom(w) /\ PushBottom(w, t)
DequePopped == \E w \in Workers : cursor[w].size > 0 /\ PopBottom(w)
DequeClaimed == \E w \in Workers : StealClaim(w)
DequeMoved == \E w \in Workers : StealMove(w)

LEMMA DequeMoves ==
  ASSUME TypeOK, [Next]_vars
  PROVE  UNCHANGED deque \/ DequePushed \/ DequePopped \/ DequeClaimed \/ DequeMoved
<1> DEFINE Goal == UNCHANGED deque \/ DequePushed \/ DequePopped \/ DequeClaimed \/ DequeMoved
<1> SUFFICES Goal
  OBVIOUS
<1>1. ASSUME NEW w \in Workers, Loop(w) PROVE Goal
  <2>1. CASE LocalRun(w)
    <3>1. cursor[w].size > 0 /\ PopBottom(w)
      BY <2>1 DEF LocalRun, TypeOK, DequeTypeOK
    <3> QED
      BY <3>1 DEF DequePopped
  <2>2. CASE PlaceLocal(w) \/ StealPush(w)
    <3>1. Head(hand[w]) \in Task
      BY <2>2, SeqFacts DEF PlaceLocal, StealPush, TypeOK, LoopTypeOK
    <3> QED
      BY <2>2, <3>1 DEF PlaceLocal, StealPush, DequePushed
  <2>3. CASE StealClaim(w) \/ StealMove(w)
    BY <2>3 DEF DequeClaimed, DequeMoved
  <2> HIDE DEF Goal
  <2>4. UNCHANGED deque => Goal
    BY DEF Goal
  <2> QED
    BY <1>1, <2>1, <2>2, <2>3, <2>4
       DEF Loop, StartWakeup, LoopHead, PeekInbound, PeekLocal, PeekGlobal, SleepOn, WaitReturns,
           DispatchWakeup, SleepOff, Drain, DrainCount, Sort, PrivateRun, PrivateCheck, TimersNow, TimerRun,
           TimerCheck, ExitCheck, LocalDone, LocalCheck, Harvest, HarvestCount, PlaceInline, PlaceCheck,
           PlaceDone, StealTry, StealGiveUp, StealInline, StealNothing, StealStop, Leave, TaskReturns,
           Timeout, Proceed, hiveVars, queues
<1>2. ASSUME NEW a \in Agents, ContinueCall(a) \/ StartCall(a) PROVE Goal
  <2>1. ASSUME NEW t \in Task, NEW w \in Workers, postToLocal(a, w, t) PROVE Goal
    BY <2>1 DEF postToLocal, DequePushed
  <2> QED
    BY <1>2, <2>1
       DEF ContinueCall, IoCount, IoScan, Wake, AddTimer, InCount, ExitStop, ExitWake, StartCall, postIO,
           postToWorker, postDelayed, requestExit, Exchange, requestStop, queues
<1>3. CASE Main \/ JoinCompute
  BY <1>3 DEF Main, LeaveMain, Join, JoinCompute, Exchange, Proceed, hiveVars, queues
<1>4. CASE Tick \/ Finished \/ UNCHANGED vars \/ \E w \in Workers : OtherEvent(w)
  BY <1>4 DEF Tick, Finished, vars, hiveVars, queues, OtherEvent
<1> QED
  BY <1>1, <1>2, <1>3, <1>4 DEF Next, CallStep, Start

LEMMA DequeTypesNext ==
  ASSUME TypeOK, TheftInv, [Next]_vars
  PROVE  DequeTypeOK'
<1>1. DequeTypeOK /\ \A w \in Workers : LocalMax[w] \in Nat \ {0}
  BY DEF TypeOK
<1>2. ASSUME NEW w \in Workers, NEW i \in Slots(w), NEW x \in Task \cup {NoTask},
             local_dq' = [local_dq EXCEPT ![w][i] = x]
      PROVE  /\ local_dq' = [v \in Workers |-> local_dq'[v]]
             /\ \A v \in Workers : local_dq'[v] \in [Slots(v) -> Task \cup {NoTask}]
  <2>1. DOMAIN local_dq = Workers
    BY <1>1 DEF DequeTypeOK
  <2> QED
    BY <1>1, <1>2, <2>1 DEF DequeTypeOK
<1>3. ASSUME NEW w \in Workers, NEW top \in Slots(w), NEW n \in 0 .. LocalMax[w],
             cursor' = [cursor EXCEPT ![w] = [top |-> top, size |-> n]]
      PROVE  /\ cursor' \in [Workers -> [top : Nat, size : Nat]]
             /\ \A v \in Workers : cursor'[v].top \in Slots(v) /\ cursor'[v].size <= LocalMax[v]
  <2>1. Slots(w) \subseteq Nat /\ n \in Nat /\ n <= LocalMax[w]
    BY <1>1 DEF Slots
  <2>2. [top |-> top, size |-> n] \in [top : Nat, size : Nat]
    BY <2>1
  <2> QED
    BY <1>1, <1>3, <2>1, <2>2 DEF DequeTypeOK
<1>4. CASE UNCHANGED deque
  BY <1>1, <1>4 DEF deque, DequeTypeOK
<1>5. ASSUME NEW w \in Workers, NEW t \in Task, HasRoom(w), PushBottom(w, t) PROVE DequeTypeOK'
  <2>1. Bottom(w) \in Slots(w)
    BY <1>1, DequeSlots
  <2>2. local_dq[w][Bottom(w)] \in Task \cup {NoTask}
    BY <1>1, <2>1 DEF DequeTypeOK
  <2>3. overwritten' \subseteq Task \cup {NoTask}
    BY <1>1, <1>5, <2>2 DEF PushBottom, DequeTypeOK
  <2>4. cursor[w].size + 1 \in 0 .. LocalMax[w] /\ cursor[w].top \in Slots(w)
    BY <1>1, <1>5 DEF HasRoom, DequeTypeOK
  <2>5. cursor' = [cursor EXCEPT ![w] = [top |-> cursor[w].top, size |-> cursor[w].size + 1]]
    <3>1. cursor \in [Workers -> [top : Nat, size : Nat]]
      BY <1>1 DEF DequeTypeOK
    <3>2. cursor' = [cursor EXCEPT ![w] = [cursor[w] EXCEPT !.size = cursor[w].size + 1]]
      BY <1>5, <3>1 DEF PushBottom
    <3>3. [cursor[w] EXCEPT !.size = cursor[w].size + 1] = [top |-> cursor[w].top, size |-> cursor[w].size + 1]
      BY <3>1
    <3> QED
      BY <3>2, <3>3
  <2>6. /\ local_dq' = [v \in Workers |-> local_dq'[v]]
        /\ \A v \in Workers : local_dq'[v] \in [Slots(v) -> Task \cup {NoTask}]
    BY <1>2, <1>5, <2>1 DEF PushBottom
  <2>7. /\ cursor' \in [Workers -> [top : Nat, size : Nat]]
        /\ \A v \in Workers : cursor'[v].top \in Slots(v) /\ cursor'[v].size <= LocalMax[v]
    BY <1>3, <2>4, <2>5
  <2>8. claimed' = claimed
    BY <1>5 DEF PushBottom
  <2> QED
    BY <1>1, <2>3, <2>6, <2>7, <2>8 DEF DequeTypeOK
<1>6. ASSUME NEW w \in Workers, cursor[w].size > 0, PopBottom(w) PROVE DequeTypeOK'
  <2>1. Newest(w) \in Slots(w) /\ Slot(w, cursor[w].top + 1) \in Slots(w) /\ cursor[w].top \in Slots(w)
    BY <1>1, <1>6, DequeSlots DEF DequeTypeOK
  <2>2. cursor[w].size - 1 \in 0 .. LocalMax[w]
    BY <1>1, <1>6 DEF DequeTypeOK
  <2> DEFINE top == IF cursor[w].size = 1 THEN Slot(w, cursor[w].top + 1) ELSE cursor[w].top
  <2>3. top \in Slots(w)
    BY <2>1
  <2>4. cursor' = [cursor EXCEPT ![w] = [top |-> top, size |-> cursor[w].size - 1]]
    BY <1>6 DEF PopBottom
  <2> HIDE DEF top
  <2>5. /\ cursor' \in [Workers -> [top : Nat, size : Nat]]
        /\ \A v \in Workers : cursor'[v].top \in Slots(v) /\ cursor'[v].size <= LocalMax[v]
    BY <1>3, <2>2, <2>3, <2>4
  <2>6. /\ local_dq' = [v \in Workers |-> local_dq'[v]]
        /\ \A v \in Workers : local_dq'[v] \in [Slots(v) -> Task \cup {NoTask}]
    BY <1>2, <1>6, <2>1 DEF PopBottom
  <2>7. claimed' = claimed /\ overwritten' = overwritten
    BY <1>6 DEF PopBottom
  <2> QED
    BY <1>1, <2>5, <2>6, <2>7 DEF DequeTypeOK
<1>7. ASSUME NEW w \in Workers, StealClaim(w) PROVE DequeTypeOK'
  <2> DEFINE v == theft[w].victim
  <2>1. v \in Workers
    BY DEF TypeOK, LoopTypeOK
  <2>2. cursor[v].size \in Nat \ {0} /\ cursor[v].top \in Slots(v) /\ cursor[v].top \in Nat
        /\ cursor[v].size <= LocalMax[v] /\ LocalMax[v] \in Nat
    BY <1>1, <1>7, <2>1 DEF StealClaim, DequeTypeOK
  <2>3. Slot(v, cursor[v].top + 1) \in Slots(v) /\ cursor[v].size - 1 \in 0 .. LocalMax[v]
    BY <1>1, <2>1, <2>2, DequeSlots
  <2>4. cursor' = [cursor EXCEPT ![v] = [top |-> Slot(v, cursor[v].top + 1), size |-> cursor[v].size - 1]]
    BY <1>7 DEF StealClaim
  <2>5. claimed' = [claimed EXCEPT ![w] = [victim |-> v, slot |-> cursor[v].top]]
    BY <1>7 DEF StealClaim
  <2> HIDE DEF v
  <2>6. /\ cursor' \in [Workers -> [top : Nat, size : Nat]]
        /\ \A u \in Workers : cursor'[u].top \in Slots(u) /\ cursor'[u].size <= LocalMax[u]
    BY <1>3, <2>1, <2>3, <2>4
  <2>7. [victim |-> v, slot |-> cursor[v].top] \in [victim : Workers, slot : Int]
    BY <2>1, <2>2
  <2>8. /\ claimed' \in [Workers -> [victim : Workers, slot : Int]]
        /\ \A u \in Workers : claimed'[u] = NoClaim \/ claimed'[u].slot \in Slots(claimed'[u].victim)
    BY <1>1, <2>2, <2>5, <2>7 DEF DequeTypeOK
  <2>9. local_dq' = local_dq /\ overwritten' = overwritten
    BY <1>7 DEF StealClaim
  <2> QED
    BY <1>1, <2>6, <2>8, <2>9 DEF DequeTypeOK
<1>8. ASSUME NEW w \in Workers, StealMove(w) PROVE DequeTypeOK'
  <2> DEFINE v == claimed[w].victim
             i == claimed[w].slot
  <2>1. claimed[w] # NoClaim
    BY <1>8 DEF StealMove, Goto, TheftInv, Stealing
  <2>2. v \in Workers /\ i \in Slots(v)
    BY <1>1, <2>1 DEF DequeTypeOK
  <2>3. local_dq' = [local_dq EXCEPT ![v][i] = NoTask]
    BY <1>8 DEF StealMove
  <2> HIDE DEF v, i
  <2>4. /\ local_dq' = [u \in Workers |-> local_dq'[u]]
        /\ \A u \in Workers : local_dq'[u] \in [Slots(u) -> Task \cup {NoTask}]
    BY <1>2, <2>2, <2>3
  <2>5. claimed' = [claimed EXCEPT ![w] = NoClaim] /\ cursor' = cursor /\ overwritten' = overwritten
    BY <1>8 DEF StealMove
  <2>6. NoClaim \in [victim : Workers, slot : Int]
    BY WorkerFacts DEF NoClaim
  <2>7. /\ claimed' \in [Workers -> [victim : Workers, slot : Int]]
        /\ \A u \in Workers : claimed'[u] = NoClaim \/ claimed'[u].slot \in Slots(claimed'[u].victim)
    BY <1>1, <2>5, <2>6 DEF DequeTypeOK
  <2> QED
    BY <1>1, <2>4, <2>5, <2>7 DEF DequeTypeOK
<1> QED
  BY <1>4, <1>5, <1>6, <1>7, <1>8, DequeMoves DEF DequePushed, DequePopped, DequeClaimed, DequeMoved

LEMMA DivSmall ==
  ASSUME NEW a \in Nat, NEW b \in Nat \ {0}
  PROVE  a \div b \in 0 .. a /\ a \div b \in Nat
OBVIOUS

LEMMA NatMin ==
  ASSUME NEW T, T \subseteq Nat, T # {}
  PROVE  \E x \in T : \A y \in T : x <= y
<1> DEFINE R == OpToRel(<, Nat)
<1>1. IsWellFoundedOn(R, Nat)
  BY NatLessThanWellFounded
<1>2. \A x, y \in Nat : x < y => <<x, y>> \in R
  BY DEF OpToRel
<1> HIDE DEF R
<1>3. PICK x \in T : \A y \in T : <<y, x>> \notin R
  BY <1>1, WFMin
<1>4. \A y \in T : x \in Nat /\ y \in Nat /\ ~ (y < x)
  BY <1>2, <1>3
<1>5. \A y \in T : x <= y
  BY <1>4
<1> QED
  BY <1>5

\* The earliest deadline of a worker that has timers is one of them, so the wait
\* that computeNextTimeoutMs asks for is bounded.
LEMMA TimerMsType ==
  ASSUME TypeOK, NEW w \in Workers, timers[w] # {}
  PROVE  /\ Earliest(w) \in Deadlines(w) /\ \A d \in Deadlines(w) : Earliest(w) <= d
         /\ TimerMs(w) \in 0 .. MaxClock
<1>1. MaxClock \in Nat /\ TicksPerMs \in Nat \ {0} /\ clock \in 0 .. MaxClock
  BY HiveAssumption, WorkerAssumption DEF TypeOK, FlagTypeOK
<1>2. timers[w] \subseteq Task /\ \A t \in Task : post[t].deadline \in 0 .. MaxClock
  BY DEF TypeOK, QueueTypeOK, CallTypeOK
<1>3. Deadlines(w) \subseteq 0 .. MaxClock /\ Deadlines(w) # {}
  BY <1>2 DEF Deadlines
<1>4. Deadlines(w) \subseteq Nat
  BY <1>1, <1>3
<1>5. \E d \in Deadlines(w) : \A e \in Deadlines(w) : d <= e
  BY <1>3, <1>4, NatMin
<1>6. Earliest(w) \in Deadlines(w) /\ \A e \in Deadlines(w) : Earliest(w) <= e
  BY <1>5 DEF Earliest
<1>7. Earliest(w) \in 0 .. MaxClock
  BY <1>3, <1>6
<1>8. CASE Earliest(w) <= clock
  BY <1>1, <1>6, <1>8 DEF TimerMs
<1>9. CASE ~ (Earliest(w) <= clock)
  <2>1. Earliest(w) - clock \in 0 .. MaxClock
    BY <1>1, <1>7, <1>9
  <2>2. (Earliest(w) - clock) \div TicksPerMs \in 0 .. Earliest(w) - clock
    BY <1>1, <2>1, DivSmall
  <2>3. (Earliest(w) - clock) \div TicksPerMs \in 0 .. MaxClock
    BY <1>1, <2>1, <2>2
  <2> QED
    BY <1>6, <1>9, <2>3 DEF TimerMs
<1> QED
  BY <1>8, <1>9

LEMMA LoopTypesNext ==
  ASSUME TypeOK, TheftInv, [Next]_vars
  PROVE  LoopTypeOK'
<1>0. LoopTypeOK /\ MaxClock \in Nat /\ clock \in 0 .. MaxClock
  BY HiveAssumption DEF TypeOK, FlagTypeOK
<1>1. ASSUME UNCHANGED locals PROVE LoopTypeOK'
  BY <1>0, <1>1 DEF LoopTypeOK, locals
<1>2. ASSUME NEW w \in Workers, NEW l \in Labels, pc' = [pc EXCEPT ![w] = l] PROVE pc' \in [Workers -> Labels]
  BY <1>0, <1>2 DEF LoopTypeOK
<1>3. ASSUME NEW w \in Workers, NEW from, NEW to \in Labels, Goto(w, from, to) PROVE pc' \in [Workers -> Labels]
  BY <1>0, <1>3 DEF Goto, LoopTypeOK
<1>4. ASSUME NEW w \in Workers, NEW from, NEW test, NEW yes \in Labels, NEW no \in Labels,
             Choose(w, from, test, yes, no)
      PROVE  pc' \in [Workers -> Labels]
  BY <1>3, <1>4 DEF Choose
<1>5. ASSUME pc' \in [Workers -> Labels], UNCHANGED <<timeout_ms, instant, hand, count, theft>> PROVE LoopTypeOK'
  BY <1>0, <1>5 DEF LoopTypeOK
<1>6. ASSUME NEW w \in Workers, NEW from, NEW to \in Labels, Proceed(w, from, to) PROVE LoopTypeOK'
  BY <1>3, <1>5, <1>6 DEF Proceed
<1>7. ASSUME NEW w \in Workers, NEW from, NEW ms \in -1 .. MaxClock, Timeout(w, from, ms) PROVE LoopTypeOK'
  <2>1. pc' \in [Workers -> Labels]
    BY <1>4, <1>7 DEF Timeout, Labels
  <2> QED
    BY <1>0, <1>7, <2>1 DEF Timeout, LoopTypeOK
<1>8. ASSUME NEW w \in Workers, NEW s \in Seq(Task), pc' \in [Workers -> Labels], hand' = [hand EXCEPT ![w] = s],
             UNCHANGED <<timeout_ms, instant, count, theft>>
      PROVE  LoopTypeOK'
  BY <1>0, <1>8 DEF LoopTypeOK
<1>9. ASSUME NEW w \in Workers, NEW n \in Nat, pc' \in [Workers -> Labels], count' = [count EXCEPT ![w] = n],
             UNCHANGED <<timeout_ms, instant, hand, theft>>
      PROVE  LoopTypeOK'
  BY <1>0, <1>9 DEF LoopTypeOK
<1>10. ASSUME NEW w \in Workers, NEW i \in 0 .. MaxClock, pc' \in [Workers -> Labels],
              instant' = [instant EXCEPT ![w] = i], UNCHANGED <<timeout_ms, hand, count, theft>>
       PROVE  LoopTypeOK'
  BY <1>0, <1>10 DEF LoopTypeOK
<1>11. ASSUME NEW w \in Workers, Loop(w) PROVE LoopTypeOK'
  <2>0. pc' \in [Workers -> Labels]
    <3>1. PICK l \in Labels : pc' = [pc EXCEPT ![w] = l] \/ UNCHANGED pc
      BY <1>11
         DEF Loop, StartWakeup, LoopHead, PeekInbound, PeekLocal, PeekGlobal, SleepOn, WaitReturns,
             DispatchWakeup, SleepOff, Drain, DrainCount, Sort, PrivateRun, PrivateCheck, TimersNow,
             TimerRun, TimerCheck, ExitCheck, LocalRun, LocalDone, LocalCheck, Harvest, HarvestCount,
             PlaceLocal, PlaceInline, PlaceCheck, PlaceDone, StealTry, StealGiveUp, StealPush,
             StealInline, StealNothing, StealPlaced, StealClaim, StealMove, StealStop, Leave, TaskReturns,
             Timeout, Proceed, Choose, Goto,
             locals, Labels
    <3> QED
      BY <1>0, <1>2, <3>1 DEF LoopTypeOK
  <2>1. CASE StartWakeup(w) \/ LoopHead(w) \/ WaitReturns(w) \/ DispatchWakeup(w) \/ DrainCount(w)
             \/ TimerCheck(w) \/ HarvestCount(w) \/ PlaceLocal(w) \/ PrivateRun(w) \/ TimerRun(w)
    <3>1. CASE PlaceLocal(w)
      <4>1. Tail(hand[w]) \in Seq(Task)
        BY <1>0, <3>1, SeqFacts DEF PlaceLocal, LoopTypeOK
      <4> QED
        BY <1>8, <2>0, <3>1, <4>1 DEF PlaceLocal
    <3> QED
      BY <1>5, <2>0, <2>1, <3>1
         DEF StartWakeup, LoopHead, WaitReturns, DispatchWakeup, DrainCount, TimerCheck, HarvestCount,
             PrivateRun, TimerRun
  <2>2. CASE PeekInbound(w) \/ PeekLocal(w)
    <3>1. 0 \in -1 .. MaxClock
      BY <1>0
    <3> QED
      BY <1>6, <1>7, <2>2, <3>1 DEF PeekInbound, PeekLocal, Labels
  <2>3. CASE PeekGlobal(w)
    <3>1. 0 \in -1 .. MaxClock /\ -1 \in -1 .. MaxClock
      BY <1>0
    <3>2. timers[w] # {} => TimerMs(w) \in 0 .. MaxClock
      BY TimerMsType
    <3>3. timers[w] # {} => TimerMs(w) \in -1 .. MaxClock
      BY <1>0, <3>2
    <3> QED
      BY <1>7, <2>3, <3>1, <3>3 DEF PeekGlobal
  <2>4. CASE SleepOn(w) \/ TimersNow(w)
    BY <1>0, <1>3, <1>10, <2>4 DEF SleepOn, TimersNow, Labels
  <2>5. CASE SleepOff(w)
    <3>1. pc' \in [Workers -> Labels]
      BY <1>3, <2>5 DEF SleepOff, Labels
    <3>2. 0 \in -1 .. MaxClock /\ 0 \in 0 .. MaxClock
      BY <1>0
    <3> QED
      BY <1>0, <2>5, <3>1, <3>2 DEF SleepOff, LoopTypeOK
  <2>6. CASE ExitCheck(w)
    <3>1. 0 \in 0 .. MaxClock
      BY <1>0
    <3> QED
      BY <1>10, <2>0, <2>6, <3>1 DEF ExitCheck
  <2>7. CASE Drain(w)
    <3>1. inbound[w] \in Seq(Task)
      BY DEF TypeOK, QueueTypeOK
    <3> QED
      BY <1>8, <2>0, <2>7, <3>1 DEF Drain
  <2>8. CASE Sort(w) \/ PlaceInline(w)
    <3>1. Tail(hand[w]) \in Seq(Task)
      BY <1>0, <2>8, SeqFacts DEF Sort, PlaceInline, LoopTypeOK
    <3> QED
      BY <1>8, <2>0, <2>8, <3>1 DEF Sort, PlaceInline
  <2>9. CASE PlaceCheck(w)
    <3>1. hand[w] \in Seq(Task) /\ <<>> \in Seq(Task)
      BY <1>0, EmptySeq DEF LoopTypeOK
    <3>2. (IF Exiting(w) THEN <<>> ELSE hand[w]) \in Seq(Task)
      BY <3>1
    <3> QED
      BY <1>8, <2>0, <2>9, <3>2 DEF PlaceCheck
  <2>10. CASE Harvest(w)
    <3>1. SubSeq(q, 1, BatchSize) \in Seq(Task)
      BY HarvestSplit DEF TypeOK, QueueTypeOK
    <3> QED
      BY <1>8, <2>0, <2>10, <3>1 DEF Harvest
  <2>11. CASE LocalRun(w) \/ LocalDone(w) \/ LocalCheck(w) \/ StealGiveUp(w)
    <3>1. count[w] \in Nat /\ count[w] + 1 \in Nat
      BY <1>0 DEF LoopTypeOK
    <3> QED
      BY <1>9, <2>0, <2>11, <3>1 DEF LocalRun, LocalDone, LocalCheck, StealGiveUp
  <2>12. CASE StealTry(w)
    <3>1. PICK v \in Workers :
             LET n == IF v = w THEN 0 ELSE StealCount(v) IN
             /\ Choose(w, "steal", n = 0, "steal", "steal_take")
             /\ theft' = [theft EXCEPT ![w] =
                            IF n = 0 THEN NoTheft ELSE [victim |-> v, left |-> n, stole |-> 0]]
      BY <2>12 DEF StealTry
    <3>2. StealCount(v) \in Nat
      <4>1. cursor[v].size \in Nat
        BY DEF TypeOK, DequeTypeOK
      <4>2. cursor[v].size \div StealFactor \in Nat
        BY <4>1, DivSmall, WorkerAssumption
      <4> QED
        BY <4>2 DEF StealCount
    <3>3. theft' \in [Workers -> [victim : Workers, left : Nat, stole : Nat]]
      BY <1>0, <3>1, <3>2, WorkerFacts DEF LoopTypeOK, NoTheft
    <3>4. pc' \in [Workers -> Labels]
      BY <1>4, <3>1 DEF Labels
    <3>5. count[w] + 1 \in Nat
      BY <1>0 DEF LoopTypeOK
    <3>6. count' \in [Workers -> Nat]
      BY <1>0, <2>12, <3>5 DEF StealTry, LoopTypeOK
    <3> QED
      BY <1>0, <2>12, <3>3, <3>4, <3>6 DEF StealTry, LoopTypeOK
  <2>13. CASE StealPush(w) \/ StealInline(w) \/ StealNothing(w)
    <3>1. StealPlaced(w)
      BY <2>13 DEF StealPush, StealInline, StealNothing
    <3>2. theft[w].victim \in Workers /\ theft[w].left \in Nat /\ theft[w].stole \in Nat /\ theft[w].left > 0
      BY <1>0, <3>1 DEF StealPlaced, Goto, TheftInv, Stealing, LoopTypeOK
    <3>5. theft[w].left - 1 \in Nat /\ theft[w].stole + 1 \in Nat
      BY <3>2
    <3>6. theft' = [theft EXCEPT ![w] = [theft[w] EXCEPT !.left = @ - 1, !.stole = @ + 1]]
      BY <1>0, <3>1 DEF StealPlaced, LoopTypeOK
    <3>7. ASSUME NEW th \in [victim : Workers, left : Nat, stole : Nat], NEW m \in Nat, NEW n \in Nat
          PROVE  [th EXCEPT !.left = m, !.stole = n] \in [victim : Workers, left : Nat, stole : Nat]
      OBVIOUS
    <3>8. theft[w] \in [victim : Workers, left : Nat, stole : Nat]
      BY <1>0 DEF LoopTypeOK
    <3>9. [theft[w] EXCEPT !.left = @ - 1, !.stole = @ + 1] \in [victim : Workers, left : Nat, stole : Nat]
      BY <3>5, <3>7, <3>8
    <3>3. theft' \in [Workers -> [victim : Workers, left : Nat, stole : Nat]]
      BY <1>0, <3>6, <3>9 DEF LoopTypeOK
    <3>4. pc' \in [Workers -> Labels]
      BY <1>3, <3>1 DEF StealPlaced, Labels
    <3>10. hand' \in [Workers -> Seq(Task)]
      <4>1. hand[w] # <<>> => Tail(hand[w]) \in Seq(Task)
        BY <1>0, SeqFacts DEF LoopTypeOK
      <4> QED
        <5>1. hand' = hand \/ (hand[w] # <<>> /\ hand' = [hand EXCEPT ![w] = Tail(hand[w])])
          BY <2>13 DEF StealPush, StealInline, StealNothing
        <5>2. hand \in [Workers -> Seq(Task)]
          BY <1>0 DEF LoopTypeOK
        <5> QED
          BY <4>1, <5>1, <5>2
    <3> QED
      BY <1>0, <2>13, <3>3, <3>4, <3>10 DEF StealPush, StealInline, StealNothing, LoopTypeOK
  <2>14. CASE StealStop(w)
    <3>1. pc' \in [Workers -> Labels]
      BY <1>4, <2>14 DEF StealStop, Labels
    <3>2. theft' \in [Workers -> [victim : Workers, left : Nat, stole : Nat]] /\ count' \in [Workers -> Nat]
      BY <1>0, <2>14, WorkerFacts DEF StealStop, LoopTypeOK, NoTheft
    <3> QED
      BY <1>0, <2>14, <3>1, <3>2 DEF StealStop, LoopTypeOK
  <2>17. CASE StealClaim(w)
    BY <1>5, <2>0, <2>17 DEF StealClaim
  <2>18. CASE StealMove(w)
    <3> DEFINE t == local_dq[claimed[w].victim][claimed[w].slot]
               h == IF t = NoTask THEN <<>> ELSE <<t>>
    <3>1. claimed[w] # NoClaim
      BY <2>18 DEF StealMove, Goto, TheftInv, Stealing
    <3>2. claimed[w].victim \in Workers /\ claimed[w].slot \in Slots(claimed[w].victim)
      BY <3>1 DEF TypeOK, DequeTypeOK
    <3>3. t \in Task \cup {NoTask}
      BY <3>2 DEF TypeOK, DequeTypeOK
    <3>4. h \in Seq(Task)
      BY <3>3, EmptySeq
    <3>5. hand' = [hand EXCEPT ![w] = h]
      BY <2>18 DEF StealMove
    <3> HIDE DEF t, h
    <3> QED
      BY <1>8, <2>0, <2>18, <3>4, <3>5 DEF StealMove
  <2>15. CASE PrivateCheck(w) \/ PlaceDone(w) \/ Leave(w)
    BY <1>6, <2>15 DEF PrivateCheck, PlaceDone, Leave, Labels
  <2>16. CASE TaskReturns(w)
    BY <1>1, <2>16 DEF TaskReturns
  <2> QED
    BY <1>11, <2>1, <2>2, <2>3, <2>4, <2>5, <2>6, <2>7, <2>8, <2>9, <2>10, <2>11, <2>12, <2>13, <2>14,
       <2>15, <2>16, <2>17, <2>18 DEF Loop
<1>12. ASSUME NEW w \in Workers, OtherEvent(w) PROVE LoopTypeOK'
  BY <1>4, <1>5, <1>12 DEF OtherEvent, Labels
<1>13. CASE Main \/ JoinCompute
  BY <1>3, <1>5, <1>6, <1>13, WorkerFacts DEF Main, LeaveMain, Join, JoinCompute, Labels
<1>14. CASE (\E a \in Agents : CallStep(a) \/ Start(a)) \/ (Tick /\ UNCHANGED locals) \/ Finished \/ UNCHANGED vars
  BY <1>1, <1>14 DEF CallStep, Start, Finished, vars
<1> QED
  BY <1>11, <1>12, <1>13, <1>14 DEF Next

LEMMA TypeInit == Init => TypeOK /\ TheftInv /\ PushInv
<1>1. ASSUME Init PROVE TypeOK /\ TheftInv /\ PushInv
  <2>1. 0 \in Workers /\ 0 \in 0 .. MaxClock /\ 0 \in -1 .. MaxClock /\ <<>> \in Seq(Task) /\ Len(<<>>) = 0
    BY WorkerFacts, HiveAssumption, EmptySeq
  <2>2. FlagTypeOK
    BY <1>1, <2>1 DEF Init, HiveInit, FlagTypeOK
  <2>3. QueueTypeOK
    BY <1>1, <2>1, HiveAssumption DEF Init, HiveInit, QueueTypeOK
  <2>7. DequeTypeOK
    BY <1>1, WorkerFacts, HiveAssumption DEF Init, HiveInit, DequeTypeOK, NoClaim, Slots
  <2>4. CallTypeOK
    BY <1>1, <2>1, NoCallTypes DEF Init, HiveInit, CallTypeOK, NotPosted
  <2>5. LoopTypeOK
    BY <1>1, <2>1 DEF Init, WorkerInit, LoopTypeOK, NoTheft, Labels
  <2>6. TheftInv /\ PushInv
    BY <1>1 DEF Init, HiveInit, WorkerInit, TheftInv, Stealing, PushInv, NoTheft, NoCall
  <2> QED
    BY <2>2, <2>3, <2>4, <2>5, <2>6, <2>7 DEF TypeOK
<1> QED
  BY <1>1

\* Every queue holds tasks only, a local deque at most maxSize() of them, and
\* every thread is at one of the steps of its call and of its loop.  What a thief has
\* claimed and still has to steal, and what a call pushes, are needed for it.
THEOREM TypeCorrect == Spec => []TypeOK
<1>1. TypeOK /\ TheftInv /\ PushInv /\ [Next]_vars => (TypeOK /\ TheftInv /\ PushInv)'
  BY CallTypesNext, FlagTypesNext, QueueTypesNext, DequeTypesNext, LoopTypesNext, TheftNext, PushNext DEF
                                                                                                          TypeOK
<1>2. Spec => [](TypeOK /\ TheftInv /\ PushInv)
  BY TypeInit, <1>1, PTL DEF Spec
<1> QED
  BY <1>2, PTL

HIDE WorkerAssumption
HIDE HiveAssumption

----------------------------------------------------------------------------
(* What a step of one thread leaves to the others. *)

\* The calls between a queue operation and its counting, and those that will wake w.
IoCounting == {a \in Agents : call[a].at = "io_count"}
InCounting(w) == {a \in Agents : call[a].at = "in_count" /\ call[a].to = w}
Pushing(t) == {a \in Agents : call[a].at = "in_push" /\ call[a].task = t}
Coming(w) == {a \in Agents : call[a].at \in {"in_count", "wake"} /\ call[a].to = w}

\* Sets that differ in one element at most.
LEMMA CardChange ==
  ASSUME NEW S, NEW T, NEW e, IsFiniteSet(S), S \ {e} = T \ {e}
  PROVE  /\ IsFiniteSet(T) /\ Cardinality(S) \in Nat /\ Cardinality(T) \in Nat
         /\ e \in S /\ e \in T => Cardinality(T) = Cardinality(S)
         /\ e \notin S /\ e \notin T => Cardinality(T) = Cardinality(S)
         /\ e \notin S /\ e \in T => Cardinality(T) = Cardinality(S) + 1
         /\ e \in S /\ e \notin T => Cardinality(T) = Cardinality(S) - 1
<1>1. Cardinality(S) \in Nat
  BY FS_CardinalityType
<1>2. CASE (e \in S /\ e \in T) \/ (e \notin S /\ e \notin T)
  <2>1. S = T
    BY <1>2
  <2> QED
    BY <1>1, <1>2, <2>1
<1>3. CASE e \notin S /\ e \in T
  <2>1. T = S \cup {e}
    BY <1>3
  <2>2. IsFiniteSet(S \cup {e}) /\ Cardinality(S \cup {e}) = Cardinality(S) + 1
    BY <1>3, FS_AddElement
  <2>3. IsFiniteSet(T) /\ Cardinality(T) = Cardinality(S) + 1
    BY <2>1, <2>2, Zenon
  <2> QED
    BY <1>1, <1>3, <2>3
<1>4. CASE e \in S /\ e \notin T
  <2>1. T = S \ {e}
    BY <1>4
  <2>2. IsFiniteSet(S \ {e}) /\ Cardinality(S \ {e}) = Cardinality(S) - 1 /\ Cardinality(S \ {e}) \in Nat
    BY <1>4, FS_RemoveElement, FS_CardinalityType
  <2>3. IsFiniteSet(T) /\ Cardinality(T) = Cardinality(S) - 1 /\ Cardinality(T) \in Nat
    BY <2>1, <2>2, Zenon
  <2> QED
    BY <1>1, <1>4, <2>3
<1> QED
  BY <1>2, <1>3, <1>4

\* In its loop a worker goes between its own code and the body of a task.
LEMMA LoopCalls ==
  ASSUME TypeOK, NEW w \in Workers, Loop(w) \/ OtherEvent(w)
  PROVE  call' = call \/ (call[w].at \in {"none", "body"} /\ \E c \in {NoCall, Body} : call' = [call EXCEPT ![w] = c])
<1>1. ASSUME NEW t, Run(w, t), call[w] = NoCall PROVE call[w].at \in {"none", "body"} /\ call' = [call EXCEPT ![w] = Body]
  BY <1>1 DEF Run, NoCall
<1>2. CASE PrivateRun(w) \/ TimerRun(w) \/ LocalRun(w) \/ PlaceInline(w) \/ StealInline(w)
  BY <1>1, <1>2 DEF PrivateRun, TimerRun, LocalRun, PlaceInline, StealInline, StealPlaced, Goto
<1>3. CASE TaskReturns(w) \/ OtherEvent(w)
  BY <1>3 DEF TaskReturns, OtherEvent, Choose, Goto, NoCall, Body
<1> QED
  BY <1>2, <1>3
     DEF Loop, StartWakeup, LoopHead, PeekInbound, PeekLocal, PeekGlobal, SleepOn, WaitReturns,
         DispatchWakeup, SleepOff, Drain, DrainCount, Sort, PrivateCheck, TimersNow, TimerCheck,
         ExitCheck, LocalDone, LocalCheck, Harvest, HarvestCount, PlaceLocal, PlaceCheck, PlaceDone,
         StealTry, StealGiveUp, StealPush, StealNothing, StealPlaced, StealClaim, StealMove, StealStop,
         Leave, Timeout, Proceed, hiveVars

LEMMA LoopCallSets ==
  ASSUME TypeOK, NEW w \in Workers, Loop(w) \/ OtherEvent(w)
  PROVE  /\ IoCounting' = IoCounting
         /\ \A v \in Workers : InCounting(v)' = InCounting(v) /\ Coming(v)' = Coming(v)
         /\ \A t \in Task : Pushing(t)' = Pushing(t)
<1>1. call \in [Agents -> [at : CallLabels, task : Task \cup {NoTask}, to : Workers]] /\ w \in Agents
  BY WorkerFacts DEF TypeOK, CallTypeOK
<1>2. CASE call' = call
  BY <1>2 DEF IoCounting, InCounting, Coming, Pushing
<1>3. CASE call[w].at \in {"none", "body"} /\ \E c \in {NoCall, Body} : call' = [call EXCEPT ![w] = c]
  <2>1. /\ \A a \in Agents \ {w} : call'[a] = call[a]
        /\ call[w].at \in {"none", "body"} /\ call'[w].at \in {"none", "body"}
    BY <1>1, <1>3 DEF NoCall, Body
  <2> QED
    BY <2>1 DEF IoCounting, InCounting, Coming, Pushing
<1> QED
  BY <1>2, <1>3, LoopCalls

----------------------------------------------------------------------------
(* The approximate sizes. *)

\* What a worker has drained and not yet counted.
Uncounted(w) == IF pc[w] = "drain_count" THEN Len(hand[w]) ELSE 0

MailCountInv ==
  \A w \in Workers :
    /\ IsFiniteSet(InCounting(w))
    /\ inbound_approx[w] = Len(inbound[w]) - Cardinality(InCounting(w)) + Uncounted(w)

LEMMA MailCountNext ==
  ASSUME TypeOK, PushInv, MailCountInv, [Next]_vars
  PROVE  MailCountInv'
<1> USE WorkerFacts
<1>1. /\ call \in [Agents -> [at : CallLabels, task : Task \cup {NoTask}, to : Workers]]
      /\ inbound \in [Workers -> Seq(Task)] /\ inbound_approx \in [Workers -> Int]
      /\ hand \in [Workers -> Seq(Task)] /\ pc \in [Workers -> Labels]
  BY DEF TypeOK, CallTypeOK, QueueTypeOK, LoopTypeOK
<1>2. ASSUME UNCHANGED mail, \A v \in Workers : InCounting(v)' = InCounting(v) /\ Uncounted(v)' = Uncounted(v)
      PROVE  MailCountInv'
  BY <1>2 DEF MailCountInv, mail
<1>3. ASSUME NEW a \in Agents, NEW c, call' = [call EXCEPT ![a] = c], NEW v \in Workers
      PROVE  InCounting(v) \ {a} = InCounting(v)' \ {a}
  BY <1>1, <1>3 DEF InCounting
<1>4. ASSUME NEW a \in Agents, NEW c, call' = [call EXCEPT ![a] = c],
             call[a].at # "in_count", c.at # "in_count", NEW v \in Workers
      PROVE  InCounting(v)' = InCounting(v)
  BY <1>1, <1>4 DEF InCounting
<1>5. ASSUME UNCHANGED <<pc, hand>>, NEW v \in Workers PROVE Uncounted(v)' = Uncounted(v)
  BY <1>5 DEF Uncounted
\* A call that has pushed and still has to count.
<1>6. ASSUME NEW a \in Agents, NEW w \in Workers, NEW t \in Task, InboundPush(w, t), UNCHANGED <<pc, hand>>,
             call[a].at # "in_count", Continue(a, "in_count", t, w)
      PROVE  MailCountInv'
  <2>1. SUFFICES ASSUME NEW v \in Workers
                 PROVE  /\ IsFiniteSet(InCounting(v)')
                        /\ inbound_approx'[v] = Len(inbound'[v]) - Cardinality(InCounting(v)') + Uncounted(v)'
    BY DEF MailCountInv
  <2>2. call' = [call EXCEPT ![a] = [at |-> "in_count", task |-> t, to |-> w]]
    BY <1>6 DEF Continue
  <2>3. InCounting(v) \ {a} = InCounting(v)' \ {a} /\ Uncounted(v)' = Uncounted(v)
    BY <1>3, <1>5, <1>6, <2>2
  <2>4. a \notin InCounting(v) /\ (a \in InCounting(v)' <=> v = w)
    BY <1>1, <1>6, <2>2 DEF InCounting
  <2>5. /\ IsFiniteSet(InCounting(v)')
        /\ v = w => Cardinality(InCounting(v)') = Cardinality(InCounting(v)) + 1
        /\ v # w => Cardinality(InCounting(v)') = Cardinality(InCounting(v))
        /\ Cardinality(InCounting(v)) \in Nat
    BY <2>3, <2>4, CardChange DEF MailCountInv
  <2>6. inbound_approx'[v] = inbound_approx[v]
    BY <1>6 DEF InboundPush
  <2>7. v # w => inbound'[v] = inbound[v]
    BY <1>1, <1>6 DEF InboundPush
  <2>8. v = w => Len(inbound'[v]) = Len(inbound[v]) + 1
    BY <1>1, <1>6, AppendProperties DEF InboundPush
  <2>9. inbound_approx[v] = Len(inbound[v]) - Cardinality(InCounting(v)) + Uncounted(v)
    BY DEF MailCountInv
  <2>10. Len(inbound[v]) \in Nat /\ Uncounted(v) \in Nat
    BY <1>1, LenProperties DEF Uncounted
  <2>11. CASE v = w
    BY <2>3, <2>5, <2>6, <2>8, <2>9, <2>10, <2>11
  <2>12. CASE v # w
    BY <2>3, <2>5, <2>6, <2>7, <2>9, <2>12
  <2> QED
    BY <2>11, <2>12
<1>7. ASSUME NEW a \in Agents, ContinueCall(a), UNCHANGED locals PROVE MailCountInv'
  <2>1. CASE AddTimer(a)
    BY <1>1, <1>6, <1>7, <2>1 DEF AddTimer, PushInv, locals
  <2>2. CASE InCount(a)
    <3> DEFINE w == call[a].to
    <3>1. w \in Workers
      BY <1>1
    <3>2. SUFFICES ASSUME NEW v \in Workers
                   PROVE  /\ IsFiniteSet(InCounting(v)')
                          /\ inbound_approx'[v] = Len(inbound'[v]) - Cardinality(InCounting(v)') + Uncounted(v)'
      BY DEF MailCountInv
    <3>3. call' = [call EXCEPT ![a] = [at |-> "wake", task |-> call[a].task, to |-> w]] /\ call[a].at = "in_count"
      BY <2>2 DEF InCount, Continue
    <3>4. InCounting(v) \ {a} = InCounting(v)' \ {a} /\ Uncounted(v)' = Uncounted(v)
      BY <1>3, <1>5, <1>7, <3>3 DEF locals
    <3>5. a \notin InCounting(v)' /\ (a \in InCounting(v) <=> v = w)
      BY <1>1, <3>3 DEF InCounting
    <3>6. /\ IsFiniteSet(InCounting(v)')
          /\ v = w => Cardinality(InCounting(v)') = Cardinality(InCounting(v)) - 1
          /\ v # w => Cardinality(InCounting(v)') = Cardinality(InCounting(v))
          /\ Cardinality(InCounting(v)) \in Nat
      BY <3>4, <3>5, CardChange DEF MailCountInv
    <3>7. inbound'[v] = inbound[v] /\ (v # w => inbound_approx'[v] = inbound_approx[v])
      BY <1>1, <2>2, <3>1 DEF InCount
    <3>8. v = w => inbound_approx'[v] = inbound_approx[v] + 1
      BY <1>1, <2>2, <3>1 DEF InCount
    <3>9. inbound_approx[v] = Len(inbound[v]) - Cardinality(InCounting(v)) + Uncounted(v)
      BY DEF MailCountInv
    <3>10. Len(inbound[v]) \in Nat /\ Uncounted(v) \in Nat
      BY <1>1, LenProperties DEF Uncounted
    <3> HIDE DEF w
    <3>11. CASE v = w
      BY <3>4, <3>6, <3>7, <3>8, <3>9, <3>10, <3>11
    <3>12. CASE v # w
      BY <3>4, <3>6, <3>7, <3>9, <3>12
    <3> QED
      BY <3>11, <3>12
  <2>3. CASE IoCount(a) \/ IoScan(a) \/ Wake(a) \/ ExitStop(a) \/ ExitWake(a)
    <3>1. \E c : c.at # "in_count" /\ call[a].at # "in_count" /\ call' = [call EXCEPT ![a] = c]
      BY <2>3 DEF IoCount, IoScan, Wake, ExitStop, ExitWake, Continue, Return, NoCall, Body
    <3>2. \A v \in Workers : InCounting(v)' = InCounting(v) /\ Uncounted(v)' = Uncounted(v)
      BY <1>4, <1>5, <1>7, <3>1 DEF locals
    <3> QED
      BY <1>2, <2>3, <3>2 DEF IoCount, IoScan, Wake, ExitStop, ExitWake
  <2> QED
    BY <1>7, <2>1, <2>2, <2>3 DEF ContinueCall
<1>8. ASSUME NEW a \in Agents, StartCall(a), UNCHANGED locals PROVE MailCountInv'
  <2>1. ASSUME NEW t \in Task, NEW w \in Workers, postToWorker(a, w, t) PROVE MailCountInv'
    <3>1. call[a].at # "in_count"
      BY <2>1 DEF postToWorker, MayCall, NoCall, Body
    <3> QED
      BY <1>6, <1>8, <2>1, <3>1 DEF postToWorker, locals
  <2>2. CASE UNCHANGED mail
             /\ \/ UNCHANGED call
                \/ \E c : c.at # "in_count" /\ call[a].at # "in_count" /\ call' = [call EXCEPT ![a] = c]
    <3>1. \A v \in Workers : InCounting(v)' = InCounting(v) /\ Uncounted(v)' = Uncounted(v)
      BY <1>4, <1>5, <1>8, <2>2 DEF locals, InCounting
    <3> QED
      BY <1>2, <2>2, <3>1
  <2>3. ASSUME NEW t \in Task, NEW w \in Workers,
               \/ postIO(a, t) \/ postToLocal(a, w, t)
               \/ \E delay \in Delays : postDelayed(a, w, t, delay)
        PROVE  MailCountInv'
    BY <2>2, <2>3
       DEF postIO, postToLocal, postDelayed, MayCall, Continue, NoCall, Body
  <2>4. CASE requestExit(a) \/ \E w \in Workers : requestStop(a, w)
    BY <2>2, <2>4 DEF requestExit, requestStop, Exchange, MayCall, Continue, Return, NoCall, Body
  <2> QED
    BY <1>8, <2>1, <2>3, <2>4 DEF StartCall
<1>9. ASSUME NEW w \in Workers, Loop(w) \/ OtherEvent(w) PROVE MailCountInv'
  <2>1. \A v \in Workers : InCounting(v)' = InCounting(v)
    BY <1>9, LoopCallSets
  <2>2. \A v \in Workers \ {w} : Uncounted(v)' = Uncounted(v)
    BY <1>9, LoopMoves DEF Uncounted
  <2>3. CASE Drain(w)
    <3>1. SUFFICES ASSUME NEW v \in Workers
                   PROVE  inbound_approx'[v] = Len(inbound'[v]) - Cardinality(InCounting(v)) + Uncounted(v)'
      BY <2>1 DEF MailCountInv
    <3>2. inbound_approx' = inbound_approx
      BY <2>3 DEF Drain
    <3>3. inbound_approx[v] = Len(inbound[v]) - Cardinality(InCounting(v)) + Uncounted(v)
      BY DEF MailCountInv
    <3>4. CASE v # w
      BY <1>1, <2>2, <2>3, <3>2, <3>3, <3>4 DEF Drain
    <3>5. CASE v = w
      <4>1. inbound'[w] = <<>> /\ hand'[w] = inbound[w] /\ Uncounted(w) = 0
        BY <1>1, <2>3 DEF Drain, Choose, Goto, Uncounted
      <4>2. pc'[w] = IF inbound[w] = <<>> THEN "private" ELSE "drain_count"
        BY <1>1, <2>3 DEF Drain, Choose, Goto
      <4>3. Len(<<>>) = 0 /\ (inbound[w] = <<>> => Len(inbound[w]) = 0)
        BY EmptySeq
      <4>4. Uncounted(w)' = Len(inbound[w])
        BY <4>1, <4>2, <4>3 DEF Uncounted
      <4>5. Cardinality(InCounting(w)) \in Nat /\ Len(inbound[w]) \in Nat
        BY <1>1, LenProperties, FS_CardinalityType DEF MailCountInv
      <4>6. Len(inbound'[w]) = 0
        BY <4>1, <4>3
      <4> QED
        BY <3>2, <3>3, <3>5, <4>1, <4>4, <4>5, <4>6
    <3> QED
      BY <3>4, <3>5
  <2>4. CASE DrainCount(w)
    <3>1. SUFFICES ASSUME NEW v \in Workers
                   PROVE  inbound_approx'[v] = Len(inbound'[v]) - Cardinality(InCounting(v)) + Uncounted(v)'
      BY <2>1 DEF MailCountInv
    <3>2. inbound' = inbound
      BY <2>4 DEF DrainCount
    <3>3. inbound_approx[v] = Len(inbound[v]) - Cardinality(InCounting(v)) + Uncounted(v)
      BY DEF MailCountInv
    <3>4. CASE v # w
      BY <1>1, <2>2, <2>4, <3>2, <3>3, <3>4 DEF DrainCount
    <3>5. CASE v = w
      <4>1. Uncounted(w) = Len(hand[w]) /\ Uncounted(w)' = 0
        BY <1>1, <2>4 DEF DrainCount, Goto, Uncounted
      <4>2. inbound_approx'[w] = inbound_approx[w] - Len(hand[w])
        BY <1>1, <2>4 DEF DrainCount
      <4>3. Cardinality(InCounting(w)) \in Nat /\ Len(inbound[w]) \in Nat /\ Len(hand[w]) \in Nat
        BY <1>1, LenProperties, FS_CardinalityType DEF MailCountInv
      <4> QED
        BY <3>2, <3>3, <3>5, <4>1, <4>2, <4>3
    <3> QED
      BY <3>4, <3>5
  <2>5. CASE UNCHANGED mail /\ pc[w] # "drain_count" /\ pc'[w] # "drain_count"
    BY <1>2, <2>1, <2>2, <2>5 DEF Uncounted
  <2>6. CASE UNCHANGED mail /\ UNCHANGED <<pc, hand>>
    BY <1>2, <1>5, <2>1, <2>6
  <2>7. ASSUME NEW from, NEW to, Goto(w, from, to), from # "drain_count", to # "drain_count"
        PROVE  pc[w] # "drain_count" /\ pc'[w] # "drain_count"
    BY <1>1, <2>7 DEF Goto
  <2>8. CASE UNCHANGED mail /\ \E from, to : Goto(w, from, to) /\ from # "drain_count" /\ to # "drain_count"
    BY <2>5, <2>7, <2>8
  <2>9. CASE ExitCheck(w)
    <3>1. pc[w] # "drain_count"
      BY <2>9 DEF ExitCheck, TimersDone
    <3> QED
      BY <2>8, <2>9, <3>1 DEF ExitCheck, Choose, hiveVars
  <2> QED
    BY <1>9, <2>3, <2>4, <2>6, <2>8, <2>9
       DEF Loop, StartWakeup, LoopHead, PeekInbound, PeekLocal, PeekGlobal, SleepOn, WaitReturns,
           DispatchWakeup, SleepOff, Sort, PrivateRun, PrivateCheck, TimersNow,
           TimerRun, TimerCheck, LocalRun, LocalDone, LocalCheck, Harvest, HarvestCount,
           PlaceLocal, PlaceInline, PlaceCheck, PlaceDone, StealTry, StealGiveUp, StealPush,
           StealInline, StealNothing, StealPlaced, StealClaim, StealMove, StealStop, Leave, TaskReturns,
           OtherEvent, Timeout, Proceed, Choose,
           locals, hiveVars
<1>10. CASE Main \/ JoinCompute
  <2>1. UNCHANGED <<mail, hand>> /\ \E from, to : Goto(0, from, to) /\ from # "drain_count" /\ to # "drain_count"
    BY <1>10 DEF Main, LeaveMain, Join, JoinCompute, Exchange, Proceed, hiveVars
  <2>2. call[0] = NoCall /\ (UNCHANGED call \/ \E c : c.at # "in_count" /\ call' = [call EXCEPT ![0] = c])
    BY <1>10 DEF Main, LeaveMain, Join, JoinCompute, Exchange, Proceed, Goto, hiveVars, Continue, Return,
                 NoCall, Body
  <2>3. \A v \in Workers : InCounting(v)' = InCounting(v)
    BY <1>4, <2>2 DEF InCounting, NoCall
  <2>4. \A v \in Workers : Uncounted(v)' = Uncounted(v)
    BY <1>1, <2>1 DEF Goto, Uncounted
  <2> QED
    BY <1>2, <2>1, <2>3, <2>4
<1>11. CASE (Tick /\ UNCHANGED locals) \/ Finished \/ UNCHANGED vars
  <2>1. UNCHANGED <<mail, call, pc, hand>>
    BY <1>11 DEF Tick, Finished, vars, hiveVars, locals
  <2>2. \A v \in Workers : InCounting(v)' = InCounting(v) /\ Uncounted(v)' = Uncounted(v)
    BY <1>5, <2>1 DEF InCounting
  <2> QED
    BY <1>2, <2>1, <2>2
<1> QED
  BY <1>7, <1>8, <1>9, <1>10, <1>11 DEF Next, CallStep, Start

LEMMA MailCountInit == Init => MailCountInv
<1>1. ASSUME Init PROVE MailCountInv
  <2>1. \A w \in Workers : InCounting(w) = {} /\ inbound_approx[w] = 0 /\ inbound[w] = <<>> /\ Uncounted(w) = 0
    BY <1>1 DEF Init, HiveInit, WorkerInit, InCounting, NoCall, Uncounted
  <2>2. IsFiniteSet({}) /\ Cardinality({}) = 0 /\ Len(<<>>) = 0
    BY FS_EmptySet, EmptySeq
  <2>3. ASSUME NEW w \in Workers
        PROVE  /\ IsFiniteSet(InCounting(w))
               /\ inbound_approx[w] = Len(inbound[w]) - Cardinality(InCounting(w)) + Uncounted(w)
    <3>1. InCounting(w) = {} /\ inbound_approx[w] = 0 /\ inbound[w] = <<>> /\ Uncounted(w) = 0
      BY <2>1
    <3>2. IsFiniteSet(InCounting(w)) /\ Cardinality(InCounting(w)) = 0 /\ Len(inbound[w]) = 0
      BY <2>2, <3>1, Zenon
    <3> QED
      BY <3>1, <3>2
  <2> QED
    BY <2>3 DEF MailCountInv
<1> QED
  BY <1>1

----------------------------------------------------------------------------
(* No command is stranded. *)

\* A worker that runs its loop has attached its wakeup watcher.
AttachedInv == \A w \in Workers : pc[w] # "start" => w \in attached

LEMMA AttachedNext ==
  ASSUME TypeOK, AttachedInv, [Next]_vars
  PROVE  AttachedInv'
<1> USE WorkerFacts
<1>1. ASSUME NEW w \in Workers, w \in attached', attached \subseteq attached',
             \A v \in Workers \ {w} : pc'[v] = pc[v]
      PROVE  AttachedInv'
  BY <1>1 DEF AttachedInv
<1>2. ASSUME UNCHANGED <<pc, attached>> PROVE AttachedInv'
  BY <1>2 DEF AttachedInv
<1>3. ASSUME NEW w \in Workers, Loop(w) \/ OtherEvent(w) PROVE AttachedInv'
  <2>1. \A v \in Workers \ {w} : pc'[v] = pc[v]
    BY <1>3, LoopMoves
  <2>2. CASE StartWakeup(w)
    BY <1>1, <2>1, <2>2 DEF StartWakeup
  <2>3. ASSUME NEW from, from # "start", pc[w] = from, UNCHANGED attached PROVE AttachedInv'
    BY <1>1, <2>1, <2>3 DEF AttachedInv
  <2>4. CASE TaskReturns(w)
    BY <1>2, <2>4 DEF TaskReturns, locals, setup
  <2> QED
    BY <1>3, <2>2, <2>3, <2>4
       DEF Loop, LoopHead, PeekInbound, PeekLocal, PeekGlobal, SleepOn, WaitReturns,
           DispatchWakeup, SleepOff, Drain, DrainCount, Sort, PrivateRun, PrivateCheck, TimersNow,
           TimerRun, TimerCheck, ExitCheck, TimersDone, LocalRun, LocalDone, LocalCheck, Harvest,
           HarvestCount, PlaceLocal, PlaceInline, PlaceCheck, PlaceDone, StealTry, StealGiveUp,
           StealPush, StealInline, StealNothing, StealPlaced, StealClaim, StealMove, StealStop, Leave,
           OtherEvent, Timeout, Proceed,
           Choose, Goto, hiveVars, setup
<1>4. CASE Main \/ JoinCompute
  BY <1>1, <1>4 DEF Main, LeaveMain, Join, JoinCompute, Exchange, Proceed, Goto, AttachedInv, TypeOK,
                    LoopTypeOK, hiveVars, setup
<1>5. ASSUME NEW a \in Agents, CallStep(a) \/ Start(a) PROVE AttachedInv'
  BY <1>2, <1>5
     DEF CallStep, Start, ContinueCall, IoCount, IoScan, Wake, AddTimer, InCount, ExitStop, ExitWake,
         StartCall, postIO, postToLocal, postToWorker, postDelayed, requestExit, Exchange, requestStop,
         locals, setup
<1>6. CASE (Tick /\ UNCHANGED locals) \/ Finished \/ UNCHANGED vars
  BY <1>2, <1>6 DEF Tick, Finished, vars, hiveVars, locals, setup
<1> QED
  BY <1>3, <1>4, <1>5, <1>6 DEF Next

\* The worker has found its inbound count zero and will wait for ever or for a timer.
MayBlock(w) ==
  \/ pc[w] \in {"peek_local", "peek_global", "sleep_on"}
  \/ pc[w] = "wait" /\ timeout_ms[w] # 0

Reachable(w) == inbound[w] = <<>> \/ w \in token \/ Coming(w) # {}

StrandInv == \A w \in Workers : MayBlock(w) => Reachable(w)

LEMMA NotifyWorks ==
  ASSUME TypeOK, "MACOS_POLL" \notin Backends
  PROVE  Notifies(WorkerWakeUp[backend], TRUE)
<1>1. backend \in BackendTypes \ {"MACOS_POLL"}
  BY HiveAssumption DEF TypeOK, FlagTypeOK
<1> QED
  BY <1>1
     DEF BackendTypes, LoopWakeUp, WorkerWakeUp, Notifies, Watcher, EpollWorkerWakeUpWatcher,
         PollWorkerWakeUpWatcher, KqueueWorkerWakeUpWatcher, CocoaWorkerWakeUpWatcher,
         Win32WorkerWakeUpWatcher, IocpWorkerWakeUpWatcher

LEMMA StrandNext ==
  ASSUME TypeOK, PushInv, MailCountInv, AttachedInv, StrandInv, "MACOS_POLL" \notin Backends, [Next]_vars
  PROVE  StrandInv'
<1> USE WorkerFacts
<1>1. /\ call \in [Agents -> [at : CallLabels, task : Task \cup {NoTask}, to : Workers]]
      /\ inbound \in [Workers -> Seq(Task)] /\ inbound_approx \in [Workers -> Int]
      /\ pc \in [Workers -> Labels] /\ timeout_ms \in [Workers -> -1 .. MaxClock]
  BY DEF TypeOK, CallTypeOK, QueueTypeOK, LoopTypeOK
<1>2. ASSUME NEW w \in Workers, MayBlock(w) => Reachable(w), UNCHANGED inbound, token \subseteq token',
             Coming(w) \subseteq Coming(w)', MayBlock(w)' => MayBlock(w)
      PROVE  MayBlock(w)' => Reachable(w)'
  BY <1>2 DEF Reachable
\* Only wakeup ends a call that was going to wake w.
<1>3. ASSUME NEW a \in Agents, NEW c, call' = [call EXCEPT ![a] = c], NEW w \in Workers,
             a \in Coming(w) => c.at \in {"in_count", "wake"} /\ c.to = w
      PROVE  Coming(w) \subseteq Coming(w)'
  BY <1>1, <1>3 DEF Coming
<1>4. ASSUME UNCHANGED <<pc, timeout_ms>>, NEW w \in Workers PROVE MayBlock(w)' = MayBlock(w)
  BY <1>4 DEF MayBlock
\* A call that pushes a command will wake the worker.
<1>5. ASSUME NEW a \in Agents, NEW w \in Workers, NEW t \in Task, InboundPush(w, t), UNCHANGED locals,
             call[a].at \notin {"in_count", "wake"}, Continue(a, "in_count", t, w), token \subseteq token'
      PROVE  StrandInv'
  <2>1. SUFFICES ASSUME NEW v \in Workers PROVE MayBlock(v)' => Reachable(v)'
    BY DEF StrandInv
  <2>2. CASE v = w
    <3>1. a \in Coming(w)'
      BY <1>1, <1>5 DEF Coming, Continue
    <3> QED
      BY <2>2, <3>1 DEF Reachable
  <2>3. CASE v # w
    <3>1. inbound'[v] = inbound[v] /\ Coming(v) \subseteq Coming(v)'
      BY <1>1, <1>3, <1>5, <2>3 DEF InboundPush, Continue, Coming
    <3> QED
      BY <1>4, <1>5, <3>1 DEF Reachable, StrandInv, locals
  <2> QED
    BY <2>2, <2>3
<1>6. ASSUME NEW a \in Agents, NEW c, call' = [call EXCEPT ![a] = c] \/ UNCHANGED call, UNCHANGED <<inbound, locals>>,
             token \subseteq token',
             \A w \in Workers : a \in Coming(w) => c.at \in {"in_count", "wake"} /\ c.to = w
      PROVE  StrandInv'
  <2>1. SUFFICES ASSUME NEW w \in Workers PROVE MayBlock(w)' => Reachable(w)'
    BY DEF StrandInv
  <2>2. Coming(w) \subseteq Coming(w)'
    BY <1>3, <1>6 DEF Coming
  <2> QED
    BY <1>2, <1>4, <1>6, <2>2 DEF StrandInv, locals
<1>7. ASSUME NEW a \in Agents, ContinueCall(a), UNCHANGED locals PROVE StrandInv'
  <2>1. CASE AddTimer(a)
    BY <1>1, <1>5, <1>7, <2>1 DEF AddTimer, PushInv
  <2>2. CASE Wake(a)
    <3> DEFINE w == call[a].to
    <3>1. w \in Workers /\ UNCHANGED inbound /\ token \subseteq token'
      BY <1>1, <2>2 DEF Wake, wakeup, mail
    <3>2. SUFFICES ASSUME NEW v \in Workers PROVE MayBlock(v)' => Reachable(v)'
      BY DEF StrandInv
    <3>3. CASE v = w
      <4>1. MayBlock(w) => w \in attached
        BY <1>1, <3>1 DEF AttachedInv, MayBlock
      <4>2. w \in attached => w \in token'
        BY <2>2, NotifyWorks DEF Wake, wakeup
      <4> QED
        BY <1>4, <1>7, <3>1, <3>3, <4>1, <4>2 DEF Reachable, locals
    <3>4. CASE v # w
      <4>1. \E c : call' = [call EXCEPT ![a] = c]
        BY <2>2 DEF Wake, Return
      <4>2. Coming(v) \subseteq Coming(v)'
        BY <1>1, <3>4, <4>1 DEF Coming
      <4> QED
        BY <1>2, <1>4, <1>7, <3>1, <4>2 DEF StrandInv, locals
    <3> QED
      BY <3>3, <3>4
  <2>3. CASE InCount(a)
    <3>1. call' = [call EXCEPT ![a] = [at |-> "wake", task |-> call[a].task, to |-> call[a].to]]
      BY <2>3 DEF InCount, Continue
    <3>2. \A w \in Workers : a \in Coming(w) => call[a].to = w
      BY DEF Coming
    <3>3. UNCHANGED <<inbound, token>>
      BY <2>3 DEF InCount
    <3>4. [at |-> "wake", task |-> call[a].task, to |-> call[a].to].at = "wake"
          /\ [at |-> "wake", task |-> call[a].task, to |-> call[a].to].to = call[a].to
      OBVIOUS
    <3> QED
      BY <1>6, <1>7, <3>1, <3>2, <3>3, <3>4
  <2>4. CASE IoCount(a) \/ IoScan(a) \/ ExitStop(a) \/ ExitWake(a)
    <3>1. UNCHANGED inbound /\ token \subseteq token' /\ \E c : call' = [call EXCEPT ![a] = c]
      BY <2>4 DEF IoCount, IoScan, ExitStop, ExitWake, wakeup, Continue, Return, mail
    <3>2. \A w \in Workers : a \notin Coming(w)
      BY <2>4 DEF IoCount, IoScan, ExitStop, ExitWake, Coming
    <3> QED
      BY <1>6, <1>7, <3>1, <3>2
  <2> QED
    BY <1>7, <2>1, <2>2, <2>3, <2>4 DEF ContinueCall
<1>8. ASSUME NEW a \in Agents, StartCall(a), UNCHANGED locals PROVE StrandInv'
  <2>1. ASSUME NEW t \in Task, NEW w \in Workers, postToWorker(a, w, t) PROVE StrandInv'
    <3>1. call[a].at \notin {"in_count", "wake"}
      BY <2>1 DEF postToWorker, MayCall, NoCall, Body
    <3> QED
      BY <1>5, <1>8, <2>1, <3>1 DEF postToWorker
  <2>2. CASE UNCHANGED <<inbound, token>> /\ call[a].at \in {"none", "body"}
             /\ (UNCHANGED call \/ \E c : call' = [call EXCEPT ![a] = c])
    <3>1. \A w \in Workers : a \notin Coming(w)
      BY <2>2 DEF Coming
    <3> QED
      BY <1>6, <1>8, <2>2, <3>1
  <2>3. ASSUME NEW t \in Task, NEW w \in Workers,
               \/ postIO(a, t) \/ postToLocal(a, w, t)
               \/ \E delay \in Delays : postDelayed(a, w, t, delay)
        PROVE  StrandInv'
    BY <2>2, <2>3
       DEF postIO, postToLocal, postDelayed, MayCall, Continue, NoCall, Body, mail
  <2>4. CASE requestExit(a) \/ \E w \in Workers : requestStop(a, w)
    BY <2>2, <2>4 DEF requestExit, requestStop, Exchange, MayCall, Continue, Return, NoCall, Body, mail
  <2> QED
    BY <1>8, <2>1, <2>3, <2>4 DEF StartCall
<1>9. ASSUME NEW w \in Workers, Loop(w) \/ OtherEvent(w) PROVE StrandInv'
  <2>1. \A v \in Workers : Coming(v)' = Coming(v)
    BY <1>9, LoopCallSets
  <2>2. \A v \in Workers \ {w} : MayBlock(v)' = MayBlock(v)
    BY <1>9, LoopMoves DEF MayBlock
  <2>3. \A v \in Workers \ {w} : inbound'[v] = inbound[v] /\ (v \in token => v \in token')
    <3>1. inbound' = inbound \/ inbound' = [inbound EXCEPT ![w] = <<>>]
      BY <1>9
         DEF Loop, StartWakeup, LoopHead, PeekInbound, PeekLocal, PeekGlobal, SleepOn, WaitReturns,
             DispatchWakeup, SleepOff, Drain, DrainCount, Sort, PrivateRun, PrivateCheck,
             TimersNow, TimerRun, TimerCheck, ExitCheck, LocalRun, LocalDone, LocalCheck, Harvest,
             HarvestCount, PlaceLocal, PlaceInline, PlaceCheck, PlaceDone, StealTry, StealGiveUp,
             StealPush, StealInline, StealNothing, StealPlaced, StealClaim, StealMove, StealStop, Leave,
             TaskReturns, OtherEvent, Timeout, Proceed,
             hiveVars, mail
    <3>2. token' = token \/ token' = token \ {w}
      BY <1>9
         DEF Loop, StartWakeup, LoopHead, PeekInbound, PeekLocal, PeekGlobal, SleepOn, WaitReturns,
             TakenByWait, DispatchWakeup, SleepOff, Drain, DrainCount, Sort, PrivateRun, PrivateCheck,
             TimersNow, TimerRun, TimerCheck, ExitCheck, LocalRun, LocalDone, LocalCheck, Harvest,
             HarvestCount, PlaceLocal, PlaceInline, PlaceCheck, PlaceDone, StealTry, StealGiveUp,
             StealPush, StealInline, StealNothing, StealPlaced, StealClaim, StealMove, StealStop, Leave,
             TaskReturns, OtherEvent, Timeout, Proceed,
             hiveVars
    <3> QED
      BY <1>1, <3>1, <3>2
  <2>4. \A v \in Workers \ {w} : MayBlock(v)' => Reachable(v)'
    BY <2>1, <2>2, <2>3 DEF StrandInv, Reachable
  <2>5. MayBlock(w)' => Reachable(w)'
    \* The inbound count is zero: whatever is queued, its call still has to count it.
    <3>1. CASE PeekInbound(w)
      <4>1. CASE ~ (Exiting(w) \/ inbound_approx[w] # 0 \/ private_queue[w] # <<>>)
        <5>1. pc[w] = "peek_in" /\ inbound_approx[w] = 0 /\ UNCHANGED <<inbound, token>>
          BY <3>1, <4>1 DEF PeekInbound, Proceed, Goto, hiveVars, mail
        <5>2. Len(inbound[w]) = Cardinality(InCounting(w))
          <6>1. inbound_approx[w] = Len(inbound[w]) - Cardinality(InCounting(w)) + 0
            BY <5>1 DEF MailCountInv, Uncounted
          <6>2. Len(inbound[w]) \in Nat /\ Cardinality(InCounting(w)) \in Nat
            BY <1>1, LenProperties, FS_CardinalityType DEF MailCountInv
          <6> QED
            BY <5>1, <6>1, <6>2
        <5>3. inbound[w] = <<>> \/ Coming(w) # {}
          <6>1. CASE Coming(w) = {}
            <7>1. InCounting(w) = {}
              BY <6>1 DEF Coming, InCounting
            <7>2. Cardinality(InCounting(w)) = 0
              BY <7>1, FS_EmptySet
            <7> QED
              BY <1>1, <5>2, <7>2, EmptySeq
          <6> QED
            BY <6>1
        <5> QED
          BY <2>1, <5>1, <5>3 DEF Reachable
      <4>2. CASE Timeout(w, "peek_in", 0)
        BY <1>1, <4>2 DEF Timeout, Choose, Goto, MayBlock
      <4> QED
        BY <3>1, <4>1, <4>2 DEF PeekInbound
    <3>2. ASSUME MayBlock(w), UNCHANGED <<inbound, token>> PROVE Reachable(w)'
      BY <2>1, <3>2 DEF StrandInv, Reachable
    <3>3. CASE PeekLocal(w) \/ PeekGlobal(w) \/ SleepOn(w)
      <4>1. MayBlock(w) /\ UNCHANGED <<inbound, token>>
        BY <3>3 DEF PeekLocal, PeekGlobal, SleepOn, Timeout, Proceed, Choose, Goto, MayBlock, hiveVars, mail
      <4> QED
        BY <3>2, <4>1
    <3>4. ASSUME NEW from, NEW to, Goto(w, from, to), to \notin {"peek_local", "peek_global", "sleep_on", "wait"}
          PROVE  ~MayBlock(w)'
      BY <1>1, <3>4 DEF Goto, MayBlock
    <3>6. CASE \E from, to : Goto(w, from, to) /\ to \notin {"peek_local", "peek_global", "sleep_on", "wait"}
      BY <3>4, <3>6
    <3>5. CASE TaskReturns(w)
      <4>1. MayBlock(w)' = MayBlock(w)
        BY <1>4, <3>5 DEF TaskReturns, locals
      <4> QED
        BY <3>2, <3>5, <4>1 DEF TaskReturns, mail
    <3>7. CASE \/ StartWakeup(w) \/ LoopHead(w) \/ WaitReturns(w) \/ DispatchWakeup(w) \/ SleepOff(w)
               \/ Drain(w) \/ DrainCount(w) \/ Sort(w)
      BY <3>6, <3>7
         DEF StartWakeup, LoopHead, WaitReturns, DispatchWakeup, SleepOff, Drain, DrainCount, Sort, Proceed,
             Choose
    <3>10. CASE \/ PrivateRun(w) \/ PrivateCheck(w) \/ TimersNow(w) \/ TimerRun(w) \/ TimerCheck(w)
                \/ ExitCheck(w) \/ OtherEvent(w)
      BY <3>6, <3>10
         DEF PrivateRun, PrivateCheck, TimersNow, TimerRun, TimerCheck, ExitCheck, OtherEvent, Proceed, Choose
    <3>8. CASE \/ LocalRun(w) \/ LocalDone(w) \/ LocalCheck(w) \/ Harvest(w) \/ HarvestCount(w)
               \/ PlaceLocal(w) \/ PlaceInline(w) \/ PlaceCheck(w) \/ PlaceDone(w) \/ StealTry(w)
               \/ StealGiveUp(w)
      BY <3>6, <3>8
         DEF LocalRun, LocalDone, LocalCheck, Harvest, HarvestCount, PlaceLocal, PlaceInline, PlaceCheck,
             PlaceDone, StealTry, StealGiveUp, Proceed, Choose
    <3>9. CASE \/ StealPush(w) \/ StealInline(w) \/ StealNothing(w) \/ StealClaim(w) \/ StealMove(w)
               \/ StealStop(w) \/ Leave(w)
      BY <3>6, <3>9
         DEF StealPush, StealInline, StealNothing, StealPlaced, StealClaim, StealMove, StealStop, Leave,
             Proceed, Choose
    <3> QED
      BY <1>9, <3>1, <3>3, <3>5, <3>7, <3>8, <3>9, <3>10 DEF Loop
  <2> QED
    BY <2>4, <2>5 DEF StrandInv
<1>10. CASE Main \/ JoinCompute
  <2>1. UNCHANGED <<inbound, token, timeout_ms>> /\ \E from, to : Goto(0, from, to) /\ to \in {"join", "join_compute", "stopped"}
    BY <1>10 DEF Main, LeaveMain, Join, JoinCompute, Exchange, Proceed, hiveVars, mail
  <2>2. call[0] = NoCall /\ (UNCHANGED call \/ \E c : call' = [call EXCEPT ![0] = c])
    BY <1>10 DEF Main, LeaveMain, Join, JoinCompute, Exchange, Proceed, Goto, hiveVars, Continue, Return
  <2>5. 0 \in Agents /\ call[0].at = "none"
    BY <2>2 DEF NoCall
  <2>3. \A v \in Workers : Coming(v) \subseteq Coming(v)'
    <3>1. \A a \in Agents \ {0} : call'[a] = call[a]
      BY <1>1, <2>2, <2>5
    <3> QED
      BY <2>5, <3>1 DEF Coming
  <2>4. \A v \in Workers : MayBlock(v)' => MayBlock(v)
    BY <1>1, <2>1 DEF Goto, MayBlock
  <2> QED
    BY <1>2, <2>1, <2>3, <2>4 DEF StrandInv
<1>11. CASE (Tick /\ UNCHANGED locals) \/ Finished \/ UNCHANGED vars
  <2>1. UNCHANGED <<inbound, token, call, pc, timeout_ms>>
    BY <1>11 DEF Tick, Finished, vars, hiveVars, locals, mail
  <2>2. \A v \in Workers : Coming(v)' = Coming(v) /\ MayBlock(v)' = MayBlock(v)
    BY <1>4, <2>1 DEF Coming
  <2> QED
    BY <1>2, <2>1, <2>2 DEF StrandInv
<1> QED
  BY <1>7, <1>8, <1>9, <1>10, <1>11 DEF Next, CallStep, Start

\* A worker never blocks on a command (postToWorker, postDelayed): while it waits and
\* its inbound queue is not empty, its wakeup channel holds a notification or the
\* pushing call is still going to leave one.  The hypothesis is that of the code:
\* IOWorker::bind makes no wakeup watcher for poll on macOS.
THEOREM CommandsReachWorker ==
  ASSUME "MACOS_POLL" \notin Backends
  PROVE  Spec => []NoStrandedInbound
<1> DEFINE Inv == TypeOK /\ TheftInv /\ PushInv /\ MailCountInv /\ AttachedInv /\ StrandInv
<1>1. Init => Inv
  <2>1. Init => AttachedInv /\ StrandInv
    BY DEF Init, HiveInit, WorkerInit, AttachedInv, StrandInv, MayBlock
  <2> QED
    BY <2>1, TypeInit, MailCountInit
<1>2. Inv /\ [Next]_vars => Inv'
  BY CallTypesNext, FlagTypesNext, QueueTypesNext, DequeTypesNext, LoopTypesNext, TheftNext, PushNext, MailCountNext,
     AttachedNext, StrandNext DEF TypeOK
<1>3. Inv => NoStrandedInbound
  BY DEF StrandInv, MayBlock, Reachable, Coming, NoStrandedInbound
<1> HIDE DEF Inv
<1> QED
  BY <1>1, <1>2, <1>3, PTL DEF Spec

----------------------------------------------------------------------------
(* The approximate size of the global pool. *)

LEMMA PairsOf ==
  ASSUME NEW w, NEW n \in Nat
  PROVE  IsFiniteSet({w} \X (1 .. n)) /\ Cardinality({w} \X (1 .. n)) = n
<1>1. IsFiniteSet({w}) /\ Cardinality({w}) = 1
  BY FS_Singleton
<1>2. IsFiniteSet(1 .. n) /\ Cardinality(1 .. n) = n
  <2>1. 1 \in Int /\ n \in Int /\ (IF 1 > n THEN 0 ELSE n - 1 + 1) = n
    OBVIOUS
  <2> QED
    BY <2>1, FS_Interval
<1> DEFINE S == {w}
           T == 1 .. n
<1>3. IsFiniteSet(S) /\ IsFiniteSet(T) /\ Cardinality(S) = 1 /\ Cardinality(T) = n
  BY <1>1, <1>2
<1> HIDE DEF S, T
<1>4. IsFiniteSet(S \X T) /\ Cardinality(S \X T) = Cardinality(S) * Cardinality(T)
  BY <1>3, FS_Product, Zenon
<1>5. IsFiniteSet(S \X T) /\ Cardinality(S \X T) = 1 * n
  BY <1>3, <1>4, Zenon
<1>6. 1 * n = n
  OBVIOUS
<1>7. IsFiniteSet(S \X T) /\ Cardinality(S \X T) = n
  BY <1>5, <1>6, Zenon
<1> QED
  BY <1>7, Zenon DEF S, T

LEMMA DisjointUnion ==
  ASSUME NEW S, NEW T, IsFiniteSet(S), IsFiniteSet(T), S \cap T = {}
  PROVE  IsFiniteSet(S \cup T) /\ Cardinality(S \cup T) = Cardinality(S) + Cardinality(T)
<1>1. IsFiniteSet(S \cup T)
      /\ Cardinality(S \cup T) = Cardinality(S) + Cardinality(T) - Cardinality(S \cap T)
  BY FS_Union
<1>2. Cardinality(S \cap T) = 0
  BY FS_EmptySet, Zenon
<1>3. Cardinality(S) \in Nat /\ Cardinality(T) \in Nat
  BY FS_CardinalityType
<1> QED
  BY <1>1, <1>2, <1>3

\* The tasks that workers have harvested and not yet counted.
Harvested == {p \in Workers \X Nat : pc[p[1]] = "harvest_count" /\ p[2] \in 1 .. Len(hand[p[1]])}

PoolCountInv ==
  /\ IsFiniteSet(IoCounting) /\ IsFiniteSet(Harvested)
  /\ q_approx = Len(q) - Cardinality(IoCounting) + Cardinality(Harvested)

LEMMA PoolCountNext ==
  ASSUME TypeOK, PoolCountInv, [Next]_vars
  PROVE  PoolCountInv'
<1> USE WorkerFacts
<1>1. /\ call \in [Agents -> [at : CallLabels, task : Task \cup {NoTask}, to : Workers]]
      /\ q \in Seq(Task) /\ q_approx \in Int
      /\ hand \in [Workers -> Seq(Task)] /\ pc \in [Workers -> Labels]
  BY DEF TypeOK, CallTypeOK, QueueTypeOK, LoopTypeOK
<1>2. Cardinality(IoCounting) \in Nat /\ Cardinality(Harvested) \in Nat /\ Len(q) \in Nat
  BY <1>1, FS_CardinalityType, LenProperties DEF PoolCountInv
<1>3. ASSUME UNCHANGED pool, IoCounting' = IoCounting, Harvested' = Harvested PROVE PoolCountInv'
  BY <1>3 DEF PoolCountInv, pool
<1>5. ASSUME UNCHANGED <<pc, hand>> PROVE Harvested' = Harvested
  BY <1>5 DEF Harvested
<1>6. ASSUME NEW w \in Workers, pc[w] # "harvest_count", pc'[w] # "harvest_count",
             \A v \in Workers \ {w} : pc'[v] = pc[v] /\ hand'[v] = hand[v]
      PROVE  Harvested' = Harvested
  BY <1>6 DEF Harvested
\* A push into the pool that still has to be counted.
<1>7. ASSUME NEW a \in Agents, NEW t \in Task, GlobalPush(t), UNCHANGED <<pc, hand>>,
             call[a].at # "io_count", Continue(a, "io_count", t, 0)
      PROVE  PoolCountInv'
  <2>4. IoCounting \ {a} = IoCounting' \ {a} /\ a \notin IoCounting /\ a \in IoCounting'
    BY <1>1, <1>7 DEF IoCounting, Continue
  <2>1. /\ IsFiniteSet(IoCounting') /\ Cardinality(IoCounting') = Cardinality(IoCounting) + 1
    BY <2>4, CardChange DEF PoolCountInv
  <2>2. Harvested' = Harvested
    BY <1>5, <1>7
  <2>3. Len(q') = Len(q) + 1 /\ q_approx' = q_approx
    BY <1>1, <1>7, AppendProperties DEF GlobalPush
  <2> QED
    BY <1>2, <2>1, <2>2, <2>3 DEF PoolCountInv
<1>8. ASSUME NEW a \in Agents, UNCHANGED <<pool, pc, hand>>,
             \/ UNCHANGED call
             \/ \E c : call[a].at # "io_count" /\ c.at # "io_count" /\ call' = [call EXCEPT ![a] = c]
      PROVE  PoolCountInv'
  <2>1. IoCounting' = IoCounting
    BY <1>1, <1>8 DEF IoCounting
  <2> QED
    BY <1>3, <1>5, <1>8, <2>1
<1>9. ASSUME NEW a \in Agents, ContinueCall(a), UNCHANGED locals PROVE PoolCountInv'
  <2>1. CASE IoCount(a)
    <3>1. call[a].at = "io_count" /\ call' = [call EXCEPT ![a] = [at |-> "io_scan", task |-> call[a].task, to |-> 0]]
      BY <2>1 DEF IoCount, Continue
    <3>5. IoCounting \ {a} = IoCounting' \ {a} /\ a \in IoCounting /\ a \notin IoCounting'
      BY <1>1, <3>1 DEF IoCounting
    <3>2. /\ IsFiniteSet(IoCounting') /\ Cardinality(IoCounting') = Cardinality(IoCounting) - 1
      BY <3>5, CardChange DEF PoolCountInv
    <3>3. Harvested' = Harvested
      BY <1>5, <1>9 DEF locals
    <3>4. q' = q /\ q_approx' = q_approx + 1
      BY <2>1 DEF IoCount
    <3> QED
      BY <1>1, <1>2, <3>2, <3>3, <3>4 DEF PoolCountInv
  <2>2. CASE IoScan(a) \/ Wake(a) \/ AddTimer(a) \/ InCount(a) \/ ExitStop(a) \/ ExitWake(a)
    BY <1>8, <1>9, <2>2
       DEF IoScan, Wake, AddTimer, InCount, ExitStop, ExitWake, Continue, Return, NoCall, Body, locals
  <2> QED
    BY <1>9, <2>1, <2>2 DEF ContinueCall
<1>10. ASSUME NEW a \in Agents, StartCall(a), UNCHANGED locals PROVE PoolCountInv'
  <2>1. ASSUME NEW t \in Task, NEW w \in Workers, postIO(a, t) \/ (postToLocal(a, w, t) /\ ~ (a = w /\ HasRoom(w)))
        PROVE  PoolCountInv'
    BY <1>7, <1>10, <2>1 DEF postIO, postToLocal, MayCall, NoCall, Body, locals
  <2>2. ASSUME NEW t \in Task, NEW w \in Workers, postToLocal(a, w, t), a = w, HasRoom(w) PROVE PoolCountInv'
    BY <1>8, <1>10, <2>2 DEF postToLocal, locals
  <2>3. ASSUME NEW t \in Task, NEW w \in Workers,
               postToWorker(a, w, t) \/ \E delay \in Delays : postDelayed(a, w, t, delay)
        PROVE  PoolCountInv'
    BY <1>8, <1>10, <2>3 DEF postToWorker, postDelayed, MayCall, Continue, NoCall, Body, locals
  <2>4. CASE requestExit(a) \/ \E w \in Workers : requestStop(a, w)
    BY <1>8, <1>10, <2>4 DEF requestExit, requestStop, Exchange, MayCall, Continue, Return, NoCall, Body,
                             locals
  <2> QED
    BY <1>10, <2>1, <2>2, <2>3, <2>4 DEF StartCall
<1>11. ASSUME NEW w \in Workers, Loop(w) \/ OtherEvent(w) PROVE PoolCountInv'
  <2>1. IoCounting' = IoCounting
    BY <1>11, LoopCallSets
  <2>2. \A v \in Workers \ {w} : pc'[v] = pc[v] /\ hand'[v] = hand[v]
    BY <1>11, LoopMoves
  <2>3. CASE Harvest(w)
    <3> DEFINE new == {w} \X (1 .. BatchSize)
    <3>1. BatchSize \in 0 .. Len(q) /\ (q # <<>> => BatchSize > 0) /\ Len(SubSeq(q, 1, BatchSize)) = BatchSize
          /\ Len(SubSeq(q, BatchSize + 1, Len(q))) = Len(q) - BatchSize
      BY <1>1, HarvestSplit
    <3>2. q' = SubSeq(q, BatchSize + 1, Len(q)) /\ hand'[w] = SubSeq(q, 1, BatchSize) /\ q_approx' = q_approx
          /\ pc[w] = "harvest" /\ pc'[w] = IF q = <<>> THEN "steal" ELSE "harvest_count"
      BY <1>1, <2>3 DEF Harvest, Choose, Goto
    <3>3. Len(hand'[w]) = BatchSize /\ Len(q') = Len(q) - BatchSize
      BY <3>1, <3>2
    <3>4. CASE q # <<>>
      <4>1. BatchSize \in Nat
        BY <1>2, <3>1
      <4>2. IsFiniteSet(new) /\ Cardinality(new) = BatchSize
        BY <4>1, PairsOf
      <4>3. \A i \in 1 .. BatchSize : i \in Nat
        BY <4>1
      <4>4. \A p : p \in Harvested' <=> p \in Harvested \cup new
        <5>1. \A v \in Workers, i \in Nat : <<v, i>> \in Harvested' <=> <<v, i>> \in Harvested \cup new
          BY <2>2, <3>2, <3>3, <3>4, <4>3 DEF Harvested
        <5>2. \A p : p \in Harvested' \/ p \in Harvested \cup new => p \in Workers \X Nat
          BY <4>3 DEF Harvested
        <5> HIDE DEF new
        <5>3. ASSUME NEW p \in Workers \X Nat PROVE p \in Harvested' <=> p \in Harvested \cup new
          <6>1. p[1] \in Workers /\ p[2] \in Nat /\ p = <<p[1], p[2]>>
            OBVIOUS
          <6> QED
            BY <5>1, <6>1, Zenon
        <5> QED
          BY <5>2, <5>3, Zenon
      <4>5. Harvested \cap new = {}
        BY <3>2 DEF Harvested
      <4> HIDE DEF new
      <4>6. Harvested' = Harvested \cup new
        BY <4>4
      <4>7. IsFiniteSet(Harvested \cup new) /\ Cardinality(Harvested \cup new) = Cardinality(Harvested) + BatchSize
        BY <4>2, <4>5, DisjointUnion DEF PoolCountInv
      <4>8. IsFiniteSet(Harvested') /\ Cardinality(Harvested') = Cardinality(Harvested) + BatchSize
        BY <4>6, <4>7, Zenon
      <4>9. q_approx = Len(q) - Cardinality(IoCounting) + Cardinality(Harvested)
        BY DEF PoolCountInv
      <4>10. q_approx' = Len(q') - Cardinality(IoCounting) + Cardinality(Harvested')
        BY <1>2, <3>2, <3>3, <4>1, <4>8, <4>9
      <4> QED
        BY <2>1, <4>8, <4>10 DEF PoolCountInv
    <3>5. CASE q = <<>>
      <4>1. Len(q) = 0 /\ Len(q') = 0
        BY <1>2, <3>1, <3>3, <3>5, EmptySeq
      <4>2. Harvested' = Harvested
        BY <1>6, <2>2, <3>2, <3>5
      <4> QED
        BY <2>1, <3>2, <4>1, <4>2 DEF PoolCountInv
    <3> QED
      BY <3>4, <3>5
  <2>4. CASE HarvestCount(w)
    <3> DEFINE old == {w} \X (1 .. Len(hand[w]))
    <3>1. pc[w] = "harvest_count" /\ pc'[w] = "place" /\ q' = q /\ q_approx' = q_approx - Len(hand[w]) /\ hand' = hand
      BY <1>1, <2>4 DEF HarvestCount, Goto
    <3>2. Len(hand[w]) \in Nat
      BY <1>1, LenProperties
    <3>3. IsFiniteSet(old) /\ Cardinality(old) = Len(hand[w])
      BY <3>2, PairsOf
    <3>4. \A p : p \in Harvested <=> p \in Harvested' \cup old
      <4>1. \A v \in Workers, i \in Nat : <<v, i>> \in Harvested <=> <<v, i>> \in Harvested' \cup old
        BY <2>2, <3>1, <3>2 DEF Harvested
      <4>2. \A p : p \in Harvested \/ p \in Harvested' \cup old => p \in Workers \X Nat
        BY <3>2 DEF Harvested
      <4> HIDE DEF old
      <4>3. ASSUME NEW p \in Workers \X Nat PROVE p \in Harvested <=> p \in Harvested' \cup old
        <5>1. p[1] \in Workers /\ p[2] \in Nat /\ p = <<p[1], p[2]>>
          OBVIOUS
        <5> QED
          BY <4>1, <5>1, Zenon
      <4> QED
        BY <4>2, <4>3, Zenon
    <3>5. Harvested' \cap old = {}
      BY <3>1 DEF Harvested
    <3> HIDE DEF old
    <3>6. Harvested = Harvested' \cup old /\ Harvested' \subseteq Harvested
      BY <3>4
    <3>7. IsFiniteSet(Harvested') /\ Cardinality(Harvested') \in Nat
      BY <3>6, FS_Subset, FS_CardinalityType DEF PoolCountInv
    <3>8. Cardinality(Harvested' \cup old) = Cardinality(Harvested') + Len(hand[w])
      BY <3>3, <3>5, <3>7, DisjointUnion
    <3>9. Cardinality(Harvested) = Cardinality(Harvested') + Len(hand[w])
      BY <3>6, <3>8, Zenon
    <3>10. q_approx = Len(q) - Cardinality(IoCounting) + Cardinality(Harvested)
      BY DEF PoolCountInv
    <3>11. q_approx' = Len(q') - Cardinality(IoCounting) + Cardinality(Harvested')
      BY <1>2, <3>1, <3>2, <3>7, <3>9, <3>10
    <3> QED
      BY <2>1, <3>7, <3>11 DEF PoolCountInv
  <2>5. CASE UNCHANGED pool /\ pc[w] # "harvest_count" /\ pc'[w] # "harvest_count"
    BY <1>3, <1>6, <2>1, <2>2, <2>5
  <2>6. CASE UNCHANGED <<pool, pc, hand>>
    BY <1>3, <1>5, <2>1, <2>6
  <2>7. ASSUME NEW from, NEW to, Goto(w, from, to), from # "harvest_count", to # "harvest_count"
        PROVE  pc[w] # "harvest_count" /\ pc'[w] # "harvest_count"
    BY <1>1, <2>7 DEF Goto
  <2>8. CASE UNCHANGED pool /\ \E from, to : Goto(w, from, to) /\ from # "harvest_count" /\ to # "harvest_count"
    BY <2>5, <2>7, <2>8
  <2>9. CASE ExitCheck(w)
    <3>1. pc[w] # "harvest_count"
      BY <2>9 DEF ExitCheck, TimersDone
    <3> QED
      BY <2>8, <2>9, <3>1 DEF ExitCheck, Choose, hiveVars
  <2> QED
    BY <1>11, <2>3, <2>4, <2>6, <2>8, <2>9
       DEF Loop, StartWakeup, LoopHead, PeekInbound, PeekLocal, PeekGlobal, SleepOn, WaitReturns,
           DispatchWakeup, SleepOff, Drain, DrainCount, Sort, PrivateRun, PrivateCheck, TimersNow,
           TimerRun, TimerCheck, LocalRun, LocalDone, LocalCheck,
           PlaceLocal, PlaceInline, PlaceCheck, PlaceDone, StealTry, StealGiveUp, StealPush,
           StealInline, StealNothing, StealPlaced, StealClaim, StealMove, StealStop, Leave, TaskReturns,
           OtherEvent, Timeout, Proceed, Choose,
           locals, hiveVars
<1>12. CASE Main \/ JoinCompute
  <2>1. UNCHANGED <<pool, hand>> /\ \E from, to : Goto(0, from, to) /\ from # "harvest_count" /\ to # "harvest_count"
    BY <1>12 DEF Main, LeaveMain, Join, JoinCompute, Exchange, Proceed, hiveVars
  <2>2. call[0] = NoCall /\ (UNCHANGED call \/ \E c : c.at # "io_count" /\ call' = [call EXCEPT ![0] = c])
    BY <1>12 DEF Main, LeaveMain, Join, JoinCompute, Exchange, Proceed, Goto, hiveVars, Continue, Return,
                 NoCall, Body
  <2>3. call[0].at # "io_count" /\ 0 \in Agents
    BY <2>2 DEF NoCall
  <2>4. IoCounting' = IoCounting
    BY <1>1, <2>2, <2>3 DEF IoCounting
  <2>5. Harvested' = Harvested
    BY <1>1, <1>6, <2>1 DEF Goto
  <2> QED
    BY <1>3, <2>1, <2>4, <2>5
<1>13. CASE (Tick /\ UNCHANGED locals) \/ Finished \/ UNCHANGED vars
  <2>1. UNCHANGED <<pool, call, pc, hand>>
    BY <1>13 DEF Tick, Finished, vars, hiveVars, locals
  <2>2. IoCounting' = IoCounting
    BY <2>1 DEF IoCounting
  <2> QED
    BY <1>3, <1>5, <2>1, <2>2
<1> QED
  BY <1>9, <1>10, <1>11, <1>12, <1>13 DEF Next, CallStep, Start

LEMMA PoolCountInit == Init => PoolCountInv
<1>1. ASSUME Init PROVE PoolCountInv
  <2>1. IoCounting = {} /\ Harvested = {} /\ q_approx = 0 /\ q = <<>>
    BY <1>1 DEF Init, HiveInit, WorkerInit, IoCounting, NoCall, Harvested
  <2>2. IsFiniteSet({}) /\ Cardinality({}) = 0 /\ Len(<<>>) = 0
    BY FS_EmptySet, EmptySeq
  <2>3. Cardinality(IoCounting) = 0 /\ Cardinality(Harvested) = 0 /\ Len(q) = 0
    BY <2>1, <2>2, Zenon
  <2>4. IsFiniteSet(IoCounting) /\ IsFiniteSet(Harvested)
    BY <2>1, <2>2, Zenon
  <2> QED
    BY <2>1, <2>3, <2>4 DEF PoolCountInv
<1> QED
  BY <1>1

\* The approximate sizes that decide whether a worker blocks are exact whenever no
\* push, harvest or drain is between its queue operation and its counting: what
\* they are off by is at any time the number of those operations.
THEOREM SizesSettle == Spec => []CountsSettle
<1> DEFINE Inv == TypeOK /\ TheftInv /\ PushInv /\ MailCountInv /\ PoolCountInv
<1>1. Init => Inv
  BY TypeInit, MailCountInit, PoolCountInit
<1>2. Inv /\ [Next]_vars => Inv'
  BY CallTypesNext, FlagTypesNext, QueueTypesNext, DequeTypesNext, LoopTypesNext, TheftNext, PushNext, MailCountNext,
     PoolCountNext DEF TypeOK
<1>3. Inv => CountsSettle
  <2> SUFFICES ASSUME Inv PROVE CountsSettle
    OBVIOUS
  <2>1. Cardinality({}) = 0
    BY FS_EmptySet
  <2>2. q \in Seq(Task) /\ inbound \in [Workers -> Seq(Task)]
    BY DEF TypeOK, QueueTypeOK
  <2>3. ASSUME \A a \in Agents : call[a].at # "io_count", \A w \in Workers : pc[w] # "harvest_count"
        PROVE  q_approx = Len(q)
    <3>1. IoCounting = {} /\ Harvested = {}
      BY <2>3 DEF IoCounting, Harvested
    <3>2. Cardinality(IoCounting) = 0 /\ Cardinality(Harvested) = 0
      BY <2>1, <3>1, Zenon
    <3>3. q_approx = Len(q) - Cardinality(IoCounting) + Cardinality(Harvested)
      BY DEF PoolCountInv
    <3> QED
      BY <2>2, <3>2, <3>3, LenProperties
  <2>4. ASSUME NEW w \in Workers, \A a \in Agents : ~(call[a].at = "in_count" /\ call[a].to = w),
               pc[w] # "drain_count"
        PROVE  inbound_approx[w] = Len(inbound[w])
    <3>1. InCounting(w) = {}
      BY <2>4 DEF InCounting
    <3>2. Cardinality(InCounting(w)) = 0
      BY <2>1, <3>1, Zenon
    <3>3. inbound_approx[w] = Len(inbound[w]) - Cardinality(InCounting(w)) + 0
      BY <2>4 DEF MailCountInv, Uncounted
    <3> QED
      BY <2>2, <3>2, <3>3, LenProperties
  <2> QED
    BY <2>3, <2>4 DEF CountsSettle
<1> HIDE DEF Inv
<1> QED
  BY <1>1, <1>2, <1>3, PTL DEF Spec

----------------------------------------------------------------------------
(* How often a task stands in a queue, and what queue operations change. *)

Occurs(s, t) == Cardinality(Positions(s, t))

LEMMA OccursFinite ==
  ASSUME NEW s \in Seq(Task), NEW t
  PROVE  /\ IsFiniteSet(Positions(s, t)) /\ Occurs(s, t) \in Nat
         /\ Positions(s, t) = {i \in 1 .. Len(s) : s[i] = t}
<1>1. DOMAIN s = 1 .. Len(s) /\ Len(s) \in Nat
  BY LenProperties
<1>2. IsFiniteSet(1 .. Len(s))
  BY <1>1, FS_Interval
<1>3. Positions(s, t) = {i \in 1 .. Len(s) : s[i] = t}
  BY <1>1 DEF Positions
<1>4. Positions(s, t) \subseteq 1 .. Len(s)
  BY <1>3
<1>5. IsFiniteSet(Positions(s, t))
  BY <1>2, <1>4, FS_Subset
<1> QED
  BY <1>3, <1>5, FS_CardinalityType DEF Occurs

LEMMA OccursEmpty == \A t : Occurs(<<>>, t) = 0
<1> SUFFICES ASSUME NEW t PROVE Occurs(<<>>, t) = 0
  OBVIOUS
<1>1. <<>> \in Seq(Task) /\ Len(<<>>) = 0
  BY EmptySeq
<1>2. Positions(<<>>, t) = {i \in 1 .. Len(<<>>) : <<>>[i] = t}
  BY <1>1, OccursFinite
<1>3. Positions(<<>>, t) = {}
  BY <1>1, <1>2
<1> QED
  BY <1>3, FS_EmptySet, Zenon DEF Occurs

LEMMA OccursAppend ==
  ASSUME NEW s \in Seq(Task), NEW e \in Task, NEW t
  PROVE  Occurs(Append(s, e), t) = Occurs(s, t) + IF e = t THEN 1 ELSE 0
<1> DEFINE n == Len(s) + 1
<1>1. /\ Append(s, e) \in Seq(Task) /\ Len(s) \in Nat /\ Len(Append(s, e)) = n
      /\ \A i \in 1 .. Len(s) : Append(s, e)[i] = s[i]
      /\ Append(s, e)[n] = e
  BY AppendProperties, LenProperties
<1>2. /\ Positions(s, t) = {i \in 1 .. Len(s) : s[i] = t}
      /\ Positions(Append(s, e), t) = {i \in 1 .. n : Append(s, e)[i] = t}
      /\ IsFiniteSet(Positions(s, t)) /\ Occurs(s, t) \in Nat
  BY <1>1, OccursFinite
<1>3. Positions(s, t) \ {n} = Positions(Append(s, e), t) \ {n}
  BY <1>1, <1>2
<1>4. n \notin Positions(s, t) /\ (n \in Positions(Append(s, e), t) <=> e = t)
  BY <1>1, <1>2
<1> HIDE DEF n
<1>5. /\ e = t => Occurs(Append(s, e), t) = Occurs(s, t) + 1
      /\ e # t => Occurs(Append(s, e), t) = Occurs(s, t)
  BY <1>2, <1>3, <1>4, CardChange DEF Occurs
<1> QED
  BY <1>2, <1>5

\* Moving every position by k changes none of their number.
LEMMA Shifted ==
  ASSUME NEW S \in SUBSET Nat, NEW T, NEW k \in Nat, IsFiniteSet(S), T = {i + k : i \in S}
  PROVE  IsFiniteSet(T) /\ Cardinality(T) = Cardinality(S)
<1> DEFINE f == [i \in S |-> i + k]
<1>1. f \in Bijection(S, T)
  BY DEF Bijection, Injection, Surjection, IsInjective
<1> QED
  BY <1>1, FS_Bijection DEF ExistsBijection

LEMMA OccursSplit ==
  ASSUME NEW s \in Seq(Task), NEW k \in 0 .. Len(s), NEW t
  PROVE  Occurs(s, t) = Occurs(SubSeq(s, 1, k), t) + Occurs(SubSeq(s, k + 1, Len(s)), t)
<1> DEFINE n == Len(s)
           a == SubSeq(s, 1, k)
           b == SubSeq(s, k + 1, n)
           B == {i + k : i \in Positions(b, t)}
<1>1. n \in Nat /\ k \in Nat /\ k <= n /\ \A i \in 1 .. n : s[i] \in Task
  BY LenProperties, ElementOfSeq
<1>2. a \in Seq(Task) /\ Len(a) = k /\ \A i \in 1 .. k : a[i] = s[i]
  <2>1. \A i \in 1 .. k : s[i] \in Task
    BY <1>1
  <2>2. /\ a \in Seq(Task) /\ Len(a) = IF 1 <= k THEN k - 1 + 1 ELSE 0
        /\ \A i \in 1 .. k - 1 + 1 : a[i] = s[1 + i - 1]
    BY <1>1, <2>1, SubSeqProperties
  <2> QED
    BY <1>1, <2>2
<1>3. b \in Seq(Task) /\ Len(b) = n - k /\ \A i \in 1 .. n - k : b[i] = s[i + k]
  <2>1. \A i \in k + 1 .. n : s[i] \in Task
    BY <1>1
  <2>2. /\ b \in Seq(Task) /\ Len(b) = IF k + 1 <= n THEN n - (k + 1) + 1 ELSE 0
        /\ \A i \in 1 .. n - (k + 1) + 1 : b[i] = s[k + 1 + i - 1]
    BY <1>1, <2>1, SubSeqProperties
  <2>3. Len(b) = n - k
    BY <1>1, <2>2
  <2>4. \A i \in 1 .. n - k : i \in 1 .. n - (k + 1) + 1 /\ k + 1 + i - 1 = i + k
    BY <1>1
  <2> QED
    BY <2>2, <2>3, <2>4
<1>4. /\ Positions(s, t) = {i \in 1 .. n : s[i] = t}
      /\ Positions(a, t) = {i \in 1 .. Len(a) : a[i] = t}
      /\ Positions(b, t) = {i \in 1 .. Len(b) : b[i] = t}
      /\ IsFiniteSet(Positions(a, t)) /\ IsFiniteSet(Positions(b, t))
  BY <1>2, <1>3, OccursFinite
<1> HIDE DEF a, b
<1>5. Positions(b, t) \subseteq Nat
  BY <1>1, <1>3, <1>4
<1>6. IsFiniteSet(B) /\ Cardinality(B) = Occurs(b, t)
  BY <1>1, <1>4, <1>5, Shifted DEF Occurs
<1>7. Positions(a, t) \cap B = {}
  BY <1>1, <1>2, <1>3, <1>4
<1>8. Positions(s, t) = Positions(a, t) \cup B
  <2>1. ASSUME NEW i \in Positions(s, t) PROVE i \in Positions(a, t) \cup B
    <3>1. CASE i <= k
      BY <1>1, <1>2, <1>4, <2>1, <3>1
    <3>2. CASE ~ (i <= k)
      <4>1. i - k \in 1 .. n - k /\ (i - k) + k = i
        BY <1>1, <1>4, <2>1, <3>2
      <4>2. b[i - k] = s[(i - k) + k]
        BY <1>3, <4>1
      <4>3. i - k \in Positions(b, t)
        BY <1>3, <1>4, <2>1, <4>1, <4>2
      <4> QED
        BY <4>1, <4>3
    <3> QED
      BY <3>1, <3>2
  <2>2. ASSUME NEW i \in Positions(a, t) PROVE i \in Positions(s, t)
    BY <1>1, <1>2, <1>4, <2>2
  <2>3. ASSUME NEW i \in Positions(b, t) PROVE i + k \in Positions(s, t)
    <3>1. i \in 1 .. n - k /\ b[i] = t /\ i + k \in 1 .. n
      BY <1>1, <1>3, <1>4, <2>3
    <3> QED
      BY <1>3, <1>4, <3>1
  <2> QED
    BY <2>1, <2>2, <2>3
<1> HIDE DEF B
<1>9. Cardinality(Positions(a, t) \cup B) = Cardinality(Positions(a, t)) + Cardinality(B)
  BY <1>4, <1>6, <1>7, DisjointUnion
<1>10. Cardinality(Positions(s, t)) = Cardinality(Positions(a, t)) + Cardinality(B)
  BY <1>8, <1>9, Zenon
<1> QED
  BY <1>6, <1>10, Zenon DEF Occurs, a, b

LEMMA OccursTail ==
  ASSUME NEW s \in Seq(Task), s # <<>>, NEW t
  PROVE  Occurs(s, t) = Occurs(Tail(s), t) + IF Head(s) = t THEN 1 ELSE 0
<1> DEFINE one == SubSeq(s, 1, 1)
<1>1. Len(s) \in Nat \ {0} /\ Head(s) = s[1] /\ s[1] \in Task /\ Tail(s) \in Seq(Task)
  BY SeqFacts
<1>2. 1 \in 0 .. Len(s) /\ 1 + 1 = 2
  BY <1>1
<1>3. Tail(s) = SubSeq(s, 2, Len(s))
  BY TailIsSubSeq
<1>4. Occurs(s, t) = Occurs(one, t) + Occurs(Tail(s), t)
  BY <1>2, <1>3, OccursSplit
<1>5. one = Append(<<>>, s[1])
  <2>1. \A i \in 1 .. 1 : s[i] \in Task
    BY <1>1
  <2>2. one \in Seq(Task) /\ Len(one) = 1 /\ one[1] = s[1]
    BY <1>1, <2>1, SubSeqProperties
  <2> QED
    <3>1. <<>> \in Seq(Task) /\ Len(<<>>) = 0
      BY EmptySeq
    <3>2. Append(<<>>, s[1]) \in Seq(Task) /\ Len(Append(<<>>, s[1])) = 0 + 1 /\ Append(<<>>, s[1])[0 + 1] = s[1]
      BY <1>1, <3>1, AppendProperties
    <3> HIDE DEF one
    <3>3. \A i \in 1 .. 1 : one[i] = Append(<<>>, s[1])[i]
      BY <2>2, <3>2
    <3> QED
      BY <2>2, <3>2, <3>3, SeqEqual
<1> HIDE DEF one
<1>6. Occurs(one, t) = IF s[1] = t THEN 1 ELSE 0
  <2>1. Occurs(one, t) = Occurs(<<>>, t) + IF s[1] = t THEN 1 ELSE 0
    BY <1>1, <1>5, EmptySeq, OccursAppend
  <2> QED
    BY <2>1, OccursEmpty
<1>7. Occurs(Tail(s), t) \in Nat
  BY <1>1, OccursFinite
<1> QED
  BY <1>1, <1>4, <1>6, <1>7

----------------------------------------------------------------------------
(* The same over the queues of all workers. *)

Cells(f, t) == UNION {{w} \X Positions(f[w], t) : w \in Workers}

LEMMA WorkersFinite == IsFiniteSet(Workers)
<1>1. 0 \in Int /\ NumWorkers - 1 \in Int
  BY HiveAssumption
<1> QED
  BY <1>1, FS_Interval DEF Workers

\* Whatever the queues are, each holds the task finitely often.
Rows(f, t) == \A v \in Workers : IsFiniteSet(Positions(f[v], t))

LEMMA RowsFacts ==
  ASSUME NEW f, NEW t, Rows(f, t)
  PROVE  /\ IsFiniteSet(Cells(f, t)) /\ InQueues(f, t) \in Nat
         /\ InQueues(f, t) = Cardinality(Cells(f, t))
         /\ \A v \in Workers : \A i : <<v, i>> \in Cells(f, t) <=> i \in Positions(f[v], t)
         /\ \A p \in Cells(f, t) : p[1] \in Workers /\ p = <<p[1], p[2]>>
<1> DEFINE col == [v \in Workers |-> {v} \X Positions(f[v], t)]
           cols == {col[v] : v \in Workers}
<1>1. \A v \in Workers : IsFiniteSet({v} \X Positions(f[v], t))
  <2> TAKE v \in Workers
  <2>1. IsFiniteSet({v}) /\ IsFiniteSet(Positions(f[v], t))
    BY FS_Singleton DEF Rows
  <2> DEFINE S == {v}
             T == Positions(f[v], t)
  <2>2. IsFiniteSet(S) /\ IsFiniteSet(T)
    BY <2>1
  <2> HIDE DEF S, T
  <2>3. IsFiniteSet(S \X T)
    BY <2>2, FS_Product, Zenon
  <2> QED
    BY <2>3 DEF S, T
<1>2. col \in Surjection(Workers, cols)
  BY DEF Surjection
<1>3. IsFiniteSet(cols)
  BY <1>2, WorkersFinite, FS_Surjection
<1>4. \A c \in cols : IsFiniteSet(c)
  BY <1>1
<1>5. IsFiniteSet(UNION cols)
  BY <1>3, <1>4, FS_UNION
<1>6. UNION cols = Cells(f, t)
  BY DEF Cells
<1>7. IsFiniteSet(Cells(f, t))
  BY <1>5, <1>6, Zenon
<1>8. InQueues(f, t) = Cardinality(Cells(f, t))
  BY DEF InQueues, Cells
<1>9. Cardinality(Cells(f, t)) \in Nat
  BY <1>7, FS_CardinalityType
<1>10. \A v \in Workers : \A i : <<v, i>> \in Cells(f, t) <=> i \in Positions(f[v], t)
  BY DEF Cells
<1>11. \A p \in Cells(f, t) : p[1] \in Workers /\ p = <<p[1], p[2]>>
  BY DEF Cells
<1> QED
  BY <1>7, <1>8, <1>9, <1>10, <1>11

LEMMA CellsFacts ==
  ASSUME NEW f \in [Workers -> Seq(Task)], NEW t
  PROVE  Rows(f, t) /\ InQueues(f, t) \in Nat
<1>1. Rows(f, t)
  BY OccursFinite DEF Rows
<1> QED
  BY <1>1, RowsFacts

LEMMA InQueuesEmpty ==
  ASSUME NEW t
  PROVE  InQueues([w \in Workers |-> <<>>], t) = 0
<1> DEFINE f == [w \in Workers |-> <<>>]
<1>1. \A w \in Workers : Positions(f[w], t) = {}
  BY DEF Positions
<1>2. Cells(f, t) = {}
  BY <1>1 DEF Cells
<1> QED
  BY <1>2, FS_EmptySet, Zenon DEF InQueues, Cells

\* One worker's queue becomes another one.
OneRow(f, g, w) == \A v \in Workers \ {w} : g[v] = f[v]

LEMMA RowsChange ==
  ASSUME NEW f, NEW g, NEW w \in Workers, NEW t, Rows(f, t), IsFiniteSet(Positions(g[w], t)),
         OneRow(f, g, w)
  PROVE  /\ InQueues(g, t) = InQueues(f, t) - Occurs(f[w], t) + Occurs(g[w], t)
         /\ Occurs(f[w], t) <= InQueues(f, t) /\ InQueues(f, t) \in Nat /\ InQueues(g, t) \in Nat
         /\ Occurs(f[w], t) \in Nat /\ Occurs(g[w], t) \in Nat
<1> DEFINE s == g[w]
           rest == {p \in Cells(f, t) : p[1] # w}
           old == {w} \X Positions(f[w], t)
           new == {w} \X Positions(s, t)
<1>1. g[w] = s /\ \A v \in Workers \ {w} : g[v] = f[v]
  BY DEF OneRow
<1>20. IsFiniteSet(Positions(s, t)) /\ IsFiniteSet(Positions(f[w], t)) /\ Rows(g, t)
  BY DEF Rows, OneRow
<1> HIDE DEF s
<1>2. /\ IsFiniteSet(Cells(f, t)) /\ InQueues(f, t) = Cardinality(Cells(f, t))
      /\ \A v \in Workers : \A i : <<v, i>> \in Cells(f, t) <=> i \in Positions(f[v], t)
      /\ \A p \in Cells(f, t) : p[1] \in Workers /\ p = <<p[1], p[2]>>
  BY RowsFacts
<1>3. /\ InQueues(g, t) = Cardinality(Cells(g, t))
      /\ \A v \in Workers : \A i : <<v, i>> \in Cells(g, t) <=> i \in Positions(g[v], t)
      /\ \A p \in Cells(g, t) : p[1] \in Workers /\ p = <<p[1], p[2]>>
  BY <1>20, RowsFacts
<1>4. IsFiniteSet(rest)
  BY <1>2, FS_Subset
<1>5. ASSUME NEW S \in {Positions(f[w], t), Positions(s, t)}
      PROVE  IsFiniteSet({w} \X S) /\ Cardinality({w} \X S) = Cardinality(S) /\ Cardinality(S) \in Nat
  <2>1. IsFiniteSet(S)
    BY <1>5, <1>20
  <2> DEFINE W == {w}
  <2>2. IsFiniteSet(W) /\ Cardinality(W) = 1
    BY FS_Singleton
  <2> HIDE DEF W
  <2>3. IsFiniteSet(W \X S) /\ Cardinality(W \X S) = Cardinality(W) * Cardinality(S)
    BY <2>1, <2>2, FS_Product, Zenon
  <2>4. Cardinality(W \X S) = 1 * Cardinality(S)
    BY <2>2, <2>3, Zenon
  <2>5. Cardinality(S) \in Nat
    BY <2>1, FS_CardinalityType
  <2>6. 1 * Cardinality(S) = Cardinality(S)
    BY <2>5
  <2>7. Cardinality(W \X S) = Cardinality(S)
    BY <2>4, <2>6, Zenon
  <2> QED
    BY <2>3, <2>5, <2>7, Zenon DEF W
<1>6. rest \cap old = {} /\ rest \cap new = {}
  OBVIOUS
<1>7. Cells(f, t) = rest \cup old
  <2>1. ASSUME NEW p \in Cells(f, t) PROVE p \in rest \cup old
    BY <1>2, <2>1
  <2>2. ASSUME NEW i \in Positions(f[w], t) PROVE <<w, i>> \in Cells(f, t)
    BY <1>2, <2>2
  <2> QED
    BY <2>1, <2>2
<1>8. Cells(g, t) = rest \cup new
  <2>1. ASSUME NEW p \in Cells(g, t) PROVE p \in rest \cup new
    <3>1. p[2] \in Positions(g[p[1]], t)
      BY <1>3, <2>1
    <3>2. CASE p[1] = w
      BY <1>1, <1>3, <2>1, <3>1, <3>2
    <3>3. CASE p[1] # w
      <4>1. p[2] \in Positions(f[p[1]], t) /\ p[1] \in Workers /\ p = <<p[1], p[2]>>
        BY <1>1, <1>3, <2>1, <3>1, <3>3
      <4>2. p \in Cells(f, t)
        BY <1>2, <4>1
      <4> QED
        BY <3>3, <4>2
    <3> QED
      BY <3>2, <3>3
  <2>2. ASSUME NEW i \in Positions(s, t) PROVE <<w, i>> \in Cells(g, t)
    BY <1>1, <1>3, <2>2
  <2>3. ASSUME NEW p \in rest PROVE p \in Cells(g, t)
    <3>1. p[1] \in Workers \ {w} /\ p = <<p[1], p[2]>> /\ p[2] \in Positions(f[p[1]], t)
      BY <1>2, <2>3
    <3>2. p[2] \in Positions(g[p[1]], t)
      BY <1>1, <3>1
    <3> QED
      BY <1>3, <3>1, <3>2
  <2> QED
    BY <2>1, <2>2, <2>3
<1>9. IsFiniteSet(old) /\ Cardinality(old) = Occurs(f[w], t) /\ Occurs(f[w], t) \in Nat
      /\ IsFiniteSet(new) /\ Cardinality(new) = Occurs(s, t) /\ Occurs(s, t) \in Nat
  BY <1>5, Zenon DEF Occurs
<1> HIDE DEF rest, old, new
<1>10. Cardinality(rest \cup old) = Cardinality(rest) + Cardinality(old)
       /\ Cardinality(rest \cup new) = Cardinality(rest) + Cardinality(new)
  BY <1>4, <1>6, <1>9, DisjointUnion
<1>11. InQueues(f, t) = Cardinality(rest) + Occurs(f[w], t) /\ InQueues(g, t) = Cardinality(rest) + Occurs(s, t)
  BY <1>2, <1>3, <1>7, <1>8, <1>9, <1>10, Zenon
<1>12. Cardinality(rest) \in Nat
  BY <1>4, FS_CardinalityType
<1>13. /\ InQueues(g, t) = InQueues(f, t) - Occurs(f[w], t) + Occurs(s, t)
       /\ Occurs(f[w], t) <= InQueues(f, t) /\ InQueues(f, t) \in Nat /\ InQueues(g, t) \in Nat
  BY <1>9, <1>11, <1>12
<1> QED
  BY <1>9, <1>13 DEF s

LEMMA InQueuesExcept ==
  ASSUME NEW f \in [Workers -> Seq(Task)], NEW w \in Workers, NEW s \in Seq(Task), NEW t
  PROVE  /\ InQueues([f EXCEPT ![w] = s], t) = InQueues(f, t) - Occurs(f[w], t) + Occurs(s, t)
         /\ Occurs(f[w], t) <= InQueues(f, t)
<1> DEFINE g == [f EXCEPT ![w] = s]
<1>1. g[w] = s /\ OneRow(f, g, w)
  BY DEF OneRow
<1> HIDE DEF g
<1>2. Rows(f, t) /\ IsFiniteSet(Positions(g[w], t))
  BY <1>1, CellsFacts, OccursFinite
<1>3. /\ InQueues(g, t) = InQueues(f, t) - Occurs(f[w], t) + Occurs(g[w], t)
      /\ Occurs(f[w], t) <= InQueues(f, t)
  BY <1>1, <1>2, RowsChange
<1> QED
  BY <1>1, <1>3 DEF g

\* The rings hold a task finitely often.
LEMMA RingRows ==
  ASSUME DequeTypeOK, NEW t
  PROVE  Rows(local_dq, t) /\ InQueues(local_dq, t) \in Nat
<1>1. Rows(local_dq, t)
  <2> SUFFICES ASSUME NEW v \in Workers PROVE IsFiniteSet(Positions(local_dq[v], t))
    BY DEF Rows
  <2>1. 0 \in Int /\ LocalMax[v] \in Int
    BY HiveAssumption
  <2>2. IsFiniteSet(Slots(v))
    BY <2>1, FS_Interval DEF Slots
  <2>3. Positions(local_dq[v], t) \subseteq Slots(v)
    BY DEF DequeTypeOK, Positions
  <2> QED
    BY <2>2, <2>3, FS_Subset
<1> QED
  BY <1>1, RowsFacts

\* One slot of a worker's ring becomes another one.
PutSlot(w, i, x) == local_dq' = [local_dq EXCEPT ![w][i] = x]

LEMMA RingPut ==
  ASSUME DequeTypeOK, NEW w \in Workers, NEW i \in Slots(w), NEW x, NEW t, PutSlot(w, i, x)
  PROVE  /\ InQueues(local_dq, t) \in Nat /\ InQueues(local_dq', t) \in Nat
         /\ local_dq[w][i] = t => InQueues(local_dq, t) > 0
         /\ local_dq[w][i] = t /\ x = t => InQueues(local_dq', t) = InQueues(local_dq, t)
         /\ local_dq[w][i] # t /\ x # t => InQueues(local_dq', t) = InQueues(local_dq, t)
         /\ local_dq[w][i] # t /\ x = t => InQueues(local_dq', t) = InQueues(local_dq, t) + 1
         /\ local_dq[w][i] = t /\ x # t => InQueues(local_dq', t) = InQueues(local_dq, t) - 1
<1>1. DOMAIN local_dq = Workers /\ \A v \in Workers : DOMAIN local_dq[v] = Slots(v)
  BY DEF DequeTypeOK
<1> DEFINE g == [local_dq EXCEPT ![w][i] = x]
<1>2. g[w] = [local_dq[w] EXCEPT ![i] = x]
  BY <1>1
<1>3. \A v \in Workers \ {w} : g[v] = local_dq[v]
  BY <1>1
<1>4. Rows(local_dq, t)
  BY RingRows
<1> DEFINE S == Positions(local_dq[w], t)
           T == Positions(g[w], t)
<1> HIDE DEF g
<1>5. S = {j \in Slots(w) : local_dq[w][j] = t} /\ T = {j \in Slots(w) : g[w][j] = t}
  BY <1>1, <1>2 DEF Positions
<1>6. S \ {i} = T \ {i} /\ (i \in S <=> local_dq[w][i] = t) /\ (i \in T <=> x = t)
  BY <1>1, <1>2, <1>5
<1>7. IsFiniteSet(S)
  BY <1>4 DEF Rows
<1>8. Occurs(local_dq[w], t) = Cardinality(S) /\ Occurs(g[w], t) = Cardinality(T)
  BY DEF Occurs
<1> HIDE DEF S, T
<1>9. /\ IsFiniteSet(T) /\ Cardinality(S) \in Nat /\ Cardinality(T) \in Nat
      /\ i \in S /\ i \in T => Cardinality(T) = Cardinality(S)
      /\ i \notin S /\ i \notin T => Cardinality(T) = Cardinality(S)
      /\ i \notin S /\ i \in T => Cardinality(T) = Cardinality(S) + 1
      /\ i \in S /\ i \notin T => Cardinality(T) = Cardinality(S) - 1
  BY <1>6, <1>7, CardChange
<1>10. IsFiniteSet(Positions(g[w], t))
  BY <1>9 DEF T
<1>13. w \in Workers
  OBVIOUS
<1>11. /\ InQueues(g, t) = InQueues(local_dq, t) - Occurs(local_dq[w], t) + Occurs(g[w], t)
       /\ Occurs(local_dq[w], t) <= InQueues(local_dq, t)
       /\ InQueues(local_dq, t) \in Nat /\ InQueues(g, t) \in Nat
  <2>1. OneRow(local_dq, g, w)
    BY <1>3 DEF OneRow
  <2> QED
    BY ONLY <1>4, <1>10, <1>13, <2>1, RowsChange, Zenon
<1>12. i \in S => Cardinality(S) > 0
  <2>1. Cardinality(S) = 0 => S = {}
    BY <1>7, FS_EmptySet
  <2> QED
    BY <1>9, <2>1
<1>14. local_dq' = g
  BY DEF g, PutSlot
<1>15. InQueues(local_dq', t) = InQueues(g, t)
  BY <1>14, Zenon
<1> QED
  BY <1>6, <1>8, <1>9, <1>11, <1>12, <1>15

\* A task comes at the end of one worker's queue.
Longer(f, w, e) == [f EXCEPT ![w] = Append(f[w], e)]

LEMMA InQueuesAppend ==
  ASSUME NEW f \in [Workers -> Seq(Task)], NEW w \in Workers, NEW e \in Task, NEW t
  PROVE  /\ InQueues(f, t) \in Nat /\ InQueues(Longer(f, w, e), t) \in Nat
         /\ e = t => InQueues(Longer(f, w, e), t) = InQueues(f, t) + 1
         /\ e # t => InQueues(Longer(f, w, e), t) = InQueues(f, t)
<1> DEFINE one == IF e = t THEN 1 ELSE 0
           s == Append(f[w], e)
           g == [f EXCEPT ![w] = s]
<1>1. f[w] \in Seq(Task) /\ s \in Seq(Task)
  BY AppendProperties
<1>2. Occurs(s, t) = Occurs(f[w], t) + one
  BY <1>1, OccursAppend
<1>3. InQueues(g, t) = InQueues(f, t) - Occurs(f[w], t) + Occurs(s, t)
  BY <1>1, InQueuesExcept
<1>4. Occurs(f[w], t) \in Nat /\ Occurs(s, t) \in Nat /\ InQueues(f, t) \in Nat
  BY <1>1, OccursFinite, CellsFacts
<1>5. (e = t => one = 1) /\ (e # t => one = 0)
  OBVIOUS
<1>6. g \in [Workers -> Seq(Task)] /\ g = Longer(f, w, e)
  BY <1>1 DEF Longer
<1>7. InQueues(g, t) \in Nat
  BY <1>6, CellsFacts
<1> HIDE DEF one, s, g
<1>8. /\ e = t => InQueues(g, t) = InQueues(f, t) + 1
      /\ e # t => InQueues(g, t) = InQueues(f, t)
  BY <1>2, <1>3, <1>4, <1>5
<1> QED
  BY <1>4, <1>6, <1>7, <1>8, Zenon

----------------------------------------------------------------------------
(* Every task is in one place. *)

\* A worker's hands are empty except between taking tasks and placing the last.
HandLabels == {"drain_count", "sort", "harvest_count", "place", "place_check", "steal_place"}
Holding(w) ==
  /\ hand[w] # <<>> => pc[w] \in HandLabels
  /\ pc[w] = "steal_place" => Len(hand[w]) <= 1
HandInv == \A w \in Workers : Holding(w)

LEMMA HandNext ==
  ASSUME TypeOK, HandInv, [Next]_vars
  PROVE  HandInv'
<1> USE WorkerFacts
<1>1. hand \in [Workers -> Seq(Task)] /\ pc \in [Workers -> Labels] /\ q \in Seq(Task)
  BY DEF TypeOK, QueueTypeOK, LoopTypeOK
<1>2. ASSUME UNCHANGED <<pc, hand>> PROVE HandInv'
  BY <1>2 DEF HandInv, Holding
<1>7. ASSUME NEW w \in Workers, \A v \in Workers \ {w} : pc'[v] = pc[v] /\ hand'[v] = hand[v],
             Holding(w)'
      PROVE  HandInv'
  BY <1>7 DEF HandInv, Holding
<1>3. ASSUME NEW w \in Workers, \A v \in Workers \ {w} : pc'[v] = pc[v] /\ hand'[v] = hand[v],
             hand'[w] = <<>> \/ pc'[w] \in HandLabels \ {"steal_place"}
      PROVE  HandInv'
  <2>1. Len(<<>>) = 0
    BY EmptySeq
  <2>2. Holding(w)'
    BY <1>3, <2>1 DEF Holding
  <2> QED
    BY <1>3, <1>7, <2>2
<1>4. ASSUME NEW w \in Workers, Loop(w) \/ OtherEvent(w) PROVE HandInv'
  <2>1. \A v \in Workers \ {w} : pc'[v] = pc[v] /\ hand'[v] = hand[v]
    BY <1>4, LoopMoves
  <2>2. CASE hand' = hand /\ \E from, to : Goto(w, from, to) /\ from \notin HandLabels
    BY <1>1, <1>3, <2>1, <2>2 DEF Goto, HandInv, Holding
  <2>3. CASE \E from, to : Goto(w, from, to) /\ to \in HandLabels \ {"steal_place"}
    BY <1>1, <1>3, <2>1, <2>3 DEF Goto
  <2>4. CASE Drain(w)
    BY <1>1, <1>3, <2>1, <2>4 DEF Drain, Choose, Goto, HandLabels
  <2>5. CASE Sort(w)
    BY <1>1, <1>3, <2>1, <2>5 DEF Sort, Choose, Goto, HandLabels
  <2>6. CASE Harvest(w)
    <3>1. CASE q = <<>>
      <4>1. BatchSize = 0 /\ SubSeq(q, 1, BatchSize) \in Seq(Task) /\ Len(SubSeq(q, 1, BatchSize)) = BatchSize
        BY <1>1, <3>1, HarvestSplit, EmptySeq
      <4>2. SubSeq(q, 1, BatchSize) = <<>>
        BY <4>1, EmptySeq
      <4> QED
        BY <1>1, <1>3, <2>1, <2>6, <4>2 DEF Harvest
    <3>2. CASE q # <<>>
      BY <2>3, <2>6, <3>2 DEF Harvest, Choose, HandLabels
    <3> QED
      BY <3>1, <3>2
  <2>7. CASE PlaceCheck(w)
    BY <1>1, <1>3, <2>1, <2>7 DEF PlaceCheck, Choose, Goto, HandLabels
  <2>8. CASE PlaceDone(w)
    BY <1>1, <1>3, <2>1, <2>8 DEF PlaceDone, Proceed
  <2>9. CASE DrainCount(w) \/ HarvestCount(w) \/ PlaceLocal(w) \/ PlaceInline(w)
    BY <2>3, <2>9 DEF DrainCount, HarvestCount, PlaceLocal, PlaceInline, HandLabels
  <2>10. CASE TaskReturns(w)
    BY <1>2, <2>10 DEF TaskReturns, locals
  <2>11. CASE \/ StartWakeup(w) \/ LoopHead(w) \/ PeekInbound(w) \/ PeekLocal(w) \/ PeekGlobal(w)
              \/ SleepOn(w) \/ WaitReturns(w) \/ DispatchWakeup(w) \/ SleepOff(w) \/ PrivateRun(w)
              \/ PrivateCheck(w) \/ TimersNow(w) \/ OtherEvent(w)
    BY <2>2, <2>11
       DEF StartWakeup, LoopHead, PeekInbound, PeekLocal, PeekGlobal, SleepOn, WaitReturns,
           DispatchWakeup, SleepOff, PrivateRun, PrivateCheck, TimersNow, OtherEvent, Timeout, Proceed,
           Choose, HandLabels
  <2>12. CASE \/ TimerRun(w) \/ TimerCheck(w) \/ ExitCheck(w) \/ LocalRun(w) \/ LocalDone(w)
              \/ LocalCheck(w) \/ StealTry(w) \/ StealGiveUp(w) \/ StealClaim(w) \/ StealStop(w)
              \/ Leave(w)
    BY <2>2, <2>12
       DEF TimerRun, TimerCheck, ExitCheck, TimersDone, LocalRun, LocalDone, LocalCheck, StealTry,
           StealGiveUp, StealClaim, StealStop, Leave, Proceed, Choose, HandLabels
  <2>13. CASE StealNothing(w)
    BY <1>1, <1>3, <2>1, <2>13 DEF StealNothing
  <2>14. CASE StealPush(w) \/ StealInline(w)
    <3>1. pc[w] = "steal_place" /\ hand[w] # <<>> /\ hand' = [hand EXCEPT ![w] = Tail(hand[w])]
      BY <2>14 DEF StealPush, StealInline, StealPlaced, Goto
    <3>2. Tail(hand[w]) \in Seq(Task) /\ Len(Tail(hand[w])) = Len(hand[w]) - 1 /\ Len(hand[w]) \in Nat \ {0}
      BY <1>1, <3>1, SeqFacts
    <3>5. Len(hand[w]) <= 1
      BY <3>1 DEF HandInv, Holding
    <3>6. \A n \in Nat \ {0} : n <= 1 => n - 1 = 0
      OBVIOUS
    <3>3. Len(Tail(hand[w])) = 0
      BY ONLY <3>2, <3>5, <3>6
    <3>4. hand'[w] = <<>>
      BY <1>1, <3>1, <3>2, <3>3, EmptySeq
    <3> QED
      BY <1>3, <2>1, <3>4
  <2>15. CASE StealMove(w)
    <3>1. pc'[w] = "steal_place" /\ \E e : hand'[w] = <<>> \/ hand'[w] = <<e>>
      BY <1>1, <2>15 DEF StealMove, Goto
    <3>4. Len(<<>>) = 0 /\ \A e : Len(<<e>>) = 1
      BY EmptySeq
    <3>2. Len(hand'[w]) \in {0, 1}
      BY <3>1, <3>4, Zenon
    <3>7. \A n \in {0, 1} : n <= 1
      OBVIOUS
    <3>5. Len(hand'[w]) <= 1
      BY <3>2, <3>7, Zenon
    <3>6. pc'[w] \in HandLabels
      BY <3>1 DEF HandLabels
    <3>3. Holding(w)'
      BY ONLY <3>5, <3>6 DEF Holding
    <3> QED
      BY <1>7, <2>1, <3>3
  <2> QED
    BY <1>4, <2>4, <2>5, <2>6, <2>7, <2>8, <2>9, <2>10, <2>11, <2>12, <2>13, <2>14, <2>15 DEF Loop
<1>5. CASE Main \/ JoinCompute
  <2>1. hand' = hand /\ \E from, to : Goto(0, from, to) /\ from \notin HandLabels
    BY <1>5 DEF Main, LeaveMain, Join, JoinCompute, Proceed, HandLabels
  <2> QED
    BY <1>1, <1>3, <2>1 DEF Goto, HandInv, Holding
<1>6. CASE (\E a \in Agents : CallStep(a) \/ Start(a)) \/ (Tick /\ UNCHANGED locals) \/ Finished \/ UNCHANGED vars
  BY <1>2, <1>6 DEF CallStep, Start, Finished, vars, locals
<1> QED
  BY <1>4, <1>5, <1>6 DEF Next

----------------------------------------------------------------------------
(* What a slot outside the tasks of its deque holds. *)

\* A slot is empty, holds a task of the deque, or one that a thief has claimed.
InRing(w, i)  == \E k \in 0 .. cursor[w].size - 1 : i = Slot(w, cursor[w].top + k)
Claimed(w, i) == \E x \in Workers : claimed[x] = [victim |-> w, slot |-> i]
RingInv ==
  \A w \in Workers : \A i \in Slots(w) : local_dq[w][i] # NoTask => InRing(w, i) \/ Claimed(w, i)

LEMMA RingNext ==
  ASSUME TypeOK, TheftInv, RingInv, [Next]_vars
  PROVE  RingInv'
<1>1. DequeTypeOK /\ \A w \in Workers : LocalMax[w] \in Nat \ {0}
  BY HiveAssumption DEF TypeOK
<1>2. \A w \in Workers : /\ cursor[w].top \in Slots(w) /\ cursor[w].top \in Nat
                         /\ cursor[w].size \in 0 .. LocalMax[w]
  BY <1>1 DEF DequeTypeOK
<1>3. DOMAIN local_dq = Workers /\ \A w \in Workers : DOMAIN local_dq[w] = Slots(w)
  BY <1>1 DEF DequeTypeOK
<1>4. CASE UNCHANGED deque
  BY <1>4 DEF deque, RingInv, InRing, Claimed
<1>5. ASSUME NEW v \in Workers, UNCHANGED claimed,
             \A u \in Workers \ {v} : local_dq'[u] = local_dq[u] /\ cursor'[u] = cursor[u],
             \A i \in Slots(v) : local_dq'[v][i] # NoTask => InRing(v, i)' \/ Claimed(v, i)
      PROVE  RingInv'
  <2>1. SUFFICES ASSUME NEW u \in Workers, NEW i \in Slots(u), local_dq'[u][i] # NoTask
                 PROVE  InRing(u, i)' \/ Claimed(u, i)'
    BY DEF RingInv
  <2>2. Claimed(u, i)' <=> Claimed(u, i)
    BY <1>5 DEF Claimed
  <2>3. CASE u = v
    BY <1>5, <2>1, <2>2, <2>3
  <2>4. CASE u # v
    <3>1. local_dq'[u] = local_dq[u] /\ cursor'[u] = cursor[u]
      BY <1>5, <2>4
    <3>2. InRing(u, i) \/ Claimed(u, i)
      BY <2>1, <3>1 DEF RingInv
    <3> QED
      BY <2>2, <3>1, <3>2 DEF InRing
  <2> QED
    BY <2>3, <2>4
<1>6. ASSUME NEW w \in Workers, NEW t, HasRoom(w), PushBottom(w, t) PROVE RingInv'
  <2>1. /\ \A u \in Workers \ {w} : local_dq'[u] = local_dq[u] /\ cursor'[u] = cursor[u]
        /\ \A i \in Slots(w) : i # Bottom(w) => local_dq'[w][i] = local_dq[w][i]
        /\ claimed' = claimed
    BY <1>3, <1>6 DEF PushBottom
  <2>2. cursor'[w].top = cursor[w].top /\ cursor'[w].size = cursor[w].size + 1
    BY <1>1, <1>6 DEF PushBottom, DequeTypeOK
  <2>3. ASSUME NEW i \in Slots(w), local_dq'[w][i] # NoTask PROVE InRing(w, i)' \/ Claimed(w, i)
    <3>1. CASE i = Bottom(w)
      <4>1. cursor[w].size \in 0 .. cursor'[w].size - 1
        BY <1>2, <2>2
      <4> QED
        BY <2>2, <3>1, <4>1 DEF InRing, Bottom
    <3>2. CASE i # Bottom(w)
      <4>1. InRing(w, i) \/ Claimed(w, i)
        BY <2>1, <2>3, <3>2 DEF RingInv
      <4>2. 0 .. cursor[w].size - 1 \subseteq 0 .. cursor'[w].size - 1
        BY <1>2, <2>2
      <4> QED
        BY <2>2, <4>1, <4>2 DEF InRing
    <3> QED
      BY <3>1, <3>2
  <2> QED
    BY <1>5, <2>1, <2>3
<1>7. ASSUME NEW w \in Workers, cursor[w].size > 0, PopBottom(w) PROVE RingInv'
  <2>1. /\ \A u \in Workers \ {w} : local_dq'[u] = local_dq[u] /\ cursor'[u] = cursor[u]
        /\ \A i \in Slots(w) : i # Newest(w) => local_dq'[w][i] = local_dq[w][i]
        /\ claimed' = claimed
    BY <1>3, <1>7 DEF PopBottom
  <2>2. /\ cursor'[w].size = cursor[w].size - 1
        /\ cursor[w].size # 1 => cursor'[w].top = cursor[w].top
    BY <1>1, <1>7 DEF PopBottom, DequeTypeOK
  <2>4. Newest(w) \in Slots(w)
    BY <1>1, <1>7, DequeSlots
  <2>3. ASSUME NEW i \in Slots(w), local_dq'[w][i] # NoTask PROVE InRing(w, i)' \/ Claimed(w, i)
    <3>1. i # Newest(w)
      BY <1>3, <1>7, <2>3, <2>4 DEF PopBottom
    <3>2. InRing(w, i) \/ Claimed(w, i)
      BY <2>1, <2>3, <3>1 DEF RingInv
    <3>3. ASSUME NEW k \in 0 .. cursor[w].size - 1, i = Slot(w, cursor[w].top + k) PROVE InRing(w, i)'
      <4>1. k # cursor[w].size - 1
        BY <3>1, <3>3 DEF Newest
      <4>2. k \in 0 .. cursor'[w].size - 1 /\ cursor[w].size # 1
        BY <1>2, <2>2, <4>1
      <4> QED
        BY <2>2, <3>3, <4>2 DEF InRing
    <3> QED
      BY <3>2, <3>3 DEF InRing
  <2> QED
    BY <1>5, <2>1, <2>3
\* The oldest slot is the thief's now.
<1>8. ASSUME NEW w \in Workers, StealClaim(w) PROVE RingInv'
  <2>0. \E v \in Workers : v = theft[w].victim
    BY DEF TypeOK, LoopTypeOK
  <2> PICK v \in Workers : v = theft[w].victim
    BY <2>0
  <2> PICK top : top = cursor[v].top
    OBVIOUS
  <2>1. v \in Workers /\ local_dq' = local_dq /\ cursor[v].size # 0
    BY <1>8 DEF StealClaim
  <2>2. claimed' = [claimed EXCEPT ![w] = [victim |-> v, slot |-> top]]
    BY <1>8 DEF StealClaim
  <2>3. \A u \in Workers \ {v} : cursor'[u] = cursor[u]
    BY <1>8 DEF StealClaim
  <2>4. cursor'[v].top = Slot(v, top + 1) /\ cursor'[v].size = cursor[v].size - 1
    BY <1>1, <1>8, <2>1 DEF StealClaim, DequeTypeOK
  <2>5. claimed[w] = NoClaim
    BY <1>8 DEF StealClaim, Goto, TheftInv, Stealing
  <2>6. ASSUME NEW u \in Workers, NEW i \in Slots(u), Claimed(u, i) PROVE Claimed(u, i)'
    <3>1. PICK x \in Workers : claimed[x] = [victim |-> u, slot |-> i]
      BY <2>6 DEF Claimed
    <3>2. i # -1
      BY <1>1 DEF Slots
    <3>3. x # w
      BY <2>5, <3>1, <3>2 DEF NoClaim
    <3>4. claimed'[x] = claimed[x]
      BY <1>1, <2>2, <3>3 DEF DequeTypeOK
    <3> QED
      BY <3>1, <3>4 DEF Claimed
  <2>7. Claimed(v, top)'
    <3>1. claimed'[w] = [victim |-> v, slot |-> top]
      BY <1>1, <2>2 DEF DequeTypeOK
    <3> QED
      BY <3>1 DEF Claimed
  <2>8. ASSUME NEW i \in Slots(v), InRing(v, i) PROVE InRing(v, i)' \/ Claimed(v, i)'
    <3>1. PICK k \in 0 .. cursor[v].size - 1 : i = Slot(v, top + k)
      BY <2>8 DEF InRing
    <3>2. CASE k = 0
      <4>2. top \in 0 .. LocalMax[v] /\ LocalMax[v] \in Nat
        BY <1>1, <1>2 DEF Slots
      <4>1. i = top
        BY <3>1, <3>2, <4>2 DEF Slot
      <4> QED
        BY <2>7, <4>1
    <3>3. CASE k # 0
      <4>1. k > 0 /\ k \in 0 .. LocalMax[v] /\ top \in Slots(v) /\ k - 1 \in 0 .. cursor'[v].size - 1
        BY <1>1, <1>2, <2>1, <2>4, <3>3
      <4>2. i = Slot(v, Slot(v, top + 1) + (k - 1))
        BY <2>1, <3>1, <4>1, SlotFacts
      <4> QED
        BY <2>4, <4>1, <4>2 DEF InRing
    <3> QED
      BY <3>2, <3>3
  <2>9. SUFFICES ASSUME NEW u \in Workers, NEW i \in Slots(u), local_dq'[u][i] # NoTask
                 PROVE  InRing(u, i)' \/ Claimed(u, i)'
    BY DEF RingInv
  <2>10. InRing(u, i) \/ Claimed(u, i)
    BY <2>1, <2>9 DEF RingInv
  <2>11. CASE InRing(u, i) /\ u # v
    BY <2>3, <2>11 DEF InRing
  <2> QED
    BY <2>6, <2>8, <2>10, <2>11
<1>9. ASSUME NEW w \in Workers, StealMove(w) PROVE RingInv'
  <2> DEFINE v == claimed[w].victim
             s == claimed[w].slot
  <2>1. local_dq' = [local_dq EXCEPT ![v][s] = NoTask] /\ cursor' = cursor
        /\ claimed' = [claimed EXCEPT ![w] = NoClaim]
    BY <1>9 DEF StealMove
  <2>2. claimed[w] = [victim |-> v, slot |-> s]
    BY <1>1 DEF DequeTypeOK
  <2> HIDE DEF v, s
  <2>3. SUFFICES ASSUME NEW u \in Workers, NEW i \in Slots(u), local_dq'[u][i] # NoTask
                 PROVE  InRing(u, i)' \/ Claimed(u, i)'
    BY DEF RingInv
  <2>4. ~(u = v /\ i = s) /\ local_dq[u][i] # NoTask
    BY <1>3, <2>1, <2>3
  <2>5. InRing(u, i) \/ Claimed(u, i)
    BY <2>4 DEF RingInv
  <2>6. ASSUME NEW x \in Workers, claimed[x] = [victim |-> u, slot |-> i] PROVE Claimed(u, i)'
    <3>1. x # w
      BY <2>2, <2>4, <2>6
    <3>2. claimed'[x] = claimed[x]
      BY <2>1, <3>1, <1>1 DEF DequeTypeOK
    <3> QED
      BY <2>6, <3>2 DEF Claimed
  <2> QED
    BY <2>1, <2>5, <2>6 DEF InRing, Claimed
<1> QED
  BY <1>4, <1>6, <1>7, <1>8, <1>9, DequeMoves DEF DequePushed, DequePopped, DequeClaimed, DequeMoved

\* The push at the bottom adds its task and, over a slot that is claimed, takes one away.
LEMMA PushPlaces ==
  ASSUME DequeTypeOK, RingInv, NEW w \in Workers, NEW e \in Task, HasRoom(w), PushBottom(w, e),
         NEW t \in Task
  PROVE  LET n == InQueues(local_dq, t)
             one == IF e = t THEN 1 ELSE 0
         IN  /\ n \in Nat
             /\ \/ InQueues(local_dq', t) = n + one
                \/ t \in overwritten' /\ n > 0 /\ InQueues(local_dq', t) = n - 1 + one
<1>0. \E i \in Slots(w) : i = Bottom(w)
  BY DequeSlots
<1> PICK i \in Slots(w) : i = Bottom(w)
  BY <1>0
<1> DEFINE old == local_dq[w][i]
<1>1. PutSlot(w, i, e) /\ DequeTypeOK /\ w \in Workers /\ i \in Slots(w)
  BY DEF PushBottom, PutSlot
<1>2. /\ InQueues(local_dq, t) \in Nat /\ InQueues(local_dq', t) \in Nat
      /\ old = t => InQueues(local_dq, t) > 0
      /\ old = t /\ e = t => InQueues(local_dq', t) = InQueues(local_dq, t)
      /\ old # t /\ e # t => InQueues(local_dq', t) = InQueues(local_dq, t)
      /\ old # t /\ e = t => InQueues(local_dq', t) = InQueues(local_dq, t) + 1
      /\ old = t /\ e # t => InQueues(local_dq', t) = InQueues(local_dq, t) - 1
  BY ONLY <1>1, RingPut, Zenon
<1>3. ~InRing(w, i)
  <2> SUFFICES ASSUME NEW k \in 0 .. cursor[w].size - 1, i = Slot(w, cursor[w].top + k)
               PROVE  FALSE
    BY DEF InRing
  <2>1. /\ cursor[w].top \in Slots(w) /\ cursor[w].size \in 0 .. LocalMax[w] /\ k \in 0 .. LocalMax[w]
        /\ k # cursor[w].size
    BY HiveAssumption DEF DequeTypeOK
  <2>2. \A j \in 0 .. LocalMax[w] : Slot(w, cursor[w].top + j) = Slot(w, cursor[w].top + cursor[w].size)
                                     => j = cursor[w].size
    BY <2>1, SlotFacts, Zenon
  <2>3. Slot(w, cursor[w].top + k) = Slot(w, cursor[w].top + cursor[w].size)
    BY DEF Bottom
  <2> QED
    BY <2>1, <2>2, <2>3, Zenon
<1>4. old = t => t \in overwritten'
  <2> HAVE old = t
  <2>1. local_dq[w][i] # NoTask
    BY HiveAssumption
  <2>2. Claimed(w, i)
    BY <1>3, <2>1 DEF RingInv
  <2> QED
    BY <2>2 DEF Claimed, Overrun, PushBottom
<1> QED
  BY <1>2, <1>4

LEMMA OverwrittenGrows ==
  ASSUME TypeOK, [Next]_vars
  PROVE  overwritten \subseteq overwritten'
BY DequeMoves
   DEF deque, DequePushed, DequePopped, DequeClaimed, DequeMoved, PushBottom, PopBottom, StealClaim, StealMove

----------------------------------------------------------------------------
TimersOf(t) == {w \in Workers : t \in timers[w]}
Past(t)     == IF t \in ran THEN 1 ELSE 0

\* The places of a task that are counted, for short.
LEMMA PlacesAre ==
  \A t : Places(t) = Occurs(q, t) + InQueues(inbound, t) + InQueues(private_queue, t)
                     + InQueues(local_dq, t) + InQueues(hand, t)
                     + Cardinality(TimersOf(t)) + Cardinality(Pushing(t)) + Past(t)
BY DEF Places, Occurs, TimersOf, Pushing, Past

LEMMA PlacesNumbers ==
  ASSUME TypeOK, NEW t, IsFiniteSet(Pushing(t))
  PROVE  /\ Occurs(q, t) \in Nat /\ InQueues(inbound, t) \in Nat /\ InQueues(private_queue, t) \in Nat
         /\ InQueues(local_dq, t) \in Nat /\ InQueues(hand, t) \in Nat
         /\ IsFiniteSet(TimersOf(t)) /\ Cardinality(TimersOf(t)) \in Nat
         /\ Cardinality(Pushing(t)) \in Nat /\ Past(t) \in {0, 1}
<1>1. /\ q \in Seq(Task) /\ inbound \in [Workers -> Seq(Task)] /\ private_queue \in [Workers -> Seq(Task)]
      /\ hand \in [Workers -> Seq(Task)] /\ DequeTypeOK
  BY DEF TypeOK, QueueTypeOK, LoopTypeOK
<1>3. InQueues(local_dq, t) \in Nat
  BY <1>1, RingRows
<1>2. IsFiniteSet(TimersOf(t))
  <2>1. TimersOf(t) \subseteq Workers
    BY DEF TimersOf
  <2> QED
    BY <2>1, WorkersFinite, FS_Subset
<1> QED
  BY <1>1, <1>2, <1>3, OccursFinite, CellsFacts, FS_CardinalityType DEF Past

LEMMA PlacesNext ==
  \A t : Places(t)' = Occurs(q', t) + InQueues(inbound', t) + InQueues(private_queue', t)
                      + InQueues(local_dq', t) + InQueues(hand', t)
                      + Cardinality(TimersOf(t)') + Cardinality(Pushing(t)') + Past(t)'
BY DEF Places, Occurs, InQueues, Positions, TimersOf, Pushing, Past

\* Taking tasks out of a place and putting them into another changes nothing.
LEMMA LoopPlaces ==
  ASSUME TypeOK, HandInv, TheftInv, RingInv, NEW t \in Task, IsFiniteSet(Pushing(t)), Places(t) <= 1,
         NEW w \in Workers, Loop(w) \/ OtherEvent(w)
  PROVE  \/ Places(t)' = Places(t)
         \/ t \in overwritten' /\ Places(t)' \in 0 .. Places(t)
         \/ PlaceCheck(w) /\ Exiting(w) /\ Places(t)' \in 0 .. Places(t)
<1> DEFINE One(e) == IF e = t THEN 1 ELSE 0
<1>1. /\ q \in Seq(Task) /\ inbound \in [Workers -> Seq(Task)] /\ private_queue \in [Workers -> Seq(Task)]
      /\ hand \in [Workers -> Seq(Task)] /\ DequeTypeOK
      /\ timers \in [Workers -> SUBSET Task] /\ pc \in [Workers -> Labels]
  BY DEF TypeOK, QueueTypeOK, LoopTypeOK
<1>2. /\ Occurs(q, t) \in Nat /\ InQueues(inbound, t) \in Nat /\ InQueues(private_queue, t) \in Nat
      /\ InQueues(local_dq, t) \in Nat /\ InQueues(hand, t) \in Nat
      /\ IsFiniteSet(TimersOf(t)) /\ Cardinality(TimersOf(t)) \in Nat
      /\ Cardinality(Pushing(t)) \in Nat /\ Past(t) \in {0, 1}
  BY PlacesNumbers
<1>3. Places(t) = Occurs(q, t) + InQueues(inbound, t) + InQueues(private_queue, t)
                  + InQueues(local_dq, t) + InQueues(hand, t)
                  + Cardinality(TimersOf(t)) + Cardinality(Pushing(t)) + Past(t)
  BY PlacesAre
<1>4. Places(t)' = Occurs(q', t) + InQueues(inbound', t) + InQueues(private_queue', t)
                   + InQueues(local_dq', t) + InQueues(hand', t)
                   + Cardinality(TimersOf(t)') + Cardinality(Pushing(t)') + Past(t)'
  BY PlacesNext
<1>5. Cardinality(Pushing(t)') = Cardinality(Pushing(t))
  <2>1. Pushing(t)' = Pushing(t)
    BY LoopCallSets
  <2> QED
    BY <2>1, Zenon
<1>6. /\ timers' = timers => Cardinality(TimersOf(t)') = Cardinality(TimersOf(t))
      /\ ran' = ran => Past(t)' = Past(t)
  BY DEF TimersOf, Past
\* A task that is still somewhere has not run.
<1>7. ASSUME NEW e \in Task, Run(w, e),
             e = t => \/ InQueues(private_queue, t) > 0 \/ InQueues(local_dq, t) > 0
                      \/ InQueues(hand, t) > 0 \/ Cardinality(TimersOf(t)) > 0
      PROVE  Past(t)' = Past(t) + One(e)
  <2>1. CASE e = t
    <3>1. Past(t) = 0
      BY <1>2, <1>3, <1>7, <2>1
    <3>2. Past(t)' = 1
      BY <1>7, <2>1 DEF Run, Past
    <3> QED
      BY <2>1, <3>1, <3>2
  <2>2. CASE e # t
    <3>1. Past(t)' = Past(t)
      BY <1>7, <2>2 DEF Run, Past
    <3> QED
      BY <1>2, <2>2, <3>1
  <2> QED
    BY <2>1, <2>2
\* The head of a worker's queue goes, or a task comes at its end.
<1>8. ASSUME NEW f \in [Workers -> Seq(Task)], NEW v \in Workers, f[v] # <<>>
      PROVE  /\ InQueues([f EXCEPT ![v] = Tail(f[v])], t) = InQueues(f, t) - One(Head(f[v]))
             /\ One(Head(f[v])) <= InQueues(f, t) /\ Head(f[v]) \in Task
             /\ [f EXCEPT ![v] = Tail(f[v])] \in [Workers -> Seq(Task)]
  <2>1. f[v] \in Seq(Task) /\ Tail(f[v]) \in Seq(Task) /\ Head(f[v]) \in Task
    BY <1>8, SeqFacts
  <2>2. Occurs(f[v], t) = Occurs(Tail(f[v]), t) + One(Head(f[v]))
    BY <1>8, <2>1, OccursTail
  <2>3. /\ InQueues([f EXCEPT ![v] = Tail(f[v])], t) = InQueues(f, t) - Occurs(f[v], t) + Occurs(Tail(f[v]), t)
        /\ Occurs(f[v], t) <= InQueues(f, t)
    BY <2>1, InQueuesExcept
  <2>4. Occurs(f[v], t) \in Nat /\ Occurs(Tail(f[v]), t) \in Nat /\ InQueues(f, t) \in Nat
    BY <2>1, OccursFinite, CellsFacts
  <2>5. One(Head(f[v])) \in {0, 1}
    OBVIOUS
  <2> HIDE DEF One
  <2>6. /\ InQueues([f EXCEPT ![v] = Tail(f[v])], t) = InQueues(f, t) - One(Head(f[v]))
        /\ One(Head(f[v])) <= InQueues(f, t)
    BY <2>2, <2>3, <2>4, <2>5
  <2> QED
    BY <2>1, <2>6
<1>9. ASSUME NEW f \in [Workers -> Seq(Task)], NEW v \in Workers, NEW e \in Task
      PROVE  InQueues([f EXCEPT ![v] = Append(f[v], e)], t) = InQueues(f, t) + One(e)
  <2>1. /\ InQueues(f, t) \in Nat
        /\ e = t => InQueues(Longer(f, v, e), t) = InQueues(f, t) + 1
        /\ e # t => InQueues(Longer(f, v, e), t) = InQueues(f, t)
    BY InQueuesAppend
  <2>2. InQueues(Longer(f, v, e), t) = InQueues(f, t) + One(e)
    BY <2>1
  <2> QED
    BY <2>2, Zenon DEF Longer
<1>10. \A e : One(e) \in {0, 1} /\ (One(e) > 0 <=> e = t)
  OBVIOUS
<1>20. \A f \in [Workers -> Seq(Task)], v \in Workers, s \in Seq(Task) :
          /\ InQueues([f EXCEPT ![v] = s], t) = InQueues(f, t) - Occurs(f[v], t) + Occurs(s, t)
          /\ Occurs(f[v], t) <= InQueues(f, t)
  BY InQueuesExcept
<1> DEFINE Goal == \/ Places(t)' = Places(t)
                   \/ t \in overwritten' /\ Places(t)' \in 0 .. Places(t)
                   \/ PlaceCheck(w) /\ Exiting(w) /\ Places(t)' \in 0 .. Places(t)
<1>21. Places(t)' = Places(t) => Goal
  OBVIOUS
<1>26. t \in overwritten' /\ Places(t)' \in 0 .. Places(t) => Goal
  OBVIOUS
<1> SUFFICES Goal
  OBVIOUS
\* A slot of a ring changes.
<1>27. ASSUME NEW v \in Workers, NEW i \in Slots(v), NEW x, PutSlot(v, i, x)
       PROVE  /\ InQueues(local_dq', t) = InQueues(local_dq, t) - One(local_dq[v][i]) + One(x)
              /\ One(local_dq[v][i]) <= InQueues(local_dq, t)
  <2>1. /\ InQueues(local_dq, t) \in Nat /\ InQueues(local_dq', t) \in Nat
        /\ local_dq[v][i] = t => InQueues(local_dq, t) > 0
        /\ local_dq[v][i] = t /\ x = t => InQueues(local_dq', t) = InQueues(local_dq, t)
        /\ local_dq[v][i] # t /\ x # t => InQueues(local_dq', t) = InQueues(local_dq, t)
        /\ local_dq[v][i] # t /\ x = t => InQueues(local_dq', t) = InQueues(local_dq, t) + 1
        /\ local_dq[v][i] = t /\ x # t => InQueues(local_dq', t) = InQueues(local_dq, t) - 1
    BY <1>1, <1>27, RingPut
  <2> QED
    BY <2>1
<1>28. ASSUME NEW e \in Task, HasRoom(w), PushBottom(w, e)
       PROVE  \/ InQueues(local_dq', t) = InQueues(local_dq, t) + One(e)
              \/ /\ t \in overwritten' /\ InQueues(local_dq, t) > 0
                 /\ InQueues(local_dq', t) = InQueues(local_dq, t) - 1 + One(e)
  BY <1>1, <1>28, PushPlaces
<1> DEFINE Still == UNCHANGED <<q, inbound, private_queue, local_dq, hand, timers, ran>>
<1>11. CASE Still
  BY <1>2, <1>3, <1>4, <1>5, <1>6, <1>11
<1> HIDE DEF One, Goal
<1>12. CASE Drain(w)
  <2>1. pc[w] = "drain" /\ UNCHANGED <<q, private_queue, local_dq, timers, ran>>
        /\ hand' = [hand EXCEPT ![w] = inbound[w]] /\ inbound' = [inbound EXCEPT ![w] = <<>>]
    BY <1>12 DEF Drain, Choose, Goto, pool, queues, deque
  <2>2. hand[w] = <<>> /\ <<>> \in Seq(Task) /\ inbound[w] \in Seq(Task)
    BY <1>1, <2>1, EmptySeq DEF HandInv, Holding, HandLabels
  <2>3. InQueues([hand EXCEPT ![w] = inbound[w]], t)
          = InQueues(hand, t) - Occurs(hand[w], t) + Occurs(inbound[w], t)
    BY <1>1, <1>20, <2>2, Zenon
  <2>4. /\ InQueues([inbound EXCEPT ![w] = <<>>], t)
             = InQueues(inbound, t) - Occurs(inbound[w], t) + Occurs(<<>>, t)
        /\ Occurs(inbound[w], t) <= InQueues(inbound, t)
    BY <1>1, <1>20, <2>2, Zenon
  <2>5. Occurs(hand[w], t) = 0 /\ Occurs(<<>>, t) = 0 /\ Occurs(inbound[w], t) \in Nat
    BY <2>2, OccursEmpty, OccursFinite
  <2>6. /\ q' = q /\ private_queue' = private_queue /\ local_dq' = local_dq
        /\ timers' = timers /\ ran' = ran
    BY <1>12 DEF Drain, pool, queues, deque
  <2>7. Cardinality(TimersOf(t)') = Cardinality(TimersOf(t)) /\ Past(t)' = Past(t)
    BY <1>6, <2>6
  <2>8. Occurs(q', t) = Occurs(q, t) /\ InQueues(private_queue', t) = InQueues(private_queue, t)
        /\ InQueues(local_dq', t) = InQueues(local_dq, t)
    BY <2>6, Zenon
  <2>9. /\ InQueues(hand', t) = InQueues(hand, t) - Occurs(hand[w], t) + Occurs(inbound[w], t)
        /\ InQueues(inbound', t) = InQueues(inbound, t) - Occurs(inbound[w], t) + Occurs(<<>>, t)
    BY <2>1, <2>3, <2>4, Zenon
  <2> QED
    BY <1>2, <1>3, <1>4, <1>5, <1>21, <2>4, <2>5, <2>7, <2>8, <2>9
<1>13. CASE Sort(w)
  <2> DEFINE e == Head(hand[w])
  <2>1. hand[w] # <<>> /\ UNCHANGED <<q, inbound, local_dq, ran>> /\ hand' = [hand EXCEPT ![w] = Tail(hand[w])]
    BY <1>13 DEF Sort, pool, mail, deque
  <2>2. /\ InQueues(hand', t) = InQueues(hand, t) - One(e)
        /\ One(e) <= InQueues(hand, t) /\ e \in Task
    BY <1>1, <1>8, <2>1
  <2> HIDE DEF e
  <2>3. Occurs(q', t) = Occurs(q, t) /\ InQueues(inbound', t) = InQueues(inbound, t)
        /\ InQueues(local_dq', t) = InQueues(local_dq, t) /\ Past(t)' = Past(t)
    BY <1>6, <2>1
  <2>4. CASE post[e].kind = "private"
    <3>1. private_queue' = [private_queue EXCEPT ![w] = Append(private_queue[w], e)] /\ timers' = timers
      BY <1>13, <2>4 DEF Sort, e
    <3>2. InQueues(private_queue', t) = InQueues(private_queue, t) + One(e)
      BY <1>1, <1>9, <2>2, <3>1
    <3>3. Cardinality(TimersOf(t)') = Cardinality(TimersOf(t))
      BY <1>6, <3>1
    <3> QED
      BY <1>2, <1>3, <1>4, <1>5, <1>10, <1>21, <2>2, <2>3, <3>2, <3>3
  <2>5. CASE post[e].kind # "private"
    <3>1. timers' = [timers EXCEPT ![w] = timers[w] \cup {e}] /\ private_queue' = private_queue
      BY <1>13, <2>5 DEF Sort, e
    <3>2. Cardinality(TimersOf(t)') = Cardinality(TimersOf(t)) + One(e)
      <4>1. CASE e = t
        <5>1. One(e) = 1
          BY <1>10, <4>1
        <5>2. Cardinality(TimersOf(t)) = 0
          BY <1>2, <1>3, <2>2, <5>1
        <5>3. TimersOf(t) = {}
          BY <1>2, <5>2, FS_EmptySet
        <5>4. TimersOf(t)' = {w}
          BY <1>1, <3>1, <4>1, <5>3 DEF TimersOf
        <5>5. Cardinality(TimersOf(t)') = 1
          BY <5>4, FS_Singleton, Zenon
        <5> QED
          BY <5>1, <5>2, <5>5
      <4>2. CASE e # t
        <5>1. TimersOf(t)' = TimersOf(t)
          BY <1>1, <3>1, <4>2 DEF TimersOf
        <5>2. Cardinality(TimersOf(t)') = Cardinality(TimersOf(t))
          BY <5>1, Zenon
        <5>3. One(e) = 0
          BY <1>10, <4>2
        <5> QED
          BY <1>2, <5>2, <5>3
      <4> QED
        BY <4>1, <4>2
    <3>3. InQueues(private_queue', t) = InQueues(private_queue, t)
      BY <3>1
    <3> QED
      BY <1>2, <1>3, <1>4, <1>5, <1>10, <1>21, <2>2, <2>3, <3>2, <3>3
  <2> QED
    BY <2>4, <2>5
\* The step takes a task out of one of the queues and runs it.
<1>14. CASE PrivateRun(w)
  <2> DEFINE e == Head(private_queue[w])
  <2>1. private_queue[w] # <<>> /\ Run(w, e)
    BY <1>14 DEF PrivateRun
  <2>2. /\ q' = q /\ inbound' = inbound /\ local_dq' = local_dq /\ hand' = hand /\ timers' = timers
    BY <1>14 DEF PrivateRun, pool, mail, deque
  <2>3. private_queue' = [private_queue EXCEPT ![w] = Tail(private_queue[w])]
    BY <1>14 DEF PrivateRun
  <2>4. /\ InQueues([private_queue EXCEPT ![w] = Tail(private_queue[w])], t) = InQueues(private_queue, t) - One(e)
        /\ One(e) <= InQueues(private_queue, t) /\ e \in Task
    BY <1>1, <1>8, <2>1
  <2>5. InQueues(private_queue', t) = InQueues(private_queue, t) - One(e)
    BY <2>3, <2>4, Zenon
  <2>9. One(e) <= InQueues(private_queue, t)
    BY <2>4
  <2> HIDE DEF e
  <2>6. e = t => InQueues(private_queue, t) > 0
    BY <1>2, <1>10, <2>4
  <2>7. Past(t)' = Past(t) + One(e)
    BY <1>7, <2>1, <2>4, <2>6
  <2>8. /\ Occurs(q', t) = Occurs(q, t) /\ InQueues(inbound', t) = InQueues(inbound, t)
        /\ InQueues(local_dq', t) = InQueues(local_dq, t) /\ InQueues(hand', t) = InQueues(hand, t)
        /\ Cardinality(TimersOf(t)') = Cardinality(TimersOf(t))
    BY <1>6, <2>2, Zenon
  <2> QED
    BY <1>2, <1>3, <1>4, <1>5, <1>10, <1>21, <2>5, <2>7, <2>8, <2>9
<1>15. CASE LocalRun(w)
  <2> DEFINE i == Newest(w)
             e == local_dq[w][i]
  <2>1. i \in Slots(w) /\ e \in Task \cup {NoTask}
    <3>1. cursor[w].size > 0
      BY <1>1, <1>15 DEF LocalRun, DequeTypeOK
    <3> QED
      BY <1>1, <3>1, DequeSlots DEF DequeTypeOK
  <2>2. /\ q' = q /\ inbound' = inbound /\ private_queue' = private_queue /\ hand' = hand /\ timers' = timers
    BY <1>15 DEF LocalRun, pool, mail
  <2>3. local_dq' = [local_dq EXCEPT ![w][i] = NoTask]
    BY <1>15 DEF LocalRun, PopBottom
  <2>4. (e # NoTask /\ Run(w, e)) \/ (e = NoTask /\ ran' = ran)
    BY <1>15 DEF LocalRun
  <2>5. /\ InQueues(local_dq', t) = InQueues(local_dq, t) - One(e) + One(NoTask)
        /\ One(e) <= InQueues(local_dq, t)
    BY <1>27, <2>1, <2>3 DEF PutSlot
  <2>6. One(NoTask) = 0
    BY HiveAssumption DEF One
  <2> HIDE DEF e, i
  <2>7. Past(t)' = Past(t) + One(e)
    <3>1. CASE e # NoTask /\ Run(w, e)
      <4>1. e = t => InQueues(local_dq, t) > 0
        BY <1>2, <1>10, <2>5
      <4> QED
        BY <1>7, <2>1, <3>1, <4>1
    <3>2. CASE e = NoTask /\ ran' = ran
      BY <1>2, <1>6, <2>6, <3>2
    <3> QED
      BY <2>4, <3>1, <3>2
  <2>8. /\ Occurs(q', t) = Occurs(q, t) /\ InQueues(inbound', t) = InQueues(inbound, t)
        /\ InQueues(private_queue', t) = InQueues(private_queue, t) /\ InQueues(hand', t) = InQueues(hand, t)
        /\ Cardinality(TimersOf(t)') = Cardinality(TimersOf(t))
    BY <1>6, <2>2, Zenon
  <2> QED
    BY <1>2, <1>3, <1>4, <1>5, <1>10, <1>21, <2>5, <2>6, <2>7, <2>8
<1>16. CASE PlaceInline(w) \/ StealInline(w)
  <2> DEFINE e == Head(hand[w])
  <2>1. hand[w] # <<>> /\ Run(w, e)
    BY <1>16 DEF PlaceInline, StealInline
  <2>2. /\ q' = q /\ inbound' = inbound /\ private_queue' = private_queue /\ local_dq' = local_dq
        /\ timers' = timers
    BY <1>16 DEF PlaceInline, StealInline, pool, mail, queues, deque
  <2>3. hand' = [hand EXCEPT ![w] = Tail(hand[w])]
    BY <1>16 DEF PlaceInline, StealInline
  <2>4. /\ InQueues([hand EXCEPT ![w] = Tail(hand[w])], t) = InQueues(hand, t) - One(e)
        /\ One(e) <= InQueues(hand, t) /\ e \in Task
    BY <1>1, <1>8, <2>1
  <2>5. InQueues(hand', t) = InQueues(hand, t) - One(e)
    BY <2>3, <2>4, Zenon
  <2>9. One(e) <= InQueues(hand, t)
    BY <2>4
  <2> HIDE DEF e
  <2>6. e = t => InQueues(hand, t) > 0
    BY <1>2, <1>10, <2>4
  <2>7. Past(t)' = Past(t) + One(e)
    BY <1>7, <2>1, <2>4, <2>6
  <2>8. /\ Occurs(q', t) = Occurs(q, t) /\ InQueues(inbound', t) = InQueues(inbound, t)
        /\ InQueues(private_queue', t) = InQueues(private_queue, t)
        /\ InQueues(local_dq', t) = InQueues(local_dq, t)
        /\ Cardinality(TimersOf(t)') = Cardinality(TimersOf(t))
    BY <1>6, <2>2, Zenon
  <2> QED
    BY <1>2, <1>3, <1>4, <1>5, <1>10, <1>21, <2>5, <2>7, <2>8, <2>9
<1>17. CASE TimerRun(w)
  <2>1. PICK e \in timers[w] : Run(w, e) /\ timers' = [timers EXCEPT ![w] = timers[w] \ {e}]
    BY <1>17 DEF TimerRun
  <2>2. /\ q' = q /\ inbound' = inbound /\ private_queue' = private_queue /\ local_dq' = local_dq
        /\ hand' = hand
    BY <1>17 DEF TimerRun, pool, mail, deque
  <2>3. e \in Task /\ (e = t => w \in TimersOf(t))
    BY <1>1 DEF TimersOf
  <2>4. Cardinality(TimersOf(t)') = Cardinality(TimersOf(t)) - One(e) /\ One(e) <= Cardinality(TimersOf(t))
    <3>1. CASE e = t
      <4>1. TimersOf(t)' = TimersOf(t) \ {w} /\ w \in TimersOf(t)
        BY <1>1, <2>1, <2>3, <3>1 DEF TimersOf
      <4>2. Cardinality(TimersOf(t) \ {w}) = Cardinality(TimersOf(t)) - 1
            /\ Cardinality(TimersOf(t) \ {w}) \in Nat
        BY <1>2, <4>1, FS_RemoveElement, FS_CardinalityType
      <4>3. Cardinality(TimersOf(t)') = Cardinality(TimersOf(t)) - 1
        BY <4>1, <4>2, Zenon
      <4>4. One(e) = 1
        BY <3>1 DEF One
      <4> QED
        BY <1>2, <4>2, <4>3, <4>4
    <3>2. CASE e # t
      <4>1. TimersOf(t)' = TimersOf(t)
        BY <1>1, <2>1, <3>2 DEF TimersOf
      <4>2. Cardinality(TimersOf(t)') = Cardinality(TimersOf(t))
        BY <4>1, Zenon
      <4>3. One(e) = 0
        BY <3>2 DEF One
      <4> QED
        BY <1>2, <4>2, <4>3
    <3> QED
      BY <3>1, <3>2
  <2>5. e = t => Cardinality(TimersOf(t)) > 0
    BY <1>2, <1>10, <2>4
  <2>6. Past(t)' = Past(t) + One(e)
    BY <1>7, <2>1, <2>3, <2>5
  <2>7. /\ Occurs(q', t) = Occurs(q, t) /\ InQueues(inbound', t) = InQueues(inbound, t)
        /\ InQueues(private_queue', t) = InQueues(private_queue, t)
        /\ InQueues(local_dq', t) = InQueues(local_dq, t) /\ InQueues(hand', t) = InQueues(hand, t)
    BY <2>2, Zenon
  <2> QED
    BY <1>2, <1>3, <1>4, <1>5, <1>10, <1>21, <2>4, <2>6, <2>7
<1>18. CASE Harvest(w)
  <2> DEFINE taken == SubSeq(q, 1, BatchSize)
             kept == SubSeq(q, BatchSize + 1, Len(q))
  <2>1. /\ inbound' = inbound /\ private_queue' = private_queue /\ local_dq' = local_dq
        /\ timers' = timers /\ ran' = ran
    BY <1>18 DEF Harvest, mail, queues, deque
  <2>2. pc[w] = "harvest" /\ q' = kept /\ hand' = [hand EXCEPT ![w] = taken]
    BY <1>18 DEF Harvest, Choose, Goto
  <2>3. hand[w] = <<>>
    BY <2>2 DEF HandInv, Holding, HandLabels
  <2>4. BatchSize \in 0 .. Len(q) /\ taken \in Seq(Task) /\ kept \in Seq(Task)
    BY <1>1, HarvestSplit
  <2>5. Occurs(q, t) = Occurs(taken, t) + Occurs(kept, t)
    BY <1>1, <2>4, OccursSplit
  <2>6. /\ Occurs(taken, t) \in Nat /\ Occurs(kept, t) \in Nat
    BY <2>4, OccursFinite
  <2>7. InQueues([hand EXCEPT ![w] = taken], t) = InQueues(hand, t) - Occurs(hand[w], t) + Occurs(taken, t)
    BY <1>1, <1>20, <2>4, Zenon
  <2>8. Occurs(hand[w], t) = 0
    BY <2>3, OccursEmpty
  <2> HIDE DEF taken, kept
  <2>9. InQueues(hand', t) = InQueues(hand, t) - Occurs(hand[w], t) + Occurs(taken, t)
    BY <2>2, <2>7, Zenon
  <2>10. Occurs(q', t) = Occurs(kept, t)
    BY <2>2, Zenon
  <2>11. /\ InQueues(inbound', t) = InQueues(inbound, t)
         /\ InQueues(private_queue', t) = InQueues(private_queue, t)
         /\ InQueues(local_dq', t) = InQueues(local_dq, t)
         /\ Cardinality(TimersOf(t)') = Cardinality(TimersOf(t)) /\ Past(t)' = Past(t)
    BY <1>6, <2>1, Zenon
  <2> QED
    BY <1>2, <1>3, <1>4, <1>5, <1>21, <2>5, <2>6, <2>8, <2>9, <2>10, <2>11
<1>19. CASE PlaceLocal(w) \/ StealPush(w)
  <2> DEFINE e == Head(hand[w])
  <2>1. hand[w] # <<>> /\ HasRoom(w) /\ PushBottom(w, e)
    BY <1>19 DEF PlaceLocal, StealPush
  <2>2. /\ q' = q /\ inbound' = inbound /\ private_queue' = private_queue
        /\ timers' = timers /\ ran' = ran
    BY <1>19 DEF PlaceLocal, StealPush, pool, mail
  <2>3. hand' = [hand EXCEPT ![w] = Tail(hand[w])]
    BY <1>19 DEF PlaceLocal, StealPush
  <2>4. /\ InQueues([hand EXCEPT ![w] = Tail(hand[w])], t) = InQueues(hand, t) - One(e) /\ e \in Task
        /\ One(e) <= InQueues(hand, t)
    BY <1>1, <1>8, <2>1
  <2>5. InQueues(hand', t) = InQueues(hand, t) - One(e) /\ One(e) <= InQueues(hand, t)
    BY <2>3, <2>4, Zenon
  <2>6. \/ InQueues(local_dq', t) = InQueues(local_dq, t) + One(e)
        \/ /\ t \in overwritten' /\ InQueues(local_dq, t) > 0
           /\ InQueues(local_dq', t) = InQueues(local_dq, t) - 1 + One(e)
    BY <1>28, <2>1, <2>4
  <2> HIDE DEF e
  <2>7. /\ Occurs(q', t) = Occurs(q, t) /\ InQueues(inbound', t) = InQueues(inbound, t)
        /\ InQueues(private_queue', t) = InQueues(private_queue, t)
        /\ Cardinality(TimersOf(t)') = Cardinality(TimersOf(t)) /\ Past(t)' = Past(t)
    BY <1>6, <2>2, Zenon
  <2>8. CASE InQueues(local_dq', t) = InQueues(local_dq, t) + One(e)
    BY <1>2, <1>3, <1>4, <1>5, <1>10, <1>21, <2>5, <2>7, <2>8
  <2>9. CASE /\ t \in overwritten' /\ InQueues(local_dq, t) > 0
             /\ InQueues(local_dq', t) = InQueues(local_dq, t) - 1 + One(e)
    <3>1. Places(t)' = Places(t) - 1 /\ Places(t) \in Nat /\ Places(t) > 0
      BY <1>2, <1>3, <1>4, <1>5, <1>10, <2>5, <2>7, <2>9
    <3>2. Places(t)' \in 0 .. Places(t)
      BY <3>1
    <3> QED
      BY <1>26, <2>9, <3>2
  <2> QED
    BY <2>6, <2>8, <2>9
\* The thief takes what the slot holds into its hands.
<1>22. CASE StealMove(w)
  <2> DEFINE v == claimed[w].victim
             i == claimed[w].slot
             e == local_dq[v][i]
             s == IF e = NoTask THEN <<>> ELSE <<e>>
  <2>1. pc[w] = "steal_move"
    BY <1>22 DEF StealMove, Goto
  <2>2. v \in Workers /\ i \in Slots(v) /\ e \in Task \cup {NoTask}
    <3>1. claimed[w] # NoClaim
      BY <2>1 DEF TheftInv, Stealing
    <3>2. v \in Workers /\ i \in Slots(v)
      BY <1>1, <3>1 DEF DequeTypeOK
    <3> QED
      BY <1>1, <3>2 DEF DequeTypeOK
  <2>3. hand[w] = <<>>
    BY <2>1 DEF HandInv, Holding, HandLabels
  <2>4. local_dq' = [local_dq EXCEPT ![v][i] = NoTask] /\ hand' = [hand EXCEPT ![w] = s]
    BY <1>22 DEF StealMove
  <2>5. /\ q' = q /\ inbound' = inbound /\ private_queue' = private_queue
        /\ timers' = timers /\ ran' = ran
    BY <1>22 DEF StealMove, pool, mail
  <2>6. /\ InQueues(local_dq', t) = InQueues(local_dq, t) - One(e) + One(NoTask)
        /\ One(e) <= InQueues(local_dq, t)
    BY <1>27, <2>2, <2>4 DEF PutSlot
  <2>7. One(NoTask) = 0
    BY HiveAssumption DEF One
  <2>8. s \in Seq(Task) /\ Occurs(s, t) = One(e)
    <3>1. CASE e = NoTask
      <4>1. s = <<>>
        BY <3>1
      <4> QED
        BY <2>7, <3>1, <4>1, EmptySeq, OccursEmpty
    <3>2. CASE e # NoTask
      <4>1. e \in Task /\ s = <<e>>
        BY <2>2, <3>2
      <4>2. <<>> \in Seq(Task) /\ Append(<<>>, e) = <<e>>
        BY <4>1, EmptySeq
      <4> HIDE DEF e, s
      <4>3. Occurs(Append(<<>>, e), t) = Occurs(<<>>, t) + IF e = t THEN 1 ELSE 0
        BY <4>1, <4>2, OccursAppend
      <4>4. Append(<<>>, e) \in Seq(Task)
        BY <4>1, <4>2, AppendProperties
      <4> QED
        BY <4>1, <4>2, <4>3, <4>4, OccursEmpty DEF One
    <3> QED
      BY <3>1, <3>2
  <2> HIDE DEF e, s, v, i
  <2>9. InQueues([hand EXCEPT ![w] = s], t) = InQueues(hand, t) - Occurs(hand[w], t) + Occurs(s, t)
    BY <1>1, <1>20, <2>8, Zenon
  <2>10. InQueues(hand', t) = InQueues(hand, t) - Occurs(hand[w], t) + Occurs(s, t)
    BY <2>4, <2>9, Zenon
  <2>11. Occurs(hand[w], t) = 0
    BY <2>3, OccursEmpty, Zenon
  <2>12. /\ Occurs(q', t) = Occurs(q, t) /\ InQueues(inbound', t) = InQueues(inbound, t)
         /\ InQueues(private_queue', t) = InQueues(private_queue, t)
         /\ Cardinality(TimersOf(t)') = Cardinality(TimersOf(t)) /\ Past(t)' = Past(t)
    BY <1>6, <2>5, Zenon
  <2> QED
    BY <1>2, <1>3, <1>4, <1>5, <1>10, <1>21, <2>6, <2>7, <2>8, <2>10, <2>11, <2>12
\* An exit drops the batch.
<1>23. CASE PlaceCheck(w)
  <2>1. /\ q' = q /\ inbound' = inbound /\ private_queue' = private_queue /\ local_dq' = local_dq
        /\ timers' = timers /\ ran' = ran
    BY <1>23 DEF PlaceCheck, hiveVars, pool, mail, queues, deque
  <2>2. CASE ~Exiting(w)
    <3>1. hand' = hand
      BY <1>1, <1>23, <2>2 DEF PlaceCheck
    <3> QED
      BY <1>11, <2>1, <3>1
  <2>3. CASE Exiting(w)
    <3>1. hand' = [hand EXCEPT ![w] = <<>>]
      BY <1>23, <2>3 DEF PlaceCheck
    <3>2. <<>> \in Seq(Task) /\ hand[w] \in Seq(Task)
      BY <1>1, EmptySeq
    <3>3. /\ InQueues([hand EXCEPT ![w] = <<>>], t) = InQueues(hand, t) - Occurs(hand[w], t) + Occurs(<<>>, t)
          /\ Occurs(hand[w], t) <= InQueues(hand, t)
      BY <1>1, <1>20, <3>2, Zenon
    <3>4. Occurs(<<>>, t) = 0 /\ Occurs(hand[w], t) \in Nat
      BY <3>2, OccursEmpty, OccursFinite
    <3>5. InQueues(hand', t) = InQueues(hand, t) - Occurs(hand[w], t) + Occurs(<<>>, t)
      BY <3>1, <3>3, Zenon
    <3>6. Occurs(hand[w], t) <= InQueues(hand, t)
      BY <3>3
    <3>7. /\ Occurs(q', t) = Occurs(q, t) /\ InQueues(inbound', t) = InQueues(inbound, t)
          /\ InQueues(private_queue', t) = InQueues(private_queue, t)
          /\ InQueues(local_dq', t) = InQueues(local_dq, t)
          /\ Cardinality(TimersOf(t)') = Cardinality(TimersOf(t)) /\ Past(t)' = Past(t)
      BY <1>6, <2>1, Zenon
    <3>8. Places(t)' = Places(t) - Occurs(hand[w], t)
      BY ONLY <1>2, <1>3, <1>4, <1>5, <3>4, <3>5, <3>7
    <3>9. Places(t) \in Nat /\ Occurs(hand[w], t) <= Places(t)
      BY <1>2, <1>3, <3>4, <3>6
    <3>10. \A m, n \in Nat : m <= n => n - m \in 0 .. n
      OBVIOUS
    <3>11. Places(t)' \in 0 .. Places(t)
      BY <3>4, <3>8, <3>9, <3>10, Zenon
    <3> QED
      BY <1>23, <2>3, <3>11 DEF Goal
  <2> QED
    BY <2>2, <2>3
<1>24. CASE \/ StartWakeup(w) \/ LoopHead(w) \/ PeekInbound(w) \/ PeekLocal(w) \/ PeekGlobal(w)
            \/ SleepOn(w) \/ WaitReturns(w) \/ DispatchWakeup(w) \/ SleepOff(w) \/ DrainCount(w)
            \/ PrivateCheck(w) \/ TimersNow(w) \/ OtherEvent(w)
  BY <1>11, <1>24
     DEF StartWakeup, LoopHead, PeekInbound, PeekLocal, PeekGlobal, SleepOn, WaitReturns, DispatchWakeup,
         SleepOff, DrainCount, PrivateCheck, TimersNow, OtherEvent, Timeout, Proceed, hiveVars, pool, mail,
         queues,
         deque
<1>25. CASE \/ TimerCheck(w) \/ ExitCheck(w) \/ LocalDone(w) \/ LocalCheck(w) \/ HarvestCount(w)
            \/ PlaceDone(w) \/ Leave(w) \/ TaskReturns(w)
  BY <1>11, <1>25
     DEF TimerCheck, ExitCheck, LocalDone, LocalCheck, HarvestCount, PlaceDone, Leave, TaskReturns, Proceed,
         hiveVars, pool, mail, queues, deque, locals
<1>29. CASE StealTry(w) \/ StealGiveUp(w) \/ StealStop(w) \/ StealClaim(w) \/ StealNothing(w)
  BY <1>11, <1>29
     DEF StealTry, StealGiveUp, StealStop, StealClaim, StealNothing, hiveVars, pool, mail, queues, deque
<1> QED
  BY <1>12, <1>13, <1>14, <1>15, <1>16, <1>17, <1>18, <1>19, <1>22, <1>23, <1>24, <1>25, <1>29 DEF Loop

LEMMA LoopFrame ==
  ASSUME NEW w \in Workers, Loop(w) \/ OtherEvent(w)
  PROVE  post' = post /\ exit_requested' = exit_requested /\ stop_requested' = stop_requested
BY DEF Loop, StartWakeup, LoopHead, PeekInbound, PeekLocal, PeekGlobal, SleepOn, WaitReturns, DispatchWakeup,
       SleepOff, Drain, DrainCount, Sort, PrivateRun, PrivateCheck, TimersNow, TimerRun, TimerCheck,
       ExitCheck,
       LocalRun, LocalDone, LocalCheck, Harvest, HarvestCount, PlaceLocal, PlaceInline, PlaceCheck, PlaceDone,
       StealTry, StealGiveUp, StealPush, StealInline, StealNothing, StealPlaced, StealClaim, StealMove,
       StealStop, Leave, TaskReturns, OtherEvent, Timeout, Proceed,
       hiveVars, flags

\* A call brings a task that was not posted into one place, or moves it from the
\* call into the inbound queue; a push into a local deque may write over another.
LEMMA CallPlaces ==
  ASSUME TypeOK, PushInv, RingInv, NEW t \in Task, IsFiniteSet(Pushing(t)), NEW a \in Agents,
         post[t] = NotPosted => Places(t) = 0,
         ContinueCall(a) \/ StartCall(a) \/ (a = 0 /\ Exchange(a) /\ hand' = hand /\ call[a] = NoCall),
         hand' = hand
  PROVE  /\ IsFiniteSet(Pushing(t)')
         /\ \/ post'[t] = post[t] /\ Places(t)' = Places(t)
            \/ post'[t] = post[t] /\ t \in overwritten' /\ Places(t)' \in 0 .. Places(t)
            \/ post[t] = NotPosted /\ post'[t] # NotPosted /\ Places(t)' = Places(t) + 1
         /\ exit_requested => exit_requested'
         /\ stop_requested \subseteq stop_requested'
<1> DEFINE One(e) == IF e = t THEN 1 ELSE 0
           Moved == /\ IsFiniteSet(Pushing(t)')
                    /\ \/ post'[t] = post[t] /\ Places(t)' = Places(t)
                       \/ post'[t] = post[t] /\ t \in overwritten' /\ Places(t)' \in 0 .. Places(t)
                       \/ post[t] = NotPosted /\ post'[t] # NotPosted /\ Places(t)' = Places(t) + 1
<1>1. /\ q \in Seq(Task) /\ inbound \in [Workers -> Seq(Task)]
      /\ DequeTypeOK
      /\ call \in [Agents -> [at : CallLabels, task : Task \cup {NoTask}, to : Workers]]
  BY DEF TypeOK, QueueTypeOK, CallTypeOK
<1>2. /\ Occurs(q, t) \in Nat /\ InQueues(inbound, t) \in Nat /\ InQueues(private_queue, t) \in Nat
      /\ InQueues(local_dq, t) \in Nat /\ InQueues(hand, t) \in Nat
      /\ IsFiniteSet(TimersOf(t)) /\ Cardinality(TimersOf(t)) \in Nat
      /\ Cardinality(Pushing(t)) \in Nat /\ Past(t) \in {0, 1}
  BY PlacesNumbers
<1>3. Places(t) = Occurs(q, t) + InQueues(inbound, t) + InQueues(private_queue, t)
                  + InQueues(local_dq, t) + InQueues(hand, t)
                  + Cardinality(TimersOf(t)) + Cardinality(Pushing(t)) + Past(t)
  BY PlacesAre
<1>4. Places(t)' = Occurs(q', t) + InQueues(inbound', t) + InQueues(private_queue', t)
                   + InQueues(local_dq', t) + InQueues(hand', t)
                   + Cardinality(TimersOf(t)') + Cardinality(Pushing(t)') + Past(t)'
  BY PlacesNext
<1>5. /\ timers' = timers => Cardinality(TimersOf(t)') = Cardinality(TimersOf(t))
      /\ ran' = ran => Past(t)' = Past(t)
  BY DEF TimersOf, Past
<1>6. InQueues(hand', t) = InQueues(hand, t)
  BY Zenon
\* The calls that push nothing and announce nothing.
<1>7. ASSUME NEW c, call' = [call EXCEPT ![a] = c], call[a].at # "in_push", c.at # "in_push"
      PROVE  IsFiniteSet(Pushing(t)') /\ Cardinality(Pushing(t)') = Cardinality(Pushing(t))
  <2>1. Pushing(t)' = Pushing(t)
    BY <1>1, <1>7 DEF Pushing
  <2> QED
    BY <2>1, Zenon
<1>8. \A e : One(e) \in {0, 1} /\ (One(e) > 0 <=> e = t)
  OBVIOUS
\* The posts that push at once.
<1>9. ASSUME UNCHANGED <<private_queue, timers, ran>>,
             IsFiniteSet(Pushing(t)'), Cardinality(Pushing(t)') = Cardinality(Pushing(t)),
             NEW n \in {0, 1},
             Occurs(q', t) + InQueues(inbound', t) + InQueues(local_dq', t)
               = Occurs(q, t) + InQueues(inbound, t) + InQueues(local_dq, t) + n,
             Occurs(q', t) \in Nat, InQueues(inbound', t) \in Nat, InQueues(local_dq', t) \in Nat
      PROVE  IsFiniteSet(Pushing(t)') /\ Places(t)' = Places(t) + n
  <2>1. /\ InQueues(private_queue', t) = InQueues(private_queue, t)
        /\ Cardinality(TimersOf(t)') = Cardinality(TimersOf(t)) /\ Past(t)' = Past(t)
    BY <1>5, <1>9, Zenon
  <2>2. Occurs(q', t) + InQueues(inbound', t) + InQueues(local_dq', t)
          = Occurs(q, t) + InQueues(inbound, t) + InQueues(local_dq, t) + n
    BY <1>9
  <2>3. Occurs(q', t) \in Nat /\ InQueues(inbound', t) \in Nat /\ InQueues(local_dq', t) \in Nat
    BY <1>9
  <2>4. Cardinality(Pushing(t)') = Cardinality(Pushing(t))
    BY <1>9
  <2>5. Places(t)' = Places(t) + n
    BY <1>2, <1>3, <1>4, <1>6, <1>9, <2>1, <2>2, <2>3, <2>4
  <2> QED
    BY <1>9, <2>5
<1> HIDE DEF Moved
<1>10. IsFiniteSet(Pushing(t)') /\ post'[t] = post[t] /\ Places(t)' = Places(t) => Moved
  BY DEF Moved
<1>11. IsFiniteSet(Pushing(t)') /\ post[t] = NotPosted /\ post'[t] # NotPosted /\ Places(t)' = Places(t) + 1 => Moved
  BY DEF Moved
<1>12. Places(t) \in Nat
  BY <1>2, <1>3
\* Nothing is posted and no queue changes.
<1>13. ASSUME UNCHANGED <<q, inbound, local_dq, private_queue, timers, ran, post>>,
              NEW c, call' = [call EXCEPT ![a] = c], call[a].at # "in_push", c.at # "in_push"
       PROVE  Moved
  <2>1. IsFiniteSet(Pushing(t)') /\ Cardinality(Pushing(t)') = Cardinality(Pushing(t))
    BY <1>7, <1>13
  <2>2. /\ Occurs(q', t) = Occurs(q, t) /\ InQueues(inbound', t) = InQueues(inbound, t)
        /\ InQueues(local_dq', t) = InQueues(local_dq, t) /\ UNCHANGED <<private_queue, timers, ran>>
    BY <1>13, Zenon
  <2>3. Places(t)' = Places(t) + 0
    BY <1>2, <1>9, <2>1, <2>2
  <2>4. post'[t] = post[t]
    BY <1>13
  <2> QED
    BY <1>10, <1>12, <2>1, <2>3, <2>4
<1>14. ASSUME call[a].at # "in_push", UNCHANGED <<q, inbound, local_dq, private_queue, timers, ran, post>>,
              call' = call \/ Return(a) \/ \E l, e, v : l # "in_push" /\ Continue(a, l, e, v)
       PROVE  Moved
  <2>1. call' = call => call' = [call EXCEPT ![a] = call[a]]
    BY <1>1
  <2> QED
    BY <1>13, <1>14, <2>1 DEF Return, Continue, NoCall, Body
\* The task of a post: it was nowhere, and it is the one that comes.
<1>15. ASSUME NEW e \in Task, NEW kind, kind # "none", NEW v, NEW d, Posted(e, kind, v, d)
       PROVE  IF e = t THEN post[t] = NotPosted /\ post'[t] # NotPosted ELSE post'[t] = post[t]
  <2>1. /\ post' = [post EXCEPT ![e] = [kind |-> kind, worker |-> v, deadline |-> d]]
        /\ post[e] = NotPosted
    BY <1>15 DEF Posted
  <2>2. [kind |-> kind, worker |-> v, deadline |-> d] # NotPosted
    BY <1>15 DEF NotPosted
  <2>3. DOMAIN post = Task
    BY DEF TypeOK, CallTypeOK
  <2> QED
    BY <2>1, <2>2, <2>3
<1>16. ASSUME NEW e \in Task, NEW kind, kind # "none", NEW v, NEW d, Posted(e, kind, v, d),
              IsFiniteSet(Pushing(t)'), Places(t)' = Places(t) + One(e)
       PROVE  Moved
  <2>1. IF e = t THEN One(e) = 1 ELSE One(e) = 0
    OBVIOUS
  <2> HIDE DEF One
  <2> QED
    BY <1>10, <1>11, <1>12, <1>15, <1>16, <2>1
<1> HIDE DEF One
<1>17. \A kind : MayCall(a, kind) => call[a].at # "in_push"
  BY DEF MayCall, Body, NoCall
\* Into the global pool.
<1>18. ASSUME NEW e \in Task, Posted(e, "io", 0, 0), GlobalPush(e), Continue(a, "io_count", e, 0),
              UNCHANGED <<inbound, local_dq, private_queue, timers, ran>>, call[a].at # "in_push"
       PROVE  Moved
  <2>1. IsFiniteSet(Pushing(t)') /\ Cardinality(Pushing(t)') = Cardinality(Pushing(t))
    <3>1. call' = [call EXCEPT ![a] = [at |-> "io_count", task |-> e, to |-> 0]] /\ call[a].at # "in_push"
      BY <1>18 DEF Continue
    <3>2. [at |-> "io_count", task |-> e, to |-> 0].at # "in_push"
      OBVIOUS
    <3> QED
      BY <1>7, <3>1, <3>2, Zenon
  <2>2. Occurs(Append(q, e), t) = Occurs(q, t) + One(e)
    BY <1>1, OccursAppend DEF One
  <2>3. q' = Append(q, e) /\ inbound' = inbound /\ local_dq' = local_dq
    BY <1>18 DEF GlobalPush
  <2>4. /\ Occurs(q', t) = Occurs(q, t) + One(e) /\ InQueues(inbound', t) = InQueues(inbound, t)
        /\ InQueues(local_dq', t) = InQueues(local_dq, t)
    BY <2>2, <2>3, Zenon
  <2>5. One(e) \in {0, 1}
    BY <1>8
  <2>6. /\ Occurs(q', t) + InQueues(inbound', t) + InQueues(local_dq', t)
             = Occurs(q, t) + InQueues(inbound, t) + InQueues(local_dq, t) + One(e)
        /\ Occurs(q', t) \in Nat /\ InQueues(inbound', t) \in Nat /\ InQueues(local_dq', t) \in Nat
    BY <1>2, <2>4, <2>5
  <2>7. UNCHANGED <<private_queue, timers, ran>>
    BY <1>18
  <2>8. Places(t)' = Places(t) + One(e)
    BY <1>9, <2>1, <2>5, <2>6, <2>7
  <2> QED
    BY <1>16, <1>18, <2>1, <2>8
\* Into a worker's local deque, perhaps over a slot that a thief has claimed.
<1>19. ASSUME NEW e \in Task, NEW w \in Workers, Posted(e, "io", 0, 0), call[a].at # "in_push",
              HasRoom(w), PushBottom(w, e), UNCHANGED <<q, inbound, private_queue, timers, ran, call>>
       PROVE  Moved
  <2>1. IsFiniteSet(Pushing(t)') /\ Cardinality(Pushing(t)') = Cardinality(Pushing(t))
    <3>1. Pushing(t)' = Pushing(t)
      BY <1>19 DEF Pushing
    <3> QED
      BY <3>1, Zenon
  <2>2. \/ InQueues(local_dq', t) = InQueues(local_dq, t) + One(e)
        \/ /\ t \in overwritten' /\ InQueues(local_dq, t) > 0
           /\ InQueues(local_dq', t) = InQueues(local_dq, t) - 1 + One(e)
    BY <1>1, <1>19, PushPlaces DEF One
  <2>3. /\ Occurs(q', t) = Occurs(q, t) /\ InQueues(inbound', t) = InQueues(inbound, t)
        /\ InQueues(private_queue', t) = InQueues(private_queue, t)
        /\ Cardinality(TimersOf(t)') = Cardinality(TimersOf(t)) /\ Past(t)' = Past(t)
    BY <1>5, <1>19, Zenon
  <2>4. One(e) \in {0, 1} /\ (One(e) > 0 <=> e = t)
    BY <1>8
  <2>5. CASE InQueues(local_dq', t) = InQueues(local_dq, t) + One(e)
    <3>1. Places(t)' = Places(t) + One(e)
      BY <1>2, <1>3, <1>4, <1>6, <2>1, <2>3, <2>4, <2>5
    <3> QED
      BY <1>16, <1>19, <2>1, <3>1
  <2>6. CASE /\ t \in overwritten' /\ InQueues(local_dq, t) > 0
             /\ InQueues(local_dq', t) = InQueues(local_dq, t) - 1 + One(e)
    <3>1. Places(t) > 0
      BY <1>2, <1>3, <2>6
    <3>2. e # t
      BY <1>19, <3>1 DEF Posted
    <3>3. One(e) = 0
      BY <2>4, <3>2
    <3>4. Places(t)' = Places(t) - 1
      BY <1>2, <1>3, <1>4, <1>6, <2>1, <2>3, <2>6, <3>3
    <3>5. Places(t)' \in 0 .. Places(t)
      BY <1>12, <3>1, <3>4
    <3>6. post'[t] = post[t]
      BY <1>15, <1>19, <3>2
    <3> QED
      BY <2>1, <2>6, <3>5, <3>6 DEF Moved
  <2> QED
    BY <2>2, <2>5, <2>6
\* Into a worker's inbound queue.
<1>20. ASSUME NEW e \in Task, NEW w \in Workers, InboundPush(w, e)
       PROVE  InQueues(inbound', t) = InQueues(inbound, t) + One(e)
  <2>1. inbound' = Longer(inbound, w, e)
    BY <1>20 DEF InboundPush, Longer
  <2>2. /\ InQueues(Longer(inbound, w, e), t) \in Nat
        /\ e = t => InQueues(Longer(inbound, w, e), t) = InQueues(inbound, t) + 1
        /\ e # t => InQueues(Longer(inbound, w, e), t) = InQueues(inbound, t)
    BY <1>1, InQueuesAppend
  <2>3. InQueues(inbound', t) = InQueues(Longer(inbound, w, e), t)
    BY <2>1, Zenon
  <2>4. (e = t => One(e) = 1) /\ (e # t => One(e) = 0)
    BY DEF One
  <2> QED
    BY <1>2, <2>2, <2>3, <2>4
<1>21. ASSUME NEW e \in Task, NEW w \in Workers, Posted(e, "private", w, 0), InboundPush(w, e),
              Continue(a, "in_count", e, w), UNCHANGED <<q, local_dq, private_queue, timers, ran>>,
              call[a].at # "in_push"
       PROVE  Moved
  <2>1. IsFiniteSet(Pushing(t)') /\ Cardinality(Pushing(t)') = Cardinality(Pushing(t))
    <3>1. call' = [call EXCEPT ![a] = [at |-> "in_count", task |-> e, to |-> w]] /\ call[a].at # "in_push"
      BY <1>21 DEF Continue
    <3>2. [at |-> "in_count", task |-> e, to |-> w].at # "in_push"
      OBVIOUS
    <3> QED
      BY <1>7, <3>1, <3>2, Zenon
  <2>2. InQueues(inbound', t) = InQueues(inbound, t) + One(e) /\ One(e) \in {0, 1}
    BY <1>8, <1>20, <1>21
  <2>3. Occurs(q', t) = Occurs(q, t) /\ InQueues(local_dq', t) = InQueues(local_dq, t)
    BY <1>21, Zenon
  <2>4. /\ Occurs(q', t) + InQueues(inbound', t) + InQueues(local_dq', t)
             = Occurs(q, t) + InQueues(inbound, t) + InQueues(local_dq, t) + One(e)
        /\ Occurs(q', t) \in Nat /\ InQueues(inbound', t) \in Nat /\ InQueues(local_dq', t) \in Nat
    BY <1>2, <2>2, <2>3
  <2>5. UNCHANGED <<private_queue, timers, ran>>
    BY <1>21
  <2>6. Places(t)' = Places(t) + One(e)
    BY <1>9, <2>1, <2>2, <2>4, <2>5
  <2> QED
    BY <1>16, <1>21, <2>1, <2>6
\* The delayed task waits in the call until the call pushes it.
<1>22. ASSUME NEW e, NEW c, call' = [call EXCEPT ![a] = c], c.at = "in_push", c.task = e, call[a].at # "in_push"
       PROVE  IsFiniteSet(Pushing(t)') /\ Cardinality(Pushing(t)') = Cardinality(Pushing(t)) + One(e)
  <2>1. Pushing(t) \ {a} = Pushing(t)' \ {a} /\ a \notin Pushing(t) /\ (a \in Pushing(t)' <=> e = t)
    BY <1>1, <1>22 DEF Pushing
  <2> DEFINE S == Pushing(t)
             T == Pushing(t)'
  <2>2. S \ {a} = T \ {a} /\ a \notin S /\ (a \in T <=> e = t) /\ IsFiniteSet(S)
    BY <2>1
  <2> HIDE DEF S, T
  <2>3. /\ IsFiniteSet(T) /\ Cardinality(S) \in Nat
        /\ a \notin S /\ a \notin T => Cardinality(T) = Cardinality(S)
        /\ a \notin S /\ a \in T => Cardinality(T) = Cardinality(S) + 1
    BY <2>2, CardChange
  <2>4. (e = t => One(e) = 1) /\ (e # t => One(e) = 0)
    BY DEF One
  <2>5. IsFiniteSet(T) /\ Cardinality(T) = Cardinality(S) + One(e)
    BY <2>2, <2>3, <2>4
  <2> QED
    BY <2>5 DEF S, T
<1>23. ASSUME NEW e \in Task, NEW w \in Workers, NEW delay \in Delays, postDelayed(a, w, e, delay)
       PROVE  Moved
  <2>1. /\ Posted(e, "delayed", w, clock + delay) /\ call[a].at # "in_push"
        /\ call' = [call EXCEPT ![a] = [at |-> "in_push", task |-> e, to |-> w]]
    BY <1>17, <1>23 DEF postDelayed, Continue
  <2>2. [at |-> "in_push", task |-> e, to |-> w].at = "in_push" /\ [at |-> "in_push", task |-> e, to |-> w].task = e
    OBVIOUS
  <2>3. IsFiniteSet(Pushing(t)') /\ Cardinality(Pushing(t)') = Cardinality(Pushing(t)) + One(e)
    BY <1>22, <2>1, <2>2, Zenon
  <2>4. /\ q' = q /\ inbound' = inbound /\ local_dq' = local_dq /\ private_queue' = private_queue
        /\ timers' = timers /\ ran' = ran
    BY <1>23 DEF postDelayed, pool, mail, queues, deque
  <2>5. /\ Occurs(q', t) = Occurs(q, t) /\ InQueues(inbound', t) = InQueues(inbound, t)
        /\ InQueues(local_dq', t) = InQueues(local_dq, t)
        /\ InQueues(private_queue', t) = InQueues(private_queue, t)
        /\ Cardinality(TimersOf(t)') = Cardinality(TimersOf(t)) /\ Past(t)' = Past(t)
    BY <1>5, <2>4, Zenon
  <2>6. One(e) \in {0, 1}
    BY <1>8
  <2>7. Places(t)' = Places(t) + One(e)
    BY <1>2, <1>3, <1>4, <1>6, <2>3, <2>5, <2>6
  <2> QED
    BY <1>16, <2>1, <2>3, <2>7
<1>24. ASSUME AddTimer(a) PROVE Moved
  <2> DEFINE e == call[a].task
             w == call[a].to
  <2>1. e \in Task /\ w \in Workers /\ call[a].at = "in_push"
    BY <1>1, <1>24 DEF AddTimer, PushInv
  <2>2. InboundPush(w, e) /\ call' = [call EXCEPT ![a] = [at |-> "in_count", task |-> e, to |-> w]]
    BY <1>24 DEF AddTimer, Continue
  <2>3. /\ q' = q /\ local_dq' = local_dq /\ private_queue' = private_queue
        /\ timers' = timers /\ ran' = ran /\ post' = post
    BY <1>24 DEF AddTimer, pool, queues, deque
  <2>4. Pushing(t) \ {a} = Pushing(t)' \ {a} /\ (a \in Pushing(t) <=> e = t) /\ a \notin Pushing(t)'
    BY <1>1, <2>1, <2>2 DEF Pushing
  <2> DEFINE S == Pushing(t)
             T == Pushing(t)'
  <2>5. S \ {a} = T \ {a} /\ (a \in S <=> e = t) /\ a \notin T /\ IsFiniteSet(S)
    BY <2>4
  <2> HIDE DEF S, T, e, w
  <2>6. /\ IsFiniteSet(T) /\ Cardinality(S) \in Nat /\ Cardinality(T) \in Nat
        /\ a \notin S /\ a \notin T => Cardinality(T) = Cardinality(S)
        /\ a \in S /\ a \notin T => Cardinality(T) = Cardinality(S) - 1
    BY <2>5, CardChange
  <2>7. (e = t => One(e) = 1) /\ (e # t => One(e) = 0)
    BY DEF One
  <2>8. IsFiniteSet(T) /\ Cardinality(T) = Cardinality(S) - One(e) /\ Cardinality(T) \in Nat
    BY <2>5, <2>6, <2>7
  <2>9. IsFiniteSet(Pushing(t)') /\ Cardinality(Pushing(t)') = Cardinality(Pushing(t)) - One(e)
        /\ Cardinality(Pushing(t)') \in Nat
    BY <2>8 DEF S, T
  <2>10. InQueues(inbound', t) = InQueues(inbound, t) + One(e) /\ One(e) \in {0, 1}
    BY <1>8, <1>20, <2>1, <2>2
  <2>11. /\ Occurs(q', t) = Occurs(q, t)
         /\ InQueues(local_dq', t) = InQueues(local_dq, t)
         /\ InQueues(private_queue', t) = InQueues(private_queue, t)
         /\ Cardinality(TimersOf(t)') = Cardinality(TimersOf(t)) /\ Past(t)' = Past(t)
    BY <1>5, <2>3, Zenon
  <2>12. Places(t)' = Places(t)
    BY <1>2, <1>3, <1>4, <1>6, <2>9, <2>10, <2>11
  <2>13. post'[t] = post[t]
    BY <2>3
  <2> QED
    BY <1>10, <2>9, <2>12, <2>13
<1>25. ASSUME IoCount(a) \/ IoScan(a) \/ Wake(a) \/ InCount(a) \/ ExitStop(a) \/ ExitWake(a)
       PROVE  Moved
  <2>1. /\ UNCHANGED <<q, inbound, local_dq, private_queue, timers, ran, post>> /\ call[a].at # "in_push"
    BY <1>25 DEF IoCount, IoScan, Wake, InCount, ExitStop, ExitWake, pool, mail, queues, deque
  <2>2. Return(a) \/ \E l, e, v : l # "in_push" /\ Continue(a, l, e, v)
    BY <1>25 DEF IoCount, IoScan, Wake, InCount, ExitStop, ExitWake
  <2> QED
    BY <1>14, <2>1, <2>2
<1>26. ASSUME Exchange(a), call[a].at # "in_push"
       PROVE  Moved
  <2>1. UNCHANGED <<q, inbound, local_dq, private_queue, timers, ran, post>>
    BY <1>26 DEF Exchange, pool, mail, queues, deque
  <2>2. Return(a) \/ \E l, e, v : l # "in_push" /\ Continue(a, l, e, v)
    BY <1>26 DEF Exchange
  <2> QED
    BY <1>14, <1>26, <2>1, <2>2
<1>27. ASSUME NEW w, requestStop(a, w)
       PROVE  Moved
  BY <1>14, <1>17, <1>27 DEF requestStop, pool, mail, queues, deque
<1>28. ASSUME NEW e \in Task, postIO(a, e)
       PROVE  Moved
  BY <1>17, <1>18, <1>28 DEF postIO, mail, queues, deque
<1>29. ASSUME NEW e \in Task, NEW w \in Workers, postToLocal(a, w, e)
       PROVE  Moved
  <2>1. /\ Posted(e, "io", 0, 0) /\ call[a].at # "in_push"
        /\ UNCHANGED <<inbound, private_queue, timers, ran>>
    BY <1>17, <1>29 DEF postToLocal, mail
  <2>2. \/ HasRoom(w) /\ PushBottom(w, e) /\ UNCHANGED <<q, call>>
        \/ GlobalPush(e) /\ Continue(a, "io_count", e, 0) /\ UNCHANGED local_dq
    BY <1>29 DEF postToLocal, pool, deque
  <2> QED
    BY <1>18, <1>19, <2>1, <2>2
<1>30. ASSUME NEW e \in Task, NEW w \in Workers, postToWorker(a, w, e)
       PROVE  Moved
  BY <1>17, <1>21, <1>30 DEF postToWorker, pool, queues, deque
<1>31. ASSUME StartCall(a) PROVE Moved
  BY <1>17, <1>23, <1>26, <1>27, <1>28, <1>29, <1>30, <1>31 DEF StartCall, requestExit
<1>32. Moved
  BY <1>24, <1>25, <1>26, <1>31 DEF ContinueCall, NoCall
<1>33. (exit_requested => exit_requested') /\ stop_requested \subseteq stop_requested'
  BY DEF ContinueCall, IoCount, IoScan, Wake, AddTimer, InCount, ExitStop, ExitWake, StartCall, postIO,
         postToLocal, postToWorker, postDelayed, requestExit, Exchange, requestStop, flags
<1> QED
  BY <1>32, <1>33 DEF Moved

\* The inductive form of TaskInOnePlace: only finitely many calls hold the task.
OnePlace(t) ==
  /\ IsFiniteSet(Pushing(t))
  /\ post[t] = NotPosted => Places(t) = 0
  /\ Places(t) <= 1
  /\ post[t] # NotPosted /\ ~exit_requested /\ stop_requested = {} => Places(t) = 1 \/ t \in overwritten
OneInv == \A t \in Task : OnePlace(t)

LEMMA OneNext ==
  ASSUME TypeOK, TheftInv, RingInv, PushInv, HandInv, OneInv, [Next]_vars
  PROVE  OneInv'
<1> SUFFICES ASSUME NEW t \in Task PROVE OnePlace(t)'
  BY DEF OneInv
<1>1. OnePlace(t)
  BY DEF OneInv
<1>2. Places(t) \in Nat
  <2>1. /\ Occurs(q, t) \in Nat /\ InQueues(inbound, t) \in Nat /\ InQueues(private_queue, t) \in Nat
        /\ InQueues(local_dq, t) \in Nat /\ InQueues(hand, t) \in Nat
        /\ Cardinality(TimersOf(t)) \in Nat
        /\ Cardinality(Pushing(t)) \in Nat /\ Past(t) \in {0, 1}
    BY <1>1, PlacesNumbers DEF OnePlace
  <2>2. Places(t) = Occurs(q, t) + InQueues(inbound, t) + InQueues(private_queue, t)
                    + InQueues(local_dq, t) + InQueues(hand, t)
                    + Cardinality(TimersOf(t)) + Cardinality(Pushing(t)) + Past(t)
    BY PlacesAre
  <2> QED
    BY <2>1, <2>2
<1>9. overwritten \subseteq overwritten'
  BY OverwrittenGrows
\* Nothing about the task changes.
<1>3. ASSUME UNCHANGED <<q, inbound, private_queue, local_dq, hand, timers, ran, call, post,
                         exit_requested, stop_requested>>
      PROVE  OnePlace(t)'
  <2>1. Places(t)' = Places(t) /\ Pushing(t)' = Pushing(t)
    BY <1>3 DEF Places, Pushing, Positions, InQueues
  <2> QED
    BY <1>1, <1>3, <1>9, <2>1 DEF OnePlace
<1>4. ASSUME NEW w \in Workers, Loop(w) \/ OtherEvent(w)
      PROVE  OnePlace(t)'
  <2>1. post' = post /\ exit_requested' = exit_requested /\ stop_requested' = stop_requested
    BY <1>4, LoopFrame
  <2>2. \/ Places(t)' = Places(t)
        \/ t \in overwritten' /\ Places(t)' \in 0 .. Places(t)
        \/ PlaceCheck(w) /\ Exiting(w) /\ Places(t)' \in 0 .. Places(t)
    BY <1>1, <1>4, LoopPlaces DEF OnePlace
  <2>3. IsFiniteSet(Pushing(t)')
    <3>1. Pushing(t)' = Pushing(t)
      BY <1>4, LoopCallSets
    <3> QED
      BY <1>1, <3>1, Zenon DEF OnePlace
  <2>4. CASE Places(t)' = Places(t)
    BY <1>1, <1>9, <2>1, <2>3, <2>4 DEF OnePlace
  <2>5. CASE Exiting(w) /\ Places(t)' \in 0 .. Places(t)
    <3>1. ~(~exit_requested' /\ stop_requested' = {})
      BY <2>1, <2>5 DEF Exiting
    <3>2. Places(t)' <= 1 /\ (Places(t) = 0 => Places(t)' = 0)
      BY <1>1, <1>2, <2>5 DEF OnePlace
    <3> QED
      BY <1>1, <2>1, <2>3, <3>1, <3>2 DEF OnePlace
  <2>6. CASE t \in overwritten' /\ Places(t)' \in 0 .. Places(t)
    <3>1. Places(t)' <= 1 /\ (Places(t) = 0 => Places(t)' = 0)
      BY <1>1, <1>2, <2>6 DEF OnePlace
    <3> QED
      BY <1>1, <2>1, <2>3, <2>6, <3>1 DEF OnePlace
  <2> QED
    BY <2>2, <2>4, <2>5, <2>6
<1>5. ASSUME NEW a \in Agents, hand' = hand,
             ContinueCall(a) \/ StartCall(a) \/ (a = 0 /\ Exchange(a) /\ hand' = hand /\ call[a] = NoCall)
      PROVE  OnePlace(t)'
  <2>1. /\ IsFiniteSet(Pushing(t)')
        /\ \/ post'[t] = post[t] /\ Places(t)' = Places(t)
           \/ post'[t] = post[t] /\ t \in overwritten' /\ Places(t)' \in 0 .. Places(t)
           \/ post[t] = NotPosted /\ post'[t] # NotPosted /\ Places(t)' = Places(t) + 1
        /\ exit_requested => exit_requested'
        /\ stop_requested \subseteq stop_requested'
    BY <1>1, <1>5, CallPlaces DEF OnePlace
  <2>2. ~exit_requested' /\ stop_requested' = {} => ~exit_requested /\ stop_requested = {}
    BY <2>1
  <2>3. CASE post'[t] = post[t] /\ Places(t)' = Places(t)
    BY <1>1, <1>9, <2>1, <2>2, <2>3 DEF OnePlace
  <2>4. CASE post[t] = NotPosted /\ post'[t] # NotPosted /\ Places(t)' = Places(t) + 1
    <3>1. Places(t)' = 1
      BY <1>1, <2>4 DEF OnePlace
    <3> QED
      BY <2>1, <2>4, <3>1 DEF OnePlace
  <2>5. CASE post'[t] = post[t] /\ t \in overwritten' /\ Places(t)' \in 0 .. Places(t)
    <3>1. Places(t)' <= 1 /\ (Places(t) = 0 => Places(t)' = 0)
      BY <1>1, <1>2, <2>5 DEF OnePlace
    <3> QED
      BY <1>1, <2>1, <2>5, <3>1 DEF OnePlace
  <2> QED
    BY <2>1, <2>3, <2>4, <2>5
<1>6. CASE Main \/ JoinCompute
  <2>1. CASE LeaveMain
    BY <1>5, <2>1, WorkerFacts DEF LeaveMain, Goto
  <2>2. CASE Join
    BY <1>3, <2>2 DEF Join, Proceed, hiveVars, flags, pool, mail, queues, deque
  <2>3. CASE JoinCompute
    BY <1>3, <2>3 DEF JoinCompute, Proceed, hiveVars, flags, pool, mail, queues, deque
  <2> QED
    BY <1>6, <2>1, <2>2, <2>3 DEF Main
<1>7. ASSUME NEW a \in Agents, CallStep(a) \/ Start(a) PROVE OnePlace(t)'
  BY <1>5, <1>7 DEF CallStep, Start, locals
<1>8. CASE (Tick /\ UNCHANGED locals) \/ Finished \/ UNCHANGED vars
  BY <1>3, <1>8 DEF Tick, Finished, vars, hiveVars, locals, flags, pool, mail, queues, deque
<1> QED
  BY <1>4, <1>6, <1>7, <1>8 DEF Next

LEMMA OneInit == Init => OneInv
<1> SUFFICES ASSUME Init, NEW t \in Task PROVE OnePlace(t)
  BY DEF OneInv
<1>1. /\ q = <<>> /\ inbound = [w \in Workers |-> <<>>] /\ private_queue = [w \in Workers |-> <<>>]
      /\ hand = [w \in Workers |-> <<>>] /\ \A w \in Workers : \A i \in Slots(w) : local_dq[w][i] = NoTask
      /\ \A w \in Workers : DOMAIN local_dq[w] = Slots(w)
  BY DEF Init, HiveInit, WorkerInit
<1>9. InQueues(local_dq, t) = 0
  <2>1. \A w \in Workers : Positions(local_dq[w], t) = {}
    BY <1>1, HiveAssumption DEF Positions
  <2>2. UNION {{w} \X Positions(local_dq[w], t) : w \in Workers} = {}
    BY <2>1
  <2> QED
    BY <2>2, FS_EmptySet, Zenon DEF InQueues
<1>2. InQueues([w \in Workers |-> <<>>], t) = 0
  BY InQueuesEmpty
<1>3. /\ Occurs(q, t) = 0 /\ InQueues(inbound, t) = 0 /\ InQueues(private_queue, t) = 0
      /\ InQueues(local_dq, t) = 0 /\ InQueues(hand, t) = 0
  BY <1>1, <1>2, <1>9, OccursEmpty, Zenon
<1>4. TimersOf(t) = {} /\ Pushing(t) = {} /\ Past(t) = 0
  BY DEF Init, HiveInit, TimersOf, Pushing, Past, NoCall
<1>5. IsFiniteSet(Pushing(t)) /\ Cardinality(Pushing(t)) = 0 /\ Cardinality(TimersOf(t)) = 0
  BY <1>4, FS_EmptySet, Zenon
<1>6. Places(t) = Occurs(q, t) + InQueues(inbound, t) + InQueues(private_queue, t)
                  + InQueues(local_dq, t) + InQueues(hand, t)
                  + Cardinality(TimersOf(t)) + Cardinality(Pushing(t)) + Past(t)
  BY PlacesAre
<1>7. Places(t) = 0
  BY <1>3, <1>4, <1>5, <1>6
<1>8. post[t] = NotPosted
  BY DEF Init, HiveInit
<1> QED
  BY <1>5, <1>7, <1>8 DEF OnePlace

LEMMA RingInit == Init => RingInv /\ HandInv
<1>1. Init => RingInv
  BY DEF Init, HiveInit, RingInv
<1>2. Init => HandInv
  BY DEF Init, WorkerInit, HandInv, Holding
<1> QED
  BY <1>1, <1>2

\* No interleaving of posts, drains, harvests and steals duplicates a task or runs it
\* twice: it is in at most one call, queue, pair of hands or the past.  Before a stop is
\* requested a posted task is in exactly one, unless a push wrote over it in a slot that
\* a thief had claimed and not yet emptied (task_deque.cc:116 reads the slot after the
\* CAS of task_deque.cc:112).
THEOREM NoTaskLostOrDuplicated == Spec => []TaskInOnePlace
<1> DEFINE Inv == TypeOK /\ TheftInv /\ RingInv /\ PushInv /\ HandInv /\ OneInv
<1>1. Init => Inv
  BY TypeInit, RingInit, OneInit
<1>2. Inv /\ [Next]_vars => Inv'
  BY CallTypesNext, FlagTypesNext, QueueTypesNext, DequeTypesNext, LoopTypesNext, TheftNext, RingNext, PushNext,
     HandNext, OneNext DEF TypeOK
<1>3. Inv => TaskInOnePlace
  BY DEF OneInv, OnePlace, TaskInOnePlace
<1> QED
  BY <1>1, <1>2, <1>3, PTL DEF Spec
=============================================================================
