------------------------- MODULE ComputePool_proofs -------------------------
(***************************************************************************)
(* Proofs about ComputePool for every number of workers and posters, every *)
(* batch size and every number of spurious wakeups.                        *)
(***************************************************************************)
EXTENDS ComputePool, FiniteSetTheorems, SequenceTheorems, TLAPS

USE ComputeAssumption

\* A worker takes a non-empty batch off a non-empty queue and leaves the rest.
LEMMA BatchOfQueue ==
  ASSUME q \in Seq(Task), q # <<>>
  PROVE  /\ SubSeq(q, 1, BatchLen) \in Seq(Task)
         /\ SubSeq(q, BatchLen + 1, Len(q)) \in Seq(Task)
         /\ Len(SubSeq(q, BatchLen + 1, Len(q))) < Len(q)
<1>1. Len(q) \in Nat /\ Len(q) > 0 /\ \A i \in 1 .. Len(q) : q[i] \in Task
  BY EmptySeq, LenProperties, ElementOfSeq
<1>2. BatchLen \in Nat /\ 1 <= BatchLen /\ BatchLen <= Len(q)
  BY <1>1 DEF BatchLen
<1>3. \A i \in 1 .. BatchLen : q[i] \in Task
  BY <1>1, <1>2
<1>4. \A i \in BatchLen + 1 .. Len(q) : q[i] \in Task
  BY <1>1, <1>2
<1>5. SubSeq(q, 1, BatchLen) \in Seq(Task)
  BY <1>2, <1>3, SubSeqProperties
<1>6. /\ SubSeq(q, BatchLen + 1, Len(q)) \in Seq(Task)
      /\ Len(SubSeq(q, BatchLen + 1, Len(q)))
           = IF BatchLen + 1 <= Len(q) THEN Len(q) - (BatchLen + 1) + 1 ELSE 0
  BY <1>1, <1>2, <1>4, SubSeqProperties
<1> QED
  BY <1>1, <1>2, <1>5, <1>6

----------------------------------------------------------------------------
(* Types. *)

LEMMA TypeInit == Init => TypeOK
<1> SUFFICES ASSUME Init PROVE TypeOK
  OBVIOUS
<1>1. <<>> \in Seq(Task)
  OBVIOUS
<1>2. \A w \in Workers : pc[w] \in {"predicate", "wait"} <=> mu = w
  BY DEF Init, Agents
<1>3. batch \in [Workers -> Seq(Task)]
  BY <1>1 DEF Init
<1>4. /\ ranOn \in [Task -> Workers \cup {NoTask}]
      /\ pc \in [Workers -> Labels]
      /\ call \in [Agents -> {"none", "count", "notify", "stop"}]
  BY DEF Init, Labels
<1>5. /\ exit_requested \in BOOLEAN /\ stop_requested = {} /\ mu = Nobody
      /\ q \in Seq(Task) /\ waiting = {} /\ posted = {}
  BY <1>1, Zenon DEF Init
<1>6. approx_size \in Int /\ spurious \in 0 .. MaxSpurious
  BY DEF Init
<1>7. /\ stop_requested \subseteq Workers /\ mu \in Workers \cup {Nobody}
      /\ waiting \subseteq {w \in Workers : pc[w] = "lock"} /\ posted \subseteq Task
  BY <1>5
<1> QED
  BY <1>2, <1>3, <1>4, <1>5, <1>6, <1>7 DEF TypeOK

\* The calls do not touch the loops of the workers.
LEMMA CallTypes ==
  ASSUME TypeOK, NEW a \in Agents,
         CallStep(a) \/ requestExit(a) \/ \E t \in Task : postCompute(a, t)
  PROVE  TypeOK'
<1> USE DEF TypeOK, callVars, loopVars
<1>1. ASSUME NEW t \in Task, postCompute(a, t) PROVE TypeOK'
  <2>1. q' \in Seq(Task)
    BY <1>1, AppendProperties DEF postCompute
  <2> QED
    BY <1>1, <2>1 DEF postCompute, Continue
<1>2. CASE PushCount(a)
  BY <1>2 DEF PushCount, Continue
<1>3. CASE NotifyOne(a)
  BY <1>3 DEF NotifyOne, Continue
<1>4. CASE requestExit(a)
  BY <1>4 DEF requestExit
<1>5. CASE StopWorker(a)
  BY <1>5 DEF StopWorker
<1>6. CASE NotifyAll(a)
  BY <1>6 DEF NotifyAll, Continue
<1> QED
  BY <1>1, <1>2, <1>3, <1>4, <1>5, <1>6 DEF CallStep

LEMMA LoopTypes ==
  ASSUME TypeOK, NEW w \in Workers, Loop(w) \/ SpuriousWakeup(w)
  PROVE  TypeOK'
<1> USE DEF TypeOK, callVars, loopVars, Labels, Goto
<1>1. CASE LoopHead(w)
  BY <1>1 DEF LoopHead
<1>2. CASE Lock(w)
  BY <1>2 DEF Lock, Agents
<1>3. CASE MustWait(w)
  BY <1>3 DEF MustWait
<1>4. CASE Wait(w)
  BY <1>4 DEF Wait, Agents
<1>5. CASE PopNone(w)
  BY <1>5 DEF PopNone, Agents
<1>6. CASE PopBatch(w)
  BY <1>6, BatchOfQueue DEF PopBatch, Agents
<1>7. CASE Uncount(w)
  <2>1. Len(batch[w]) \in Nat
    BY LenProperties
  <2> QED
    BY <1>7, <2>1 DEF Uncount
<1>8. CASE RunTask(w)
  <2>1. Head(batch[w]) \in Task /\ Tail(batch[w]) \in Seq(Task)
    BY <1>8, HeadTailProperties DEF RunTask
  <2> QED
    BY <1>8, <2>1 DEF RunTask
<1>9. CASE TaskReturns(w)
  BY <1>9 DEF TaskReturns
<1>10. CASE BatchDone(w)
  <2>1. <<>> \in Seq(Task)
    OBVIOUS
  <2> QED
    BY <1>10, <2>1 DEF BatchDone
<1>11. CASE SpuriousWakeup(w)
  BY <1>11 DEF SpuriousWakeup
<1> QED
  BY <1>1, <1>2, <1>3, <1>4, <1>5, <1>6, <1>7, <1>8, <1>9, <1>10, <1>11 DEF Loop

LEMMA TypeNext == TypeOK /\ [Next]_vars => TypeOK'
<1> SUFFICES ASSUME TypeOK, [Next]_vars PROVE TypeOK'
  OBVIOUS
<1>1. CASE UNCHANGED vars
  BY <1>1 DEF vars, TypeOK
<1> QED
  BY <1>1, CallTypes, LoopTypes DEF Next

\* The queue, the batches and the loops of the compute pool keep their types, and
\* only the worker that evaluates the predicate of cv_.wait holds the mutex.
THEOREM TypeCorrect == Spec => []TypeOK
  BY TypeInit, TypeNext, PTL DEF Spec

----------------------------------------------------------------------------
(***************************************************************************)
(* Work conservation.  What is inductive is a count: as long as somebody   *)
(* waits, every queued task has a notification still to come or a worker   *)
(* that is awake and on its way to the queue.  A push adds one to both     *)
(* sides; a notification that finds a waiting thread turns into that       *)
(* worker; a worker that leaves with a batch takes at least one task.  A   *)
(* worker only goes to sleep on an empty queue, because it holds the mutex *)
(* from the predicate to the wait and a push needs the mutex.              *)
(***************************************************************************)
Notifiers == {a \in Agents : call[a] \in {"count", "notify"}}
Comers    == {w \in Workers \ waiting : pc[w] \in {"lock", "predicate"}}

Finite == IsFiniteSet(Notifiers) /\ IsFiniteSet(Comers) /\ IsFiniteSet(waiting)

WaitsOnEmpty == \A w \in Workers : pc[w] = "wait" => q = <<>>

EnoughOnTheWay ==
  waiting # {} /\ ~exit_requested => Len(q) <= Cardinality(Notifiers) + Cardinality(Comers)

WorkInv == Finite /\ WaitsOnEmpty /\ EnoughOnTheWay

\* While a worker is between its predicate and its wait it holds the mutex, so
\* nothing is pushed.
LEMMA WaitsOnEmptyNext == TypeOK /\ WaitsOnEmpty /\ [Next]_vars => WaitsOnEmpty'
<1> SUFFICES ASSUME TypeOK, WaitsOnEmpty, [Next]_vars PROVE WaitsOnEmpty'
  OBVIOUS
<1> USE DEF WaitsOnEmpty, TypeOK
<1>1. ASSUME NEW a \in Agents, NEW t \in Task, postCompute(a, t) PROVE WaitsOnEmpty'
  BY <1>1 DEF postCompute, loopVars, Agents
<1>2. ASSUME NEW a \in Agents, CallStep(a) \/ requestExit(a) PROVE WaitsOnEmpty'
  BY <1>2 DEF CallStep, requestExit, PushCount, NotifyOne, StopWorker, NotifyAll, loopVars
<1>3. ASSUME NEW w \in Workers, Loop(w) \/ SpuriousWakeup(w) PROVE WaitsOnEmpty'
  BY <1>3 DEF Loop, LoopHead, Lock, MustWait, Wait, PopNone, PopBatch, Uncount, RunTask,
     TaskReturns, BatchDone, SpuriousWakeup, Goto, loopVars
<1>4. CASE UNCHANGED vars
  BY <1>4 DEF vars
<1> QED
  BY <1>1, <1>2, <1>3, <1>4 DEF Next

LEMMA CallsKeepWork ==
  ASSUME TypeOK, Finite, EnoughOnTheWay, NEW a \in Agents,
         CallStep(a) \/ requestExit(a) \/ \E t \in Task : postCompute(a, t)
  PROVE  Finite' /\ EnoughOnTheWay'
<1>0. Cardinality(Notifiers) \in Nat /\ Cardinality(Comers) \in Nat /\ Len(q) \in Nat
  BY FS_CardinalityType, LenProperties DEF Finite, TypeOK
<1>1. ASSUME NEW t \in Task, postCompute(a, t) PROVE Finite' /\ EnoughOnTheWay'
  <2>1. Notifiers' = Notifiers \cup {a} /\ a \notin Notifiers
    BY <1>1 DEF postCompute, Notifiers, Continue, MayCall, TypeOK
  <2>2. UNCHANGED <<Comers, waiting, exit_requested>> /\ Len(q') = Len(q) + 1
    BY <1>1, AppendProperties DEF postCompute, Comers, loopVars, TypeOK
  <2>3. IsFiniteSet(Notifiers') /\ Cardinality(Notifiers') = Cardinality(Notifiers) + 1
    BY <2>1, FS_AddElement DEF Finite
  <2> QED
    BY <1>0, <2>2, <2>3 DEF Finite, EnoughOnTheWay
<1>2. CASE PushCount(a) \/ StopWorker(a)
  <2>1. Notifiers' = Notifiers
    BY <1>2 DEF PushCount, StopWorker, Notifiers, Continue, TypeOK
  <2>2. UNCHANGED <<Comers, waiting, exit_requested, q>>
    BY <1>2 DEF PushCount, StopWorker, Comers, callVars, loopVars
  <2> QED
    BY <2>1, <2>2 DEF Finite, EnoughOnTheWay
<1>3. CASE NotifyOne(a)
  <2>1. Notifiers' = Notifiers \ {a} /\ a \in Notifiers
    BY <1>3 DEF NotifyOne, Notifiers, Continue, TypeOK
  <2>2. IsFiniteSet(Notifiers') /\ Cardinality(Notifiers') = Cardinality(Notifiers) - 1
    BY <2>1, FS_RemoveElement DEF Finite
  <2>3. UNCHANGED <<pc, exit_requested, q>>
    BY <1>3 DEF NotifyOne, callVars, loopVars
  <2>4. CASE waiting = {} /\ UNCHANGED waiting
    BY <2>2, <2>3, <2>4 DEF Finite, EnoughOnTheWay, Comers
  <2>5. ASSUME NEW w \in waiting, waiting' = waiting \ {w}
        PROVE  Finite' /\ EnoughOnTheWay'
    <3>1. Comers' = Comers \cup {w} /\ w \notin Comers
      BY <2>3, <2>5 DEF Comers, TypeOK
    <3>2. IsFiniteSet(Comers') /\ Cardinality(Comers') = Cardinality(Comers) + 1
      BY <3>1, FS_AddElement DEF Finite
    <3>3. IsFiniteSet(waiting')
      BY <2>5, FS_RemoveElement DEF Finite
    <3> QED
      BY <1>0, <2>2, <2>3, <2>5, <3>2, <3>3 DEF Finite, EnoughOnTheWay
  <2> QED
    BY <1>3, <2>4, <2>5 DEF NotifyOne
<1>4. CASE requestExit(a)
  <2>1. Notifiers' = Notifiers
    BY <1>4 DEF requestExit, MayCall, Notifiers, TypeOK
  <2>2. UNCHANGED <<Comers, waiting>> /\ exit_requested'
    BY <1>4 DEF requestExit, Comers, loopVars
  <2> QED
    BY <2>1, <2>2 DEF Finite, EnoughOnTheWay
<1>5. CASE NotifyAll(a)
  <2>1. Notifiers' = Notifiers
    BY <1>5 DEF NotifyAll, Notifiers, Continue, TypeOK
  <2>2. waiting' = {} /\ Comers' = Comers \cup waiting
    BY <1>5 DEF NotifyAll, Comers, loopVars, TypeOK
  <2>3. IsFiniteSet(Comers') /\ IsFiniteSet(waiting')
    BY <2>2, FS_Union, FS_EmptySet DEF Finite
  <2> QED
    BY <2>1, <2>2, <2>3 DEF Finite, EnoughOnTheWay
<1> QED
  BY <1>1, <1>2, <1>3, <1>4, <1>5 DEF CallStep

LEMMA LoopsKeepWork ==
  ASSUME TypeOK, WorkInv, NEW w \in Workers, Loop(w) \/ SpuriousWakeup(w)
  PROVE  Finite' /\ EnoughOnTheWay'
<1> USE DEF WorkInv, Goto
<1>0. Cardinality(Notifiers) \in Nat /\ Cardinality(Comers) \in Nat /\ Len(q) \in Nat
  BY FS_CardinalityType, LenProperties DEF Finite, TypeOK
<1>1. Notifiers' = Notifiers /\ exit_requested' = exit_requested
  BY DEF Loop, LoopHead, Lock, MustWait, Wait, PopNone, PopBatch, Uncount, RunTask,
     TaskReturns, BatchDone, SpuriousWakeup, Notifiers, callVars
<1>2. IsFiniteSet(Comers \cup {w}) /\ IsFiniteSet(Comers \ {w}) /\ IsFiniteSet(waiting \cup {w})
  BY FS_AddElement, FS_RemoveElement DEF Finite
<1>a. Cardinality(Comers \cup {w}) \in Nat /\ Cardinality(Comers \cup {w}) >= Cardinality(Comers)
  <2>1. Cardinality(Comers \cup {w})
          = IF w \in Comers THEN Cardinality(Comers) ELSE Cardinality(Comers) + 1
    BY FS_AddElement DEF Finite
  <2> QED
    BY <1>0, <2>1
<1>b. Cardinality(Notifiers)' = Cardinality(Notifiers)
  BY <1>1
<1>3. CASE LoopHead(w)
  <2>1. Comers' = Comers \cup {w} \/ Comers' = Comers
    BY <1>3 DEF LoopHead, Comers, TypeOK
  <2>2. Cardinality(Comers') \in Nat /\ Cardinality(Comers') >= Cardinality(Comers)
    <3>1. CASE Comers' = Comers \cup {w}
      BY <1>a, <3>1
    <3>2. CASE Comers' = Comers
      BY <1>0, <3>2
    <3> QED
      BY <2>1, <3>1, <3>2
  <2> QED
    <3>1. waiting' = waiting /\ q' = q
      BY <1>3 DEF LoopHead
    <3>2. IsFiniteSet(Comers)'
      BY <1>2, <2>1 DEF Finite
    <3> QED
      BY <1>0, <1>1, <1>b, <2>2, <3>1, <3>2 DEF Finite, EnoughOnTheWay
<1>4. CASE Lock(w)
  <2>1. Comers' = Comers
    BY <1>4 DEF Lock, Comers, TypeOK
  <2> QED
    BY <1>1, <1>4, <2>1 DEF Lock, Finite, EnoughOnTheWay
<1>5. CASE MustWait(w) \/ Wait(w) \/ PopNone(w)
  <2>1. q = <<>> /\ q' = q /\ Len(q') = 0
    BY <1>5 DEF MustWait, Wait, PopNone, WaitsOnEmpty
  <2>2. /\ Comers' = Comers \/ Comers' = Comers \ {w}
        /\ waiting' = waiting \/ waiting' = waiting \cup {w}
    BY <1>5 DEF MustWait, Wait, PopNone, Comers, TypeOK
  <2>3. Finite'
    BY <1>1, <1>2, <2>2 DEF Finite
  <2>4. Cardinality(Notifiers)' \in Nat /\ Cardinality(Comers)' \in Nat
    BY <2>3, FS_CardinalityType DEF Finite
  <2> QED
    BY <2>1, <2>3, <2>4 DEF EnoughOnTheWay
<1>6. CASE PopBatch(w)
  <2>1. Len(q') < Len(q) /\ Len(q') \in Nat
    BY <1>6, BatchOfQueue, LenProperties DEF PopBatch, TypeOK
  <2>2. Comers' = Comers \ {w} /\ w \in Comers /\ waiting' = waiting
    BY <1>6 DEF PopBatch, Comers, TypeOK
  <2>3. Cardinality(Comers') = Cardinality(Comers) - 1
    BY <2>2, FS_RemoveElement DEF Finite
  <2> QED
    BY <1>0, <1>1, <1>2, <2>1, <2>2, <2>3 DEF Finite, EnoughOnTheWay
<1>7. CASE Uncount(w) \/ RunTask(w) \/ TaskReturns(w) \/ BatchDone(w)
  <2>1. Comers' = Comers
    BY <1>7 DEF Uncount, RunTask, TaskReturns, BatchDone, Comers, TypeOK
  <2> QED
    BY <1>1, <1>7, <2>1 DEF Uncount, RunTask, TaskReturns, BatchDone, Finite, EnoughOnTheWay
<1>8. CASE SpuriousWakeup(w)
  <2>1. Comers' = Comers \cup {w} /\ waiting' = waiting \ {w} /\ q' = q
    BY <1>8 DEF SpuriousWakeup, loopVars, Comers, TypeOK
  <2>2. Cardinality(Comers') \in Nat /\ Cardinality(Comers') >= Cardinality(Comers)
    BY <1>0, <1>a, <2>1
  <2>3. IsFiniteSet(waiting')
    BY <2>1, FS_RemoveElement DEF Finite
  <2> QED
    BY <1>0, <1>1, <1>2, <2>1, <2>2, <2>3 DEF Finite, EnoughOnTheWay
<1> QED
  BY <1>3, <1>4, <1>5, <1>6, <1>7, <1>8 DEF Loop

LEMMA WorkNext == TypeOK /\ WorkInv /\ [Next]_vars => WorkInv'
<1> SUFFICES ASSUME TypeOK, WorkInv, [Next]_vars PROVE WorkInv'
  OBVIOUS
<1>1. WaitsOnEmpty'
  BY WaitsOnEmptyNext DEF WorkInv
<1>2. CASE UNCHANGED vars
  BY <1>1, <1>2 DEF vars, WorkInv, Finite, EnoughOnTheWay, Notifiers, Comers
<1> QED
  BY <1>1, <1>2, CallsKeepWork, LoopsKeepWork DEF Next, WorkInv

LEMMA WorkInit == Init => WorkInv
<1> SUFFICES ASSUME Init PROVE WorkInv
  OBVIOUS
<1>1. Notifiers = {} /\ Comers = {} /\ waiting = {}
  BY DEF Init, Notifiers, Comers
<1> QED
  BY <1>1, FS_EmptySet DEF Init, WorkInv, Finite, WaitsOnEmpty, EnoughOnTheWay

\* No worker of the compute pool is left in cv_.wait while a task is queued, unless
\* an exit is requested or somebody is already on the way to the queue: notify_one
\* per push is enough although a worker takes a whole batch at a time.
THEOREM WorkConserving == Spec => []NoIdleWorkerWhileQueued
<1>1. TypeOK /\ WorkInv => NoIdleWorkerWhileQueued
  <2> SUFFICES ASSUME TypeOK, WorkInv, q # <<>>, waiting # {}, ~exit_requested
               PROVE  Notifiers # {} \/ Comers # {}
    BY DEF NoIdleWorkerWhileQueued, Notifiers, Comers
  <2>1. Len(q) \in Nat /\ Len(q) > 0
    BY EmptySeq, LenProperties DEF TypeOK
  <2>2. Cardinality(Notifiers) + Cardinality(Comers) > 0
    BY <2>1, FS_CardinalityType DEF WorkInv, Finite, EnoughOnTheWay
  <2> SUFFICES ASSUME Notifiers = {}, Comers = {} PROVE FALSE
    OBVIOUS
  <2>3. Cardinality(Notifiers) = 0 /\ Cardinality(Comers) = 0
    BY FS_EmptySet
  <2> QED
    BY <2>2, <2>3
<1> QED
  BY <1>1, TypeCorrect, TypeInit, TypeNext, WorkInit, WorkNext, PTL DEF Spec
====
