----------------------------- MODULE AsyncTask -----------------------------
(***************************************************************************)
(* The coroutine library, example/tcp_server_async_example/library: the    *)
(* executors of the IO workers, Task, AsyncQueue and TaskGroup.            *)
(*                                                                         *)
(* A coroutine that was spawned and the tasks it awaits are one chain:     *)
(* frames[c], innermost first, of which only the first can be resumed, so  *)
(* a handle is the name c of its chain.  Awaiting a task is a call that    *)
(* goes through the worker's private tasks, and so is its return.  An      *)
(* awaited pop() is not a task: its frame stays on the worker's thread.    *)
(*                                                                         *)
(* The private tasks of a worker are those of IOWorker.tla: what the       *)
(* worker posts itself is queued at once, what others post when it drains. *)
(***************************************************************************)
EXTENDS Integers, Sequences, FiniteSets, SequencesExt

CONSTANTS Execs,   \* the executors, one for each worker
          Coros,   \* the chains of coroutines
          Queues,  \* the AsyncQueue objects
          Groups,  \* the TaskGroup objects
          NoExec   \* no executor is bound yet

VARIABLES
  runq,         \* the private tasks of each worker
  inbound,      \* what others posted to the worker
  running,      \* the chain the worker's thread is resuming, or None
  hand,         \* the waiter push() or close() has taken and not scheduled yet
  frames,       \* the frames of each chain
  got,          \* what its last await returned
  queue,        \* q_, closed_, exec_ and waiter_ of each queue
  active,       \* active of each group
  join_waiter   \* join_waiter of each group

execVars  == <<runq, inbound, running, hand>>
groupVars == <<active, join_waiter>>
taskVars  == <<execVars, frames, got, queue, groupVars>>

None == <<>>
Frame(at, on) == [at |-> at, on |-> on]

AsyncQueue == [q |-> <<>>, closed |-> FALSE, exec |-> NoExec, waiter |-> None]

TaskInit ==
  /\ inbound = [e \in Execs |-> <<>>]
  /\ running = [e \in Execs |-> None] /\ hand = [e \in Execs |-> None]
  /\ got = [c \in Coros |-> None]
  /\ active = [g \in Groups |-> 0] /\ join_waiter = [g \in Groups |-> None]

\* Chain c runs on worker e, and its innermost frame is at a label.
At(e, c, label) ==
  /\ running[e] = c /\ hand[e] = None
  /\ frames[c] # <<>> /\ Head(frames[c]).at = label
Inner(c) == Head(frames[c])
Outer(c) == Tail(frames[c])

\* The chain goes on from another label, without leaving the thread.
Goto(c, label) == frames' = [frames EXCEPT ![c] = <<Frame(label, Inner(c).on)>> \o Outer(c)]

Idle(e) == running[e] = None /\ hand[e] = None

----------------------------------------------------------------------------
(* Executor.  schedule() posts a private task, from the worker itself or   *)
(* from another one.                                                       *)

Posted(qs, t, e) == [qs EXCEPT ![e] = Append(@, t)]

drainInbound(e) ==
  /\ Idle(e) /\ inbound[e] # <<>>
  /\ runq' = [runq EXCEPT ![e] = @ \o inbound[e]]
  /\ inbound' = [inbound EXCEPT ![e] = <<>>]
  /\ UNCHANGED <<running, hand, frames, got, queue, groupVars>>

resume(e) ==
  /\ Idle(e) /\ runq[e] # <<>> /\ Head(runq[e]) \in Coros
  /\ running' = [running EXCEPT ![e] = Head(runq[e])]
  /\ runq' = [runq EXCEPT ![e] = Tail(@)]
  /\ UNCHANGED <<inbound, hand, frames, got, queue, groupVars>>

\* The end of push() and close(): the waiter is scheduled on the executor that was
\* bound when it was taken.
wakeOne(e) ==
  /\ hand[e] # None
  /\ IF hand[e][2] = e
       THEN runq' = Posted(runq, hand[e][1], e) /\ UNCHANGED inbound
       ELSE inbound' = Posted(inbound, hand[e][1], hand[e][2]) /\ UNCHANGED runq
  /\ hand' = [hand EXCEPT ![e] = None]
  /\ UNCHANGED <<running, frames, got, queue, groupVars>>

----------------------------------------------------------------------------
(* Task.                                                                   *)

\* co_await of a task: the chain gets a frame, goes on at label `then` after it, and
\* is scheduled.
await(e, c, callee, on, then) ==
  /\ frames' = [frames EXCEPT ![c] = <<Frame(callee, on), Frame(then, Inner(c).on)>> \o Outer(c)]
  /\ running' = [running EXCEPT ![e] = None]
  /\ runq' = Posted(runq, c, e)
  /\ UNCHANGED <<inbound, hand>>

\* FinalAwaiter: a spawned chain ends, another frame resumes the one that awaits it.
final(e, c) ==
  /\ frames' = [frames EXCEPT ![c] = Tail(@)]
  /\ running' = [running EXCEPT ![e] = None]
  /\ runq' = IF Outer(c) = <<>> THEN runq ELSE Posted(runq, c, e)
  /\ UNCHANGED <<inbound, hand>>

\* The chain of worker e waits where whoever resumes it will find it.
suspend(e) == running' = [running EXCEPT ![e] = None]

\* What a spawn changes in the frames of chain c.
Spawned(fs, c, label, on) == [fs EXCEPT ![c] = <<Frame(label, on)>>]

----------------------------------------------------------------------------
(* AsyncQueue.  Each lock section is a step; the waiter it takes is woken  *)
(* after the unlock.                                                       *)

Taken(q) ==
  IF queue[q].waiter = None \/ queue[q].exec = NoExec THEN None
    ELSE <<queue[q].waiter, queue[q].exec>>

\* Mutant: waiter_ is not reset.
push_keeps(e, q, v) ==
  /\ queue' = IF queue[q].closed THEN queue ELSE [queue EXCEPT ![q].q = Append(@, v)]
  /\ hand' = [hand EXCEPT ![e] = IF queue[q].closed THEN None ELSE Taken(q)]

push(e, q, v) ==
  /\ queue' = IF queue[q].closed THEN queue
                ELSE [queue EXCEPT ![q].q = Append(@, v), ![q].waiter = None]
  /\ hand' = [hand EXCEPT ![e] = IF queue[q].closed THEN None ELSE Taken(q)]

close(e, q) ==
  /\ queue' = [queue EXCEPT ![q].closed = TRUE, ![q].waiter = None]
  /\ hand' = [hand EXCEPT ![e] = Taken(q)]

\* bind() comes before the first pop() here, so it finds no waiter.
bind(qs, q, e) == [qs EXCEPT ![q].exec = e]

await_ready(q) == queue[q].closed \/ queue[q].q # <<>>

\* co_await of pop(), up to await_ready(), by a chain that goes on at label `then`.
pop(c, q, then) ==
  frames' = [frames EXCEPT ![c] = <<Frame(IF await_ready(q) THEN "resume" ELSE "suspend", q),
                                    Frame(then, Inner(c).on)>> \o Outer(c)]

await_suspend(e, c) ==
  /\ At(e, c, "suspend")
  /\ queue' = [queue EXCEPT ![Inner(c).on].waiter = c]
  /\ Goto(c, "resume")
  /\ suspend(e)
  /\ UNCHANGED <<runq, inbound, hand, got, groupVars>>

await_resume(e, c) ==
  /\ At(e, c, "resume")
  /\ LET q == Inner(c).on
     IN  IF queue[q].q = <<>>
           THEN got' = [got EXCEPT ![c] = None] /\ UNCHANGED queue
           ELSE /\ got' = [got EXCEPT ![c] = Head(queue[q].q)]
                /\ queue' = [queue EXCEPT ![q].q = Tail(@)]
  /\ frames' = [frames EXCEPT ![c] = Tail(@)]
  /\ UNCHANGED <<execVars, groupVars>>

\* The value an await returned has been used.
Consumed(c) == got' = [got EXCEPT ![c] = None]

\* What a watcher's callback does to queues used on its own worker only: the
\* waiters are scheduled right away.
ClosedLocal(qs) == [q \in Queues |-> IF q \in qs THEN [queue[q] EXCEPT !.closed = TRUE, !.waiter = None]
                                               ELSE queue[q]]
Waiters(qs) == SetToSeq({queue[q].waiter : q \in qs} \ {None})
PushedLocal(q, v) ==
  IF queue[q].closed THEN queue ELSE [queue EXCEPT ![q].q = Append(@, v), ![q].waiter = None]
WokenLocal(q) == IF queue[q].closed THEN <<>> ELSE Waiters({q})

----------------------------------------------------------------------------
(* TaskGroup.                                                              *)

\* Mutant: join() does not wait.
JoinGroup_returns(e, c) ==
  /\ At(e, c, "join")
  /\ final(e, c)
  /\ UNCHANGED <<got, queue, groupVars>>

\* join(): returns at once when nothing is active, or leaves itself for the last child.
JoinGroup(e, c) ==
  /\ At(e, c, "join")
  /\ \/ /\ active[Inner(c).on] = 0
        /\ final(e, c)
        /\ UNCHANGED join_waiter
     \/ /\ active[Inner(c).on] > 0
        /\ join_waiter' = [join_waiter EXCEPT ![Inner(c).on] = c]
        /\ Goto(c, "joined")
        /\ suspend(e)
        /\ UNCHANGED <<runq, inbound, hand>>
  /\ UNCHANGED <<got, queue, active>>

Joined(e, c) ==
  /\ At(e, c, "joined")
  /\ final(e, c)
  /\ UNCHANGED <<got, queue, groupVars>>

\* childWrapper() after its task: the last child schedules the waiter of join().
ChildDone(e, c) ==
  /\ At(e, c, "child done")
  /\ LET g == Inner(c).on
         w == join_waiter[g]
     IN  /\ active' = [active EXCEPT ![g] = @ - 1]
         /\ IF active[g] = 1 /\ w # None
              THEN /\ join_waiter' = [join_waiter EXCEPT ![g] = None]
                   /\ runq' = Posted(runq, w, e)
              ELSE UNCHANGED <<join_waiter, runq>>
  /\ frames' = [frames EXCEPT ![c] = Tail(@)]
  /\ suspend(e)
  /\ UNCHANGED <<inbound, hand, got, queue>>

TaskStep(e) ==
  \/ drainInbound(e) \/ resume(e) \/ wakeOne(e)
  \/ running[e] # None /\ LET c == running[e] IN
       \/ await_suspend(e, c) \/ await_resume(e, c)
       \/ JoinGroup(e, c) \/ Joined(e, c) \/ ChildDone(e, c)
=============================================================================
